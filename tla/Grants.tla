------------------------------- MODULE Grants -------------------------------
(***************************************************************************)
(* The grants table (Option 2b), which is kept twice: hash sets and        *)
(* bitsets, each under an RwLock of its own.  grant and revoke change one  *)
(* after the other; inherit copies the parent's row to the child in four   *)
(* steps, a read and a write of each.  One step is the region one lock     *)
(* covers, and the steps of different threads interleave.                  *)
(*                                                                         *)
(* inherit is for a child that is being forked: until it is done, no one   *)
(* else uses the child's row.  The parent's row may change meanwhile.      *)
(***************************************************************************)
EXTENDS Integers

CONSTANTS
  Thread,     \* threads that call the operations
  Cage,       \* cage ids (0 .. MAX_CAGES-1)
  Edits,      \* the <<holder, target>> pairs that are granted and revoked
  Forks,      \* the <<parent, child>> pairs of inherit
  Questions   \* the <<holder, ids>> pairs that are checked

ASSUME GrantsOK ==
  /\ Cage \subseteq Nat
  /\ Edits \subseteq Cage \X Cage
  /\ Forks \subseteq Cage \X Cage /\ \A f \in Forks : f[1] # f[2]
  /\ Questions \subseteq Cage \X SUBSET Cage

Flavour == {"hash", "bits"}

VARIABLES
  table,   \* table["hash"], table["bits"]: `sets' and `bits', Cage -> SUBSET Cage
  op,      \* op[t]: the operation t is in the middle of
  said,    \* said[f]: the last question put to flavour f, and its answer
  clash    \* history: the cells <<holder, target>> last written, or copied from a
           \* cell last written, by operations that overlapped on them

vars == <<table, op, said, clash>>

Idle == [name |-> "idle"]

\* An operation in progress on a row: an edit of one of its cells whose bitset
\* write is still to do, or an inherit that is next to do step `at' with what it
\* read in copy.  doubt: the cells of the row another operation interferes with.
Editing(name, h, x, doubt) == [name |-> name, row |-> h, cell |-> x, doubt |-> doubt]
Inheriting(p, c, at, copy, doubt) ==
  [name |-> "inherit", row |-> c, parent |-> p, at |-> at, copy |-> copy, doubt |-> doubt]

Busy(t)        == op[t] # Idle
IsInherit(t)   == op[t].name = "inherit"
IsEdit(t)      == op[t].name \in {"grant", "revoke"}
BeingForked(c) == \E t \in Thread : IsInherit(t) /\ op[t].row = c

-----------------------------------------------------------------------------
(* History: which operations overlap on which cells                        *)

\* The operation of u once another begins to edit cell <<h, x>>.
Disturbed(u, h, x) ==
  IF \/ IsEdit(u) /\ op[u].row = h /\ op[u].cell = x
     \/ IsInherit(u) /\ op[u].parent = h
    THEN [op[u] EXCEPT !.doubt = op[u].doubt \cup {x}]
    ELSE op[u]

Edited(h, x) == \E u \in Thread : IsEdit(u) /\ op[u].row = h /\ op[u].cell = x

\* t is done: the cells it wrote are as clean as its own run was.
Written(o) == IF o.name = "inherit" THEN {o.row} \X Cage ELSE {<<o.row, o.cell>>}
Done(t) ==
  /\ op' = [op EXCEPT ![t] = Idle]
  /\ clash' = (clash \ Written(op[t])) \cup ({op[t].row} \X op[t].doubt)

-----------------------------------------------------------------------------
(* grant and revoke                                                        *)

\* Fault: a revoked target keeps its bit.
ChangedSetOnly(f, name, row, x) ==
  IF name = "grant" THEN row \cup {x} ELSE IF f = "hash" THEN row \ {x} ELSE row

\* Fault: the bit after the target's is set.
ChangedNext(f, name, row, x) ==
  IF name = "grant" THEN row \cup {IF f = "bits" THEN x + 1 ELSE x} ELSE row \ {x}

\* Fault: a second grant of a target takes it away.
ChangedToggle(f, name, row, x) ==
  IF name = "grant" /\ x \notin row THEN row \cup {x} ELSE row \ {x}

\* A row of flavour f after x is granted or revoked.
Changed(f, name, row, x) == IF name = "grant" THEN row \cup {x} ELSE row \ {x}

Change(f, name, h, x) ==
  table' = [table EXCEPT ![f][h] = Changed(f, name, table[f][h], x)]

\* The hash set first ...
EditSet(t, name, h, x) ==
  /\ ~Busy(t) /\ ~BeingForked(h)
  /\ Change("hash", name, h, x)
  /\ op' = [u \in Thread |->
              IF u = t THEN Editing(name, h, x, IF Edited(h, x) THEN {x} ELSE {})
                       ELSE Disturbed(u, h, x)]
  /\ UNCHANGED <<said, clash>>

\* ... then, under the other lock, the bitset.
EditBits(t) ==
  /\ IsEdit(t)
  /\ Change("bits", op[t].name, op[t].row, op[t].cell)
  /\ Done(t)
  /\ UNCHANGED said

-----------------------------------------------------------------------------
(* inherit                                                                 *)

\* Fault: the child keeps what its id was granted before.
CopiedMerge(row, copy) == row \cup copy

\* The child's row is replaced.
Copied(row, copy) == copy

\* The parent's hash set is cloned.
InheritRead(t, p, c) ==
  /\ ~Busy(t) /\ ~BeingForked(p)
  /\ \A u \in Thread : Busy(u) => op[u].row # c /\ (IsInherit(u) => op[u].parent # c)
  /\ op' = [op EXCEPT ![t] = Inheriting(p, c, "hash_write", table["hash"][p],
                                        {x \in Cage : <<p, x>> \in clash \/ Edited(p, x)})]
  /\ UNCHANGED <<table, said, clash>>

CopyTo(t, f) ==
  table' = [table EXCEPT ![f][op[t].row] = Copied(table[f][op[t].row], op[t].copy)]

InheritWrite(t) ==
  /\ IsInherit(t) /\ op[t].at = "hash_write"
  /\ CopyTo(t, "hash")
  /\ op' = [op EXCEPT ![t] = [op[t] EXCEPT !.at = "bits_read", !.copy = {}]]
  /\ UNCHANGED <<said, clash>>

InheritReadBits(t) ==
  /\ IsInherit(t) /\ op[t].at = "bits_read"
  /\ op' = [op EXCEPT ![t] = [op[t] EXCEPT !.at = "bits_write", !.copy = table["bits"][op[t].parent]]]
  /\ UNCHANGED <<table, said, clash>>

InheritWriteBits(t) ==
  /\ IsInherit(t) /\ op[t].at = "bits_write"
  /\ CopyTo(t, "bits")
  /\ Done(t)
  /\ UNCHANGED said

-----------------------------------------------------------------------------
(* allowed_*, all_allowed_*: under the one read lock they take             *)

Check(f, h, ids) ==
  /\ ~BeingForked(h)
  /\ said' = [said EXCEPT ![f] =
                [holder |-> h, ids |-> ids, ok |-> ids \subseteq table[f][h] \cup {h}]]
  /\ UNCHANGED <<table, op, clash>>

-----------------------------------------------------------------------------
(* The specification                                                       *)

Unasked == [ids |-> {}]

Init ==
  /\ table = [f \in Flavour |-> [h \in Cage |-> {}]]
  /\ op = [t \in Thread |-> Idle]
  /\ said = [f \in Flavour |-> Unasked]
  /\ clash = {}

Next ==
  \/ \E t \in Thread :
       \/ \E e \in Edits, name \in {"grant", "revoke"} : EditSet(t, name, e[1], e[2])
       \/ \E k \in Forks : InheritRead(t, k[1], k[2])
       \/ EditBits(t) \/ InheritWrite(t) \/ InheritReadBits(t) \/ InheritWriteBits(t)
  \/ \E f \in Flavour, q \in Questions : Check(f, q[1], q[2])

Spec == Init /\ [][Next]_vars

-----------------------------------------------------------------------------
(* Properties                                                              *)

EditOps    == [name : {"grant", "revoke"}, row : Cage, cell : Cage, doubt : SUBSET Cage]
InheritOps == [name : {"inherit"}, row : Cage, parent : Cage, copy : SUBSET Cage,
               at : {"hash_write", "bits_read", "bits_write"}, doubt : SUBSET Cage]
Answers    == [holder : Cage, ids : SUBSET Cage, ok : BOOLEAN]

\* Every variable has its type; in particular no bit beyond the ids is set.
TypeOK ==
  /\ table \in [Flavour -> [Cage -> SUBSET Cage]]
  /\ op \in [Thread -> {Idle} \cup EditOps \cup InheritOps]
  /\ said \in [Flavour -> {Unasked} \cup Answers]
  /\ clash \subseteq Cage \X Cage

Settled(h, x) == \A t \in Thread : Busy(t) => <<h, x>> \notin Written(op[t])

\* The two flavours answer alike about every cell that no operation is writing,
\* unless operations overlapped on that cell (two edits of it, or an edit of the
\* parent's cell during an inherit) and none has rewritten it alone since.  It
\* is what a caller who serialises the operations on a cell can count on: the
\* policies GrantsHash and GrantsBits are then interchangeable.
FlavoursAgree ==
  \A h, x \in Cage :
    Settled(h, x) /\ <<h, x>> \notin clash => (x \in table["hash"][h] <=> x \in table["bits"][h])

\* An edit that no other operation overlapped on its cell has, once it returns,
\* taken effect in both flavours: what threads do to the other cells of the row,
\* which is one word or one set with it, loses no grant and undoes no revoke.
EditsTake ==
  [][\A t \in Thread :
       IsEdit(t) /\ op'[t] = Idle /\ op[t].doubt = {} =>
         \A f \in Flavour :
           op[t].cell \in table'[f][op[t].row] <=> op[t].name = "grant"]_vars

\* A child's row is the parent's row from the moment that was read.
WriteOf(f) == IF f = "hash" THEN "hash_write" ELSE "bits_write"
May ==
  [f \in Flavour |-> [c \in Cage |->
     IF \E t \in Thread : IsInherit(t) /\ op[t].row = c /\ op[t].at = WriteOf(f)
       THEN op[CHOOSE t \in Thread : IsInherit(t) /\ op[t].row = c].copy
       ELSE table[f][c]]]

Sets == INSTANCE GrantRelation WITH may <- May["hash"], said <- said["hash"]
Bits == INSTANCE GrantRelation WITH may <- May["bits"], said <- said["bits"]

\* Each flavour on its own is a relation whose operations take effect at one
\* moment, however grant, revoke, inherit and checks of other threads interleave:
\* no operation is lost, and no check sees half of one.
SetsSpec == Sets!Spec
BitsSpec == Bits!Spec
=============================================================================
