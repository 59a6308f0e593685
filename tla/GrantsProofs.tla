---------------------------- MODULE GrantsProofs ----------------------------
(***************************************************************************)
(* Proof that the two flavours of the grants table agree where operations  *)
(* do not overlap, and that each flavour on its own is an atomic relation, *)
(* for any number of cages and threads.                                    *)
(*                                                                         *)
(* The argument: while an inherit is in progress no other operation uses   *)
(* the child's row (Apart).  Operations that overlap on a cell doubt it    *)
(* (Doubts); about a cell it does not doubt an operation knows what the    *)
(* hash set holds, and an inherit that the parent's flavours agree         *)
(* (Certain), so that its last write makes them agree about its own.       *)
(***************************************************************************)
EXTENDS Grants, TLAPS

\* No other operation uses the row an inherit writes.
Apart ==
  /\ \A t, u \in Thread : IsInherit(t) /\ Busy(u) /\ t # u =>
       op[u].row # op[t].row /\ (IsInherit(u) => op[u].parent # op[t].row)
  /\ \A t \in Thread : IsInherit(t) => op[t].parent # op[t].row

\* Operations that overlap on a cell doubt it.
Doubts ==
  /\ \A t, u \in Thread :
       IsEdit(t) /\ IsEdit(u) /\ t # u /\ op[t].row = op[u].row /\ op[t].cell = op[u].cell =>
         op[t].cell \in op[t].doubt
  /\ \A t, u \in Thread :
       IsInherit(t) /\ IsEdit(u) /\ op[u].row = op[t].parent => op[u].cell \in op[t].doubt

\* The copy of an inherit that is about to be written.
Fresh(o, x) ==
  /\ x \in table["hash"][o.parent] <=> x \in table["bits"][o.parent]
  /\ o.at = "hash_write" => (x \in o.copy <=> x \in table["hash"][o.parent])
  /\ o.at # "hash_write" => (x \in table["hash"][o.row] <=> x \in table["hash"][o.parent])
  /\ o.at = "bits_write" => (x \in o.copy <=> x \in table["bits"][o.parent])

\* What an operation knows of the cells it does not doubt.
Certain ==
  /\ \A t \in Thread : IsEdit(t) /\ op[t].cell \notin op[t].doubt =>
       (op[t].cell \in table["hash"][op[t].row] <=> op[t].name = "grant")
  /\ \A t \in Thread : IsInherit(t) => \A x \in Cage \ op[t].doubt : Fresh(op[t], x)

Inv == TypeOK /\ Apart /\ Doubts /\ Certain /\ FlavoursAgree

-----------------------------------------------------------------------------
(* How the steps change the variables                                      *)

\* The shape of an operation by its name.
LEMMA OpKinds ==
  ASSUME TypeOK, NEW t \in Thread
  PROVE  /\ ~Busy(t) => op[t] = Idle /\ ~IsEdit(t) /\ ~IsInherit(t)
         /\ Busy(t) <=> IsEdit(t) \/ IsInherit(t)
         /\ ~(IsEdit(t) /\ IsInherit(t))
         /\ IsEdit(t) => op[t] \in EditOps
         /\ IsInherit(t) => op[t] \in InheritOps
  BY DEF TypeOK, Busy, IsEdit, IsInherit, Idle, EditOps, InheritOps

\* One row of one flavour is written.
LEMMA RowWritten ==
  ASSUME TypeOK, NEW f \in Flavour, NEW h \in Cage, NEW row \in SUBSET Cage,
         table' = [table EXCEPT ![f][h] = row]
  PROVE  /\ table' \in [Flavour -> [Cage -> SUBSET Cage]] /\ table'[f][h] = row
         /\ \A k \in Cage : k # h => table'[f][k] = table[f][k]
         /\ \A g \in Flavour : g # f => table'[g] = table[g]
  BY DEF TypeOK

\* An edit that begins adds to the doubts of the others.
LEMMA Disturb ==
  ASSUME TypeOK, NEW u \in Thread, NEW h \in Cage, NEW x \in Cage
  PROVE  LET d == Disturbed(u, h, x) IN
         /\ d \in {Idle} \cup EditOps \cup InheritOps
         /\ d.name = op[u].name /\ (d = Idle <=> ~Busy(u))
         /\ Busy(u) => d.row = op[u].row /\ op[u].doubt \subseteq d.doubt
         /\ IsEdit(u) => d.cell = op[u].cell /\ (op[u].row = h /\ op[u].cell = x => x \in d.doubt)
         /\ IsInherit(u) => /\ d.parent = op[u].parent /\ d.at = op[u].at /\ d.copy = op[u].copy
                            /\ op[u].parent = h => x \in d.doubt
<1> DEFINE d == Disturbed(u, h, x)
<1>1. CASE d = op[u] /\ ~(IsEdit(u) /\ op[u].row = h /\ op[u].cell = x)
                     /\ ~(IsInherit(u) /\ op[u].parent = h)
  BY <1>1, OpKinds DEF TypeOK, Busy
<1>2. CASE d = [op[u] EXCEPT !.doubt = op[u].doubt \cup {x}] /\ IsEdit(u)
  <2>1. op[u] \in EditOps /\ Busy(u) /\ ~IsInherit(u)
    BY <1>2, OpKinds
  <2>2. /\ d \in EditOps /\ d.name = op[u].name /\ d.row = op[u].row /\ d.cell = op[u].cell
        /\ d.doubt = op[u].doubt \cup {x}
    BY <1>2, <2>1 DEF EditOps
  <2>3. d # Idle
    BY <2>2 DEF EditOps, Idle
  <2> HIDE DEF d
  <2> QED BY <2>1, <2>2, <2>3 DEF d
<1>3. CASE d = [op[u] EXCEPT !.doubt = op[u].doubt \cup {x}] /\ IsInherit(u)
  <2>1. op[u] \in InheritOps /\ Busy(u) /\ ~IsEdit(u)
    BY <1>3, OpKinds
  <2>2. /\ d \in InheritOps /\ d.name = op[u].name /\ d.row = op[u].row
        /\ d.parent = op[u].parent /\ d.at = op[u].at /\ d.copy = op[u].copy
        /\ d.doubt = op[u].doubt \cup {x}
    BY <1>3, <2>1 DEF InheritOps
  <2>3. d # Idle
    BY <2>2 DEF InheritOps, Idle
  <2> HIDE DEF d
  <2> QED BY <2>1, <2>2, <2>3 DEF d
<1> QED BY <1>1, <1>2, <1>3 DEF Disturbed

\* What EditSet does.
LEMMA EditSetStep ==
  ASSUME TypeOK, NEW t \in Thread, NEW name \in {"grant", "revoke"}, NEW h \in Cage, NEW x \in Cage,
         EditSet(t, name, h, x)
  PROVE  /\ ~Busy(t) /\ ~BeingForked(h)
         /\ op'[t] \in EditOps /\ op'[t].name = name /\ op'[t].row = h /\ op'[t].cell = x
         /\ Edited(h, x) => op'[t].doubt = {x}
         /\ ~Edited(h, x) => op'[t].doubt = {}
         /\ \A u \in Thread : u # t => op'[u] = Disturbed(u, h, x)
         /\ op' \in [Thread -> {Idle} \cup EditOps \cup InheritOps]
         /\ table' = [table EXCEPT !["hash"][h] = Changed("hash", name, table["hash"][h], x)]
         /\ Changed("hash", name, table["hash"][h], x) \in SUBSET Cage
<1> DEFINE o == Editing(name, h, x, IF Edited(h, x) THEN {x} ELSE {})
<1>1. /\ o \in EditOps /\ o.name = name /\ o.row = h /\ o.cell = x
      /\ Edited(h, x) => o.doubt = {x}
      /\ ~Edited(h, x) => o.doubt = {}
  BY DEF Editing, EditOps
<1> HIDE DEF o
<1>2. op' = [u \in Thread |-> IF u = t THEN o ELSE Disturbed(u, h, x)]
  BY DEF EditSet, o
<1>3. \A u \in Thread : Disturbed(u, h, x) \in {Idle} \cup EditOps \cup InheritOps
  BY Disturb
<1>4. Changed("hash", name, table["hash"][h], x) \in SUBSET Cage
  BY DEF Changed, TypeOK, Flavour
<1>5. op'[t] = o /\ \A u \in Thread : u # t => op'[u] = Disturbed(u, h, x)
  BY <1>2
<1>6. op' \in [Thread -> {Idle} \cup EditOps \cup InheritOps]
  <2>1. \A u \in Thread : op'[u] \in {Idle} \cup EditOps \cup InheritOps
    BY <1>1, <1>3, <1>5
  <2> QED BY <1>2, <2>1
<1>7. /\ ~Busy(t) /\ ~BeingForked(h)
      /\ table' = [table EXCEPT !["hash"][h] = Changed("hash", name, table["hash"][h], x)]
  BY DEF EditSet, Change
<1>8. /\ op'[t] \in EditOps /\ op'[t].name = name /\ op'[t].row = h /\ op'[t].cell = x
      /\ Edited(h, x) => op'[t].doubt = {x}
      /\ ~Edited(h, x) => op'[t].doubt = {}
  BY <1>1, <1>5
<1> QED BY <1>4, <1>5, <1>6, <1>7, <1>8

\* What EditBits does.
LEMMA EditBitsStep ==
  ASSUME TypeOK, NEW t \in Thread, EditBits(t)
  PROVE  /\ op[t] \in EditOps /\ IsEdit(t)
         /\ op'[t] = Idle /\ \A u \in Thread : u # t => op'[u] = op[u]
         /\ clash' = (clash \ {<<op[t].row, op[t].cell>>}) \cup ({op[t].row} \X op[t].doubt)
         /\ table' = [table EXCEPT !["bits"][op[t].row] =
                        Changed("bits", op[t].name, table["bits"][op[t].row], op[t].cell)]
         /\ Changed("bits", op[t].name, table["bits"][op[t].row], op[t].cell) \in SUBSET Cage
<1>1. op[t] \in EditOps /\ IsEdit(t)
  BY OpKinds DEF EditBits
<1>2. Changed("bits", op[t].name, table["bits"][op[t].row], op[t].cell) \in SUBSET Cage
  BY <1>1 DEF Changed, TypeOK, Flavour, EditOps
<1>3. Written(op[t]) = {<<op[t].row, op[t].cell>>}
  BY <1>1 DEF Written, EditOps
<1>4. op'[t] = Idle /\ \A u \in Thread : u # t => op'[u] = op[u]
  BY DEF EditBits, Done, TypeOK
<1> QED BY <1>1, <1>2, <1>3, <1>4 DEF EditBits, Done, Change

\* What InheritRead does.
LEMMA InheritReadStep ==
  ASSUME TypeOK, NEW t \in Thread, NEW p \in Cage, NEW c \in Cage, InheritRead(t, p, c)
  PROVE  /\ ~Busy(t) /\ ~BeingForked(p)
         /\ op'[t] \in InheritOps /\ op'[t].row = c /\ op'[t].parent = p
         /\ op'[t].at = "hash_write" /\ op'[t].copy = table["hash"][p]
         /\ op'[t].doubt = {x \in Cage : <<p, x>> \in clash \/ Edited(p, x)}
         /\ \A u \in Thread : u # t => op'[u] = op[u]
<1> DEFINE o == Inheriting(p, c, "hash_write", table["hash"][p],
                           {x \in Cage : <<p, x>> \in clash \/ Edited(p, x)})
<1>1. table["hash"][p] \in SUBSET Cage
  BY DEF TypeOK, Flavour
<1>2. /\ o \in InheritOps /\ o.row = c /\ o.parent = p /\ o.at = "hash_write"
      /\ o.copy = table["hash"][p]
      /\ o.doubt = {x \in Cage : <<p, x>> \in clash \/ Edited(p, x)}
  BY <1>1 DEF Inheriting, InheritOps
<1> HIDE DEF o
<1>3. op' = [op EXCEPT ![t] = o]
  BY DEF InheritRead, o
<1>4. op'[t] = o /\ \A u \in Thread : u # t => op'[u] = op[u]
  BY <1>3 DEF TypeOK
<1> QED BY <1>2, <1>4 DEF InheritRead

\* What the middle steps of inherit do to their operation.
LEMMA InheritStep ==
  ASSUME TypeOK, NEW t \in Thread, InheritWrite(t) \/ InheritReadBits(t)
  PROVE  /\ op[t] \in InheritOps /\ IsInherit(t)
         /\ op'[t] \in InheritOps /\ op'[t].row = op[t].row /\ op'[t].parent = op[t].parent
         /\ op'[t].doubt = op[t].doubt
         /\ InheritWrite(t) => op[t].at = "hash_write" /\ op'[t].at = "bits_read"
         /\ InheritReadBits(t) => /\ op[t].at = "bits_read" /\ op'[t].at = "bits_write"
                                  /\ op'[t].copy = table["bits"][op[t].parent]
         /\ \A u \in Thread : u # t => op'[u] = op[u]
<1>1. op[t] \in InheritOps /\ IsInherit(t)
  BY OpKinds DEF InheritWrite, InheritReadBits
<1>2. CASE InheritWrite(t)
  <2> DEFINE o == [op[t] EXCEPT !.at = "bits_read", !.copy = {}]
  <2>1. /\ o \in InheritOps /\ o.row = op[t].row /\ o.parent = op[t].parent
        /\ o.doubt = op[t].doubt /\ o.at = "bits_read"
    BY <1>1 DEF InheritOps
  <2>2. op'[t] = o /\ \A u \in Thread : u # t => op'[u] = op[u]
    BY <1>2 DEF InheritWrite, TypeOK
  <2> HIDE DEF o
  <2> QED BY <1>1, <1>2, <2>1, <2>2 DEF InheritWrite, InheritReadBits
<1>3. CASE InheritReadBits(t)
  <2> DEFINE o == [op[t] EXCEPT !.at = "bits_write", !.copy = table["bits"][op[t].parent]]
  <2>1. table["bits"][op[t].parent] \in SUBSET Cage
    BY <1>1 DEF TypeOK, Flavour, InheritOps
  <2>2. /\ o \in InheritOps /\ o.row = op[t].row /\ o.parent = op[t].parent
        /\ o.doubt = op[t].doubt /\ o.at = "bits_write"
        /\ o.copy = table["bits"][op[t].parent]
    BY <1>1, <2>1 DEF InheritOps
  <2>3. op'[t] = o /\ \A u \in Thread : u # t => op'[u] = op[u]
    BY <1>3 DEF InheritReadBits, TypeOK
  <2> HIDE DEF o
  <2> QED BY <1>1, <1>3, <2>2, <2>3 DEF InheritWrite, InheritReadBits
<1> QED BY <1>2, <1>3

\* What the last step of inherit does.
LEMMA InheritDone ==
  ASSUME TypeOK, NEW t \in Thread, InheritWriteBits(t)
  PROVE  /\ op[t] \in InheritOps /\ IsInherit(t) /\ op[t].at = "bits_write"
         /\ op'[t] = Idle /\ \A u \in Thread : u # t => op'[u] = op[u]
         /\ clash' = (clash \ ({op[t].row} \X Cage)) \cup ({op[t].row} \X op[t].doubt)
         /\ table' = [table EXCEPT !["bits"][op[t].row] = op[t].copy]
<1>1. op[t] \in InheritOps /\ IsInherit(t)
  BY OpKinds DEF InheritWriteBits
<1>2. Written(op[t]) = {op[t].row} \X Cage
  BY <1>1 DEF Written, InheritOps
<1>3. op'[t] = Idle /\ \A u \in Thread : u # t => op'[u] = op[u]
  BY DEF InheritWriteBits, Done, TypeOK
<1> QED BY <1>1, <1>2, <1>3 DEF InheritWriteBits, Done, CopyTo, Copied

-----------------------------------------------------------------------------
(* Types                                                                   *)

\* The types are inductive by themselves.
LEMMA NextType == TypeOK /\ [Next]_vars => TypeOK'
<1> SUFFICES ASSUME TypeOK, [Next]_vars PROVE TypeOK'
  OBVIOUS
<1>1. CASE UNCHANGED vars
  BY <1>1 DEF vars, TypeOK
<1>2. ASSUME NEW t \in Thread, NEW e \in Edits, NEW name \in {"grant", "revoke"},
             EditSet(t, name, e[1], e[2])
      PROVE  TypeOK'
  <2>1. PICK h \in Cage, x \in Cage : h = e[1] /\ x = e[2]
    BY GrantsOK
  <2>2. PICK row \in SUBSET Cage : table' = [table EXCEPT !["hash"][h] = row]
    BY <1>2, <2>1, EditSetStep
  <2>3. table' \in [Flavour -> [Cage -> SUBSET Cage]]
    BY <2>2, RowWritten DEF Flavour
  <2> QED BY <1>2, <2>1, <2>3, EditSetStep DEF TypeOK, EditSet
<1>3. ASSUME NEW t \in Thread, EditBits(t) PROVE TypeOK'
  <2>1. op[t].row \in Cage /\ op[t].cell \in Cage /\ op[t].doubt \in SUBSET Cage /\ said' = said
    BY <1>3, EditBitsStep DEF EditOps, EditBits
  <2>2. "bits" \in Flavour
    BY DEF Flavour
  <2>3. table' \in [Flavour -> [Cage -> SUBSET Cage]]
    BY <1>3, <2>1, <2>2, EditBitsStep, RowWritten
  <2>4. op' \in [Thread -> {Idle} \cup EditOps \cup InheritOps]
    BY <1>3 DEF EditBits, Done, TypeOK
  <2>5. clash' \subseteq Cage \X Cage
    BY <1>3, <2>1, EditBitsStep DEF TypeOK
  <2> QED BY <2>1, <2>3, <2>4, <2>5 DEF TypeOK
<1>4. ASSUME NEW t \in Thread, NEW k \in Forks, InheritRead(t, k[1], k[2]) PROVE TypeOK'
  <2>1. k[1] \in Cage /\ k[2] \in Cage /\ UNCHANGED <<table, said, clash>>
    BY <1>4, GrantsOK DEF InheritRead
  <2>2. op'[t] \in InheritOps
    BY <1>4, <2>1, InheritReadStep
  <2> QED BY <1>4, <2>1, <2>2 DEF InheritRead, TypeOK
<1>5. ASSUME NEW t \in Thread, InheritWrite(t) PROVE TypeOK'
  <2>1. /\ op[t].row \in Cage /\ op[t].copy \in SUBSET Cage /\ op'[t] \in InheritOps
        /\ table' = [table EXCEPT !["hash"][op[t].row] = op[t].copy]
        /\ UNCHANGED <<said, clash>>
    BY <1>5, InheritStep DEF InheritWrite, InheritOps, CopyTo, Copied
  <2>2. "hash" \in Flavour
    BY DEF Flavour
  <2>3. table' \in [Flavour -> [Cage -> SUBSET Cage]]
    BY <2>1, <2>2, RowWritten
  <2> QED BY <1>5, <2>1, <2>3 DEF InheritWrite, TypeOK
<1>6. ASSUME NEW t \in Thread, InheritReadBits(t) PROVE TypeOK'
  <2>1. op'[t] \in InheritOps /\ UNCHANGED <<table, said, clash>>
    BY <1>6, InheritStep DEF InheritReadBits
  <2> QED BY <1>6, <2>1 DEF InheritReadBits, TypeOK
<1>7. ASSUME NEW t \in Thread, InheritWriteBits(t) PROVE TypeOK'
  <2>1. /\ op[t].row \in Cage /\ op[t].copy \in SUBSET Cage /\ op[t].doubt \in SUBSET Cage
        /\ said' = said
    BY <1>7, InheritDone DEF InheritOps, InheritWriteBits
  <2>2. "bits" \in Flavour
    BY DEF Flavour
  <2>3. table' \in [Flavour -> [Cage -> SUBSET Cage]]
    BY <1>7, <2>1, <2>2, InheritDone, RowWritten
  <2>4. op' \in [Thread -> {Idle} \cup EditOps \cup InheritOps]
    BY <1>7 DEF InheritWriteBits, Done, TypeOK
  <2>5. clash' \subseteq Cage \X Cage
    BY <1>7, <2>1, InheritDone DEF TypeOK
  <2> QED BY <2>1, <2>3, <2>4, <2>5 DEF TypeOK
<1>8. ASSUME NEW f \in Flavour, NEW q \in Questions, Check(f, q[1], q[2]) PROVE TypeOK'
  <2> DEFINE a == [holder |-> q[1], ids |-> q[2], ok |-> q[2] \subseteq table[f][q[1]] \cup {q[1]}]
  <2>1. q[1] \in Cage /\ q[2] \in SUBSET Cage
    BY GrantsOK
  <2>2. a \in Answers
    BY <2>1 DEF Answers
  <2>3. said' = [said EXCEPT ![f] = a] /\ UNCHANGED <<table, op, clash>>
    BY <1>8 DEF Check
  <2> HIDE DEF a
  <2> QED BY <2>2, <2>3 DEF TypeOK
<1> QED BY <1>1, <1>2, <1>3, <1>4, <1>5, <1>6, <1>7, <1>8 DEF Next

-----------------------------------------------------------------------------
(* Operations in progress                                                  *)

\* Operations that keep their rows, or end, stay apart and doubt what they did.
LEMMA KeptApart ==
  ASSUME TypeOK, TypeOK', Apart, Doubts,
         \A u \in Thread : \/ op'[u] = Idle
                           \/ /\ op'[u].name = op[u].name /\ op'[u].row = op[u].row
                              /\ op'[u].doubt = op[u].doubt
                              /\ IsEdit(u) => op'[u].cell = op[u].cell
                              /\ IsInherit(u) => op'[u].parent = op[u].parent
  PROVE  Apart' /\ Doubts'
<1>1. \A u \in Thread : op'[u] = Idle => ~IsEdit(u)' /\ ~IsInherit(u)' /\ ~Busy(u)'
  BY DEF IsEdit, IsInherit, Busy, Idle
<1>2. \A u \in Thread : op'[u] # Idle => /\ (IsEdit(u)' <=> IsEdit(u)) /\ (IsInherit(u)' <=> IsInherit(u))
                                         /\ (Busy(u)' => Busy(u))
  <2> SUFFICES ASSUME NEW u \in Thread, op'[u] # Idle
               PROVE  /\ (IsEdit(u)' <=> IsEdit(u)) /\ (IsInherit(u)' <=> IsInherit(u))
                      /\ (Busy(u)' => Busy(u))
    OBVIOUS
  <2>1. op'[u].name = op[u].name
    OBVIOUS
  <2>2. (Busy(u) <=> IsEdit(u) \/ IsInherit(u)) /\ (op'[u].name # "idle")
    BY OpKinds DEF TypeOK, EditOps, InheritOps
  <2> QED BY <2>1, <2>2 DEF IsEdit, IsInherit, TypeOK, Idle, EditOps, InheritOps
<1>3. Apart'
  <2>1. ASSUME NEW t \in Thread, NEW u \in Thread, IsInherit(t)', Busy(u)', t # u
        PROVE  op'[u].row # op'[t].row /\ (IsInherit(u)' => op'[u].parent # op'[t].row)
    BY <1>1, <1>2, <2>1 DEF Apart
  <2>2. ASSUME NEW t \in Thread, IsInherit(t)' PROVE op'[t].parent # op'[t].row
    BY <1>1, <1>2, <2>2 DEF Apart
  <2> QED BY <2>1, <2>2 DEF Apart
<1>4. Doubts'
  <2>1. ASSUME NEW t \in Thread, NEW u \in Thread, IsEdit(t)', IsEdit(u)', t # u,
               op'[t].row = op'[u].row, op'[t].cell = op'[u].cell
        PROVE  op'[t].cell \in op'[t].doubt
    BY <1>1, <1>2, <2>1 DEF Doubts
  <2>2. ASSUME NEW t \in Thread, NEW u \in Thread, IsInherit(t)', IsEdit(u)',
               op'[u].row = op'[t].parent
        PROVE  op'[u].cell \in op'[t].doubt
    BY <1>1, <1>2, <2>2 DEF Doubts
  <2> QED BY <2>1, <2>2 DEF Doubts
<1> QED BY <1>3, <1>4

\* Operations begin apart from the others, and doubt what they overlap on.
LEMMA NextApart == TypeOK /\ Apart /\ Doubts /\ [Next]_vars => Apart' /\ Doubts'
<1> SUFFICES ASSUME TypeOK, TypeOK', Apart, Doubts, [Next]_vars PROVE Apart' /\ Doubts'
  BY NextType
<1>1. CASE op' = op
  BY <1>1, KeptApart
<1>2. ASSUME NEW t \in Thread, EditBits(t) PROVE Apart' /\ Doubts'
  BY <1>2, KeptApart, EditBitsStep
<1>3. ASSUME NEW t \in Thread, InheritWriteBits(t) PROVE Apart' /\ Doubts'
  BY <1>3, KeptApart, InheritDone
<1>4. ASSUME NEW t \in Thread, InheritWrite(t) \/ InheritReadBits(t) PROVE Apart' /\ Doubts'
  <2>1. /\ op'[t].name = op[t].name /\ op'[t].row = op[t].row /\ op'[t].doubt = op[t].doubt
        /\ op'[t].parent = op[t].parent /\ ~IsEdit(t)
        /\ \A u \in Thread : u # t => op'[u] = op[u]
    BY <1>4, InheritStep DEF InheritOps, IsEdit
  <2> QED BY <2>1, KeptApart
<1>5. ASSUME NEW t \in Thread, NEW p \in Cage, NEW c \in Cage, InheritRead(t, p, c), p # c
      PROVE  Apart' /\ Doubts'
  <2>1. /\ ~Busy(t) /\ \A u \in Thread : IsInherit(u) => op[u].row # p
        /\ op'[t] \in InheritOps /\ op'[t].row = c /\ op'[t].parent = p
        /\ op'[t].doubt = {x \in Cage : <<p, x>> \in clash \/ Edited(p, x)}
        /\ \A u \in Thread : u # t => op'[u] = op[u]
    BY <1>5, InheritReadStep DEF BeingForked
  <2>2. \A u \in Thread : Busy(u) => op[u].row # c /\ (IsInherit(u) => op[u].parent # c)
    BY <1>5 DEF InheritRead
  <2>3. IsInherit(t)' /\ ~IsEdit(t)'
    BY <2>1 DEF InheritOps, IsInherit, IsEdit
  <2>4. \A u \in Thread : u # t => /\ (IsInherit(u)' <=> IsInherit(u)) /\ (IsEdit(u)' <=> IsEdit(u))
                                   /\ (Busy(u)' <=> Busy(u)) /\ (IsInherit(u) => Busy(u))
    BY <2>1, OpKinds DEF IsInherit, IsEdit, Busy
  <2>5. Apart'
    BY <1>5, <2>1, <2>2, <2>3, <2>4 DEF Apart
  <2>6. ASSUME NEW u \in Thread, IsEdit(u), op[u].row = p PROVE op[u].cell \in op'[t].doubt
    <3>1. op[u].cell \in Cage
      BY <2>6, OpKinds DEF EditOps
    <3> QED BY <2>1, <2>6, <3>1 DEF Edited
  <2>7. Doubts'
    BY <2>1, <2>3, <2>4, <2>6 DEF Doubts
  <2> QED BY <2>5, <2>7
<1>6. ASSUME NEW t \in Thread, NEW name \in {"grant", "revoke"}, NEW h \in Cage, NEW x \in Cage,
             EditSet(t, name, h, x)
      PROVE  Apart' /\ Doubts'
  <2>1. /\ ~Busy(t) /\ \A u \in Thread : IsInherit(u) => op[u].row # h
        /\ op'[t] \in EditOps /\ op'[t].row = h /\ op'[t].cell = x
        /\ Edited(h, x) => op'[t].doubt = {x}
    BY <1>6, EditSetStep DEF BeingForked
  <2>2. IsEdit(t)' /\ ~IsInherit(t)'
    BY <2>1 DEF EditOps, IsInherit, IsEdit
  <2>3. ASSUME NEW u \in Thread, u # t
        PROVE  /\ (IsInherit(u)' <=> IsInherit(u)) /\ (IsEdit(u)' <=> IsEdit(u))
               /\ (Busy(u)' <=> Busy(u)) /\ (IsInherit(u) \/ IsEdit(u) => Busy(u))
               /\ Busy(u) => op'[u].row = op[u].row /\ op[u].doubt \subseteq op'[u].doubt
               /\ IsEdit(u) => /\ op'[u].cell = op[u].cell
                               /\ op[u].row = h /\ op[u].cell = x => x \in op'[u].doubt
               /\ IsInherit(u) => /\ op'[u].parent = op[u].parent
                                  /\ op[u].parent = h => x \in op'[u].doubt
    <3>1. op'[u] = Disturbed(u, h, x)
      BY <1>6, <2>3, EditSetStep
    <3>2. IsInherit(u) \/ IsEdit(u) => Busy(u)
      BY OpKinds
    <3> QED BY <3>1, <3>2, Disturb DEF IsInherit, IsEdit, Busy
  <2>4. Apart'
    BY <2>1, <2>2, <2>3 DEF Apart
  <2>5. ASSUME NEW u \in Thread, NEW v \in Thread, IsEdit(u)', IsEdit(v)', u # v,
               op'[u].row = op'[v].row, op'[u].cell = op'[v].cell
        PROVE  op'[u].cell \in op'[u].doubt
    <3>1. CASE u = t
      BY <2>1, <2>3, <2>5, <3>1 DEF Edited
    <3>2. CASE v = t
      BY <2>1, <2>3, <2>5, <3>2
    <3>3. CASE u # t /\ v # t
      BY <2>3, <2>5, <3>3 DEF Doubts
    <3> QED BY <3>1, <3>2, <3>3
  <2>6. ASSUME NEW u \in Thread, NEW v \in Thread, IsInherit(u)', IsEdit(v)',
               op'[v].row = op'[u].parent
        PROVE  op'[v].cell \in op'[u].doubt
    <3>1. u # t
      BY <2>2, <2>6
    <3>2. CASE v = t
      BY <2>1, <2>3, <2>6, <3>1, <3>2
    <3>3. CASE v # t
      BY <2>3, <2>6, <3>1, <3>3 DEF Doubts
    <3> QED BY <3>2, <3>3
  <2> QED BY <2>4, <2>5, <2>6 DEF Doubts
<1>7. ASSUME NEW t \in Thread, NEW e \in Edits, NEW name \in {"grant", "revoke"},
             EditSet(t, name, e[1], e[2])
      PROVE  Apart' /\ Doubts'
  BY <1>6, <1>7, GrantsOK
<1>8. ASSUME NEW t \in Thread, NEW k \in Forks, InheritRead(t, k[1], k[2]) PROVE Apart' /\ Doubts'
  BY <1>5, <1>8, GrantsOK
<1>9. ASSUME NEW f \in Flavour, NEW q \in Questions, Check(f, q[1], q[2]) PROVE op' = op
  BY <1>9 DEF Check
<1> QED BY <1>1, <1>2, <1>3, <1>4, <1>7, <1>8, <1>9 DEF Next, vars

-----------------------------------------------------------------------------
(* What operations know, and the cells nobody is writing                   *)

\* A cell is settled when no edit is on it and no inherit writes its row.
LEMMA Settles ==
  TypeOK => \A k, y \in Cage :
    Settled(k, y) <=> \A u \in Thread : /\ IsEdit(u) => op[u].row # k \/ op[u].cell # y
                                        /\ IsInherit(u) => op[u].row # k
<1> SUFFICES ASSUME TypeOK, NEW k \in Cage, NEW y \in Cage, NEW u \in Thread
             PROVE  (Busy(u) => <<k, y>> \notin Written(op[u]))
                      <=> /\ IsEdit(u) => op[u].row # k \/ op[u].cell # y
                          /\ IsInherit(u) => op[u].row # k
  BY DEF Settled
<1>1. CASE IsEdit(u)
  <2>1. Busy(u) /\ ~IsInherit(u) /\ Written(op[u]) = {<<op[u].row, op[u].cell>>}
    BY <1>1, OpKinds DEF Written, EditOps
  <2> QED BY <1>1, <2>1
<1>2. CASE IsInherit(u)
  <2>1. Busy(u) /\ ~IsEdit(u) /\ Written(op[u]) = {op[u].row} \X Cage
    BY <1>2, OpKinds DEF Written, InheritOps
  <2> QED BY <1>2, <2>1
<1> QED BY <1>1, <1>2, OpKinds

LEMMA SettlesNext ==
  TypeOK' => \A k, y \in Cage :
    Settled(k, y)' <=> \A u \in Thread : /\ IsEdit(u)' => op'[u].row # k \/ op'[u].cell # y
                                         /\ IsInherit(u)' => op'[u].row # k
<1>1. (TypeOK => \A k, y \in Cage :
         Settled(k, y) <=> \A u \in Thread : /\ IsEdit(u) => op[u].row # k \/ op[u].cell # y
                                             /\ IsInherit(u) => op[u].row # k)'
  BY Settles, PTL
<1> QED BY <1>1

\* One cell of one flavour is changed.
LEMMA CellWritten ==
  ASSUME TypeOK, NEW f \in Flavour, NEW name \in {"grant", "revoke"}, NEW h \in Cage, NEW x \in Cage,
         table' = [table EXCEPT ![f][h] = Changed(f, name, table[f][h], x)]
  PROVE  /\ x \in table'[f][h] <=> name = "grant"
         /\ \A g \in Flavour, k, y \in Cage :
              g # f \/ k # h \/ y # x => (y \in table'[g][k] <=> y \in table[g][k])
<1>1. PICK row \in SUBSET Cage : row = Changed(f, name, table[f][h], x)
  BY DEF Changed, TypeOK
<1>2. /\ x \in row <=> name = "grant"
      /\ \A y \in Cage : y # x => (y \in row <=> y \in table[f][h])
  BY <1>1 DEF Changed
<1>3. /\ table'[f][h] = row
      /\ \A k \in Cage : k # h => table'[f][k] = table[f][k]
      /\ \A g \in Flavour : g # f => table'[g] = table[g]
  BY <1>1, RowWritten
<1> QED BY <1>2, <1>3

\* What is known stays known while a thread's operation and its cells do.
LEMMA KnownCertain ==
  ASSUME TypeOK, Certain, NEW u \in Thread,
         op'[u].name = op[u].name, op'[u].row = op[u].row, op[u].doubt \subseteq op'[u].doubt,
         IsEdit(u) => op'[u].cell = op[u].cell,
         IsInherit(u) => op'[u].parent = op[u].parent /\ op'[u].at = op[u].at /\ op'[u].copy = op[u].copy,
         IsEdit(u) /\ op[u].cell \notin op'[u].doubt =>
           (op[u].cell \in table'["hash"][op[u].row] <=> op[u].cell \in table["hash"][op[u].row]),
         IsInherit(u) => \A y \in Cage \ op'[u].doubt :
           /\ y \in table'["hash"][op[u].row] <=> y \in table["hash"][op[u].row]
           /\ \A f \in Flavour : y \in table'[f][op[u].parent] <=> y \in table[f][op[u].parent]
  PROVE  /\ IsEdit(u)' /\ op'[u].cell \notin op'[u].doubt =>
              (op'[u].cell \in table'["hash"][op'[u].row] <=> op'[u].name = "grant")
         /\ IsInherit(u)' => \A y \in Cage \ op'[u].doubt : Fresh(op[u], y)'
<1>1. (IsEdit(u)' <=> IsEdit(u)) /\ (IsInherit(u)' <=> IsInherit(u))
  BY DEF IsEdit, IsInherit
<1>2. ASSUME IsEdit(u)', op'[u].cell \notin op'[u].doubt
      PROVE  op'[u].cell \in table'["hash"][op'[u].row] <=> op'[u].name = "grant"
  BY <1>1, <1>2 DEF Certain
<1>3. ASSUME IsInherit(u)', NEW y \in Cage \ op'[u].doubt PROVE Fresh(op[u], y)'
  <2>1. Fresh(op[u], y) /\ IsInherit(u)
    BY <1>1, <1>3 DEF Certain
  <2>2. /\ y \in table'["hash"][op[u].row] <=> y \in table["hash"][op[u].row]
        /\ y \in table'["hash"][op[u].parent] <=> y \in table["hash"][op[u].parent]
        /\ y \in table'["bits"][op[u].parent] <=> y \in table["bits"][op[u].parent]
    BY <1>3, <2>1 DEF Flavour
  <2> QED BY <2>1, <2>2 DEF Fresh
<1> QED BY <1>2, <1>3

-----------------------------------------------------------------------------
(* The steps, one by one                                                   *)

\* An edit begins: its cell is doubted by all who use it, and unsettled.
LEMMA EditBegins ==
  ASSUME Inv, TypeOK', NEW t \in Thread, NEW name \in {"grant", "revoke"}, NEW h \in Cage,
         NEW x \in Cage, EditSet(t, name, h, x), Doubts'
  PROVE  Certain' /\ FlavoursAgree'
<1>1. /\ ~Busy(t) /\ \A u \in Thread : IsInherit(u) => op[u].row # h
      /\ op'[t] \in EditOps /\ op'[t].name = name /\ op'[t].row = h /\ op'[t].cell = x
      /\ \A u \in Thread : u # t => op'[u] = Disturbed(u, h, x)
      /\ table' = [table EXCEPT !["hash"][h] = Changed("hash", name, table["hash"][h], x)]
  BY EditSetStep DEF Inv, BeingForked
<1>2. /\ x \in table'["hash"][h] <=> name = "grant"
      /\ \A g \in Flavour, k, y \in Cage :
           g # "hash" \/ k # h \/ y # x => (y \in table'[g][k] <=> y \in table[g][k])
  <2>1. table' = [table EXCEPT !["hash"][h] = Changed("hash", name, table["hash"][h], x)]
    BY <1>1
  <2>2. "hash" \in Flavour
    BY DEF Flavour
  <2> QED BY <2>1, <2>2, CellWritten DEF Inv
<1>3. IsEdit(t)' /\ ~IsInherit(t)' /\ clash' = clash
  BY <1>1 DEF IsEdit, IsInherit, EditOps, EditSet
<1>4. ASSUME NEW u \in Thread, u # t, Busy(u)
      PROVE  /\ op'[u].name = op[u].name /\ op'[u].row = op[u].row /\ op[u].doubt \subseteq op'[u].doubt
             /\ IsEdit(u) => /\ op'[u].cell = op[u].cell
                             /\ op[u].row = h /\ op[u].cell = x => x \in op'[u].doubt
             /\ IsInherit(u) => /\ op'[u].parent = op[u].parent /\ op'[u].at = op[u].at
                                /\ op'[u].copy = op[u].copy
                                /\ op[u].parent = h => x \in op'[u].doubt
  <2>1. op'[u] = Disturbed(u, h, x)
    BY <1>1, <1>4
  <2> QED BY <1>4, <2>1, Disturb DEF Inv
<1>5. ASSUME NEW u \in Thread, u # t, ~Busy(u) PROVE ~IsEdit(u)' /\ ~IsInherit(u)'
  <2>1. op'[u] = Idle
    BY <1>1, <1>5, Disturb DEF Inv
  <2> QED BY <2>1 DEF IsEdit, IsInherit, Idle
<1>6. ASSUME NEW u \in Thread, u # t, Busy(u)
      PROVE  /\ IsEdit(u)' /\ op'[u].cell \notin op'[u].doubt =>
                  (op'[u].cell \in table'["hash"][op'[u].row] <=> op'[u].name = "grant")
             /\ IsInherit(u)' => \A y \in Cage \ op'[u].doubt : Fresh(op[u], y)'
  <2>1. IsEdit(u) /\ op[u].cell \notin op'[u].doubt =>
          (op[u].cell \in table'["hash"][op[u].row] <=> op[u].cell \in table["hash"][op[u].row])
    <3>1. IsEdit(u) => op[u].row \in Cage /\ op[u].cell \in Cage
      BY OpKinds DEF Inv, EditOps
    <3> QED BY <1>2, <1>4, <1>6, <3>1 DEF Flavour
  <2>2. ASSUME IsInherit(u), NEW y \in Cage \ op'[u].doubt
        PROVE  /\ y \in table'["hash"][op[u].row] <=> y \in table["hash"][op[u].row]
               /\ \A f \in Flavour : y \in table'[f][op[u].parent] <=> y \in table[f][op[u].parent]
    <3>1. op[u].row \in Cage /\ op[u].parent \in Cage
      BY <2>2, OpKinds DEF Inv, InheritOps
    <3>2. op[u].row # h /\ (op[u].parent = h => y # x)
      BY <1>1, <1>4, <1>6, <2>2
    <3> QED BY <1>2, <2>2, <3>1, <3>2 DEF Flavour
  <2> QED BY <1>4, <1>6, <2>1, <2>2, KnownCertain DEF Inv
<1>7. Certain'
  <2>1. ASSUME NEW u \in Thread, IsEdit(u)', op'[u].cell \notin op'[u].doubt
        PROVE  op'[u].cell \in table'["hash"][op'[u].row] <=> op'[u].name = "grant"
    BY <1>1, <1>2, <1>5, <1>6, <2>1
  <2>2. ASSUME NEW u \in Thread, IsInherit(u)' PROVE \A y \in Cage \ op'[u].doubt : Fresh(op[u], y)'
    BY <1>3, <1>5, <1>6, <2>2
  <2> QED BY <2>1, <2>2 DEF Certain
<1>8. ASSUME NEW k \in Cage, NEW y \in Cage, Settled(k, y)', <<k, y>> \notin clash'
      PROVE  y \in table'["hash"][k] <=> y \in table'["bits"][k]
  <2>1. k # h \/ y # x
    BY <1>1, <1>3, <1>8, SettlesNext
  <2>2. Settled(k, y)
    <3>1. ASSUME NEW u \in Thread
          PROVE  /\ IsEdit(u) => op[u].row # k \/ op[u].cell # y
                 /\ IsInherit(u) => op[u].row # k
      <4>1. Busy(u) <=> IsEdit(u) \/ IsInherit(u)
        BY OpKinds DEF Inv
      <4>2. Busy(u) => /\ (IsEdit(u)' <=> IsEdit(u)) /\ (IsInherit(u)' <=> IsInherit(u))
                       /\ op'[u].row = op[u].row /\ (IsEdit(u) => op'[u].cell = op[u].cell)
        BY <1>1, <1>4 DEF IsEdit, IsInherit
      <4> QED BY <1>8, <4>1, <4>2, SettlesNext
    <3> QED BY <3>1, Settles DEF Inv
  <2>3. y \in table["hash"][k] <=> y \in table["bits"][k]
    BY <1>3, <1>8, <2>2 DEF Inv, FlavoursAgree
  <2> QED BY <1>2, <2>1, <2>3 DEF Flavour
<1> QED BY <1>7, <1>8 DEF FlavoursAgree

\* An edit ends: both flavours hold what it says, unless its cell is doubted.
LEMMA EditEnds ==
  ASSUME Inv, TypeOK', NEW t \in Thread, EditBits(t)
  PROVE  Certain' /\ FlavoursAgree'
<1>1. PICK h \in Cage, x \in Cage, name \in {"grant", "revoke"} :
        h = op[t].row /\ x = op[t].cell /\ name = op[t].name
  BY EditBitsStep DEF Inv, EditOps
<1>2. /\ IsEdit(t) /\ op'[t] = Idle /\ \A u \in Thread : u # t => op'[u] = op[u]
      /\ clash' = (clash \ {<<h, x>>}) \cup ({h} \X op[t].doubt)
      /\ table' = [table EXCEPT !["bits"][h] = Changed("bits", name, table["bits"][h], x)]
  BY <1>1, EditBitsStep DEF Inv
<1>3. /\ x \in table'["bits"][h] <=> name = "grant"
      /\ \A g \in Flavour, k, y \in Cage :
           g # "bits" \/ k # h \/ y # x => (y \in table'[g][k] <=> y \in table[g][k])
  BY <1>2, CellWritten DEF Flavour, Inv
<1>4. ~IsEdit(t)' /\ ~IsInherit(t)'
  BY <1>2 DEF IsEdit, IsInherit, Idle
<1>5. ASSUME NEW u \in Thread, u # t
      PROVE  /\ IsEdit(u)' /\ op'[u].cell \notin op'[u].doubt =>
                  (op'[u].cell \in table'["hash"][op'[u].row] <=> op'[u].name = "grant")
             /\ IsInherit(u)' => \A y \in Cage \ op'[u].doubt : Fresh(op[u], y)'
  <2>1. IsEdit(u) => (op[u].cell \in table'["hash"][op[u].row] <=> op[u].cell \in table["hash"][op[u].row])
    <3>1. IsEdit(u) => op[u].row \in Cage /\ op[u].cell \in Cage
      BY OpKinds DEF Inv, EditOps
    <3> QED BY <1>3, <3>1 DEF Flavour
  <2>2. ASSUME IsInherit(u), NEW y \in Cage \ op'[u].doubt
        PROVE  /\ y \in table'["hash"][op[u].row] <=> y \in table["hash"][op[u].row]
               /\ \A f \in Flavour : y \in table'[f][op[u].parent] <=> y \in table[f][op[u].parent]
    <3>1. op[u].row \in Cage /\ op[u].parent \in Cage
      BY <2>2, OpKinds DEF Inv, InheritOps
    <3>2. op[u].parent = h => y # x
      BY <1>1, <1>2, <1>5, <2>2 DEF Inv, Doubts
    <3> QED BY <1>3, <2>2, <3>1, <3>2 DEF Flavour
  <2> QED BY <1>2, <1>5, <2>1, <2>2, KnownCertain DEF Inv
<1>6. Certain'
  <2>1. ASSUME NEW u \in Thread, IsEdit(u)', op'[u].cell \notin op'[u].doubt
        PROVE  op'[u].cell \in table'["hash"][op'[u].row] <=> op'[u].name = "grant"
    BY <1>4, <1>5, <2>1
  <2>2. ASSUME NEW u \in Thread, IsInherit(u)' PROVE \A y \in Cage \ op'[u].doubt : Fresh(op[u], y)'
    BY <1>4, <1>5, <2>2
  <2> QED BY <2>1, <2>2 DEF Certain
<1>7. ASSUME NEW k \in Cage, NEW y \in Cage, Settled(k, y)', <<k, y>> \notin clash'
      PROVE  y \in table'["hash"][k] <=> y \in table'["bits"][k]
  <2>1. CASE k = h /\ y = x
    <3>1. op[t].cell \notin op[t].doubt
      BY <1>1, <1>2, <1>7, <2>1
    <3>2. x \in table["hash"][h] <=> name = "grant"
      BY <1>1, <1>2, <3>1 DEF Inv, Certain
    <3> QED BY <1>3, <2>1, <3>2 DEF Flavour
  <2>2. CASE ~(k = h /\ y = x)
    <3>1. Settled(k, y)
      <4>1. ASSUME NEW u \in Thread
            PROVE  /\ IsEdit(u) => op[u].row # k \/ op[u].cell # y
                   /\ IsInherit(u) => op[u].row # k
        <5>1. CASE u = t
          BY <1>1, <1>2, <2>2, <5>1, OpKinds DEF Inv
        <5>2. CASE u # t
          <6>1. (IsEdit(u)' <=> IsEdit(u)) /\ (IsInherit(u)' <=> IsInherit(u)) /\ op'[u] = op[u]
            BY <1>2, <5>2 DEF IsEdit, IsInherit
          <6> QED BY <1>7, <6>1, SettlesNext
        <5> QED BY <5>1, <5>2
      <4> QED BY <4>1, Settles DEF Inv
    <3>2. <<k, y>> \notin clash
      BY <1>2, <1>7, <2>2
    <3>3. y \in table["hash"][k] <=> y \in table["bits"][k]
      BY <3>1, <3>2 DEF Inv, FlavoursAgree
    <3> QED BY <1>3, <2>2, <3>3 DEF Flavour
  <2> QED BY <2>1, <2>2
<1> QED BY <1>6, <1>7 DEF FlavoursAgree

\* An inherit begins: the flavours agree on the parent's cells it does not doubt.
LEMMA InheritBegins ==
  ASSUME Inv, TypeOK', NEW t \in Thread, NEW p \in Cage, NEW c \in Cage, p # c, InheritRead(t, p, c)
  PROVE  Certain' /\ FlavoursAgree'
<1>1. /\ ~Busy(t) /\ \A u \in Thread : IsInherit(u) => op[u].row # p
      /\ op'[t] \in InheritOps /\ op'[t].row = c /\ op'[t].parent = p
      /\ op'[t].at = "hash_write" /\ op'[t].copy = table["hash"][p]
      /\ op'[t].doubt = {x \in Cage : <<p, x>> \in clash \/ Edited(p, x)}
      /\ \A u \in Thread : u # t => op'[u] = op[u]
      /\ UNCHANGED <<table, clash>>
  <2>1. UNCHANGED <<table, clash>>
    BY DEF InheritRead
  <2>2. \A u \in Thread : IsInherit(u) => op[u].row # p
    BY InheritReadStep DEF Inv, BeingForked
  <2> QED BY <2>1, <2>2, InheritReadStep DEF Inv
<1>2. IsInherit(t)' /\ ~IsEdit(t)' /\ ~IsInherit(t) /\ ~IsEdit(t)
  BY <1>1, OpKinds DEF Inv, IsInherit, IsEdit, InheritOps
<1>3. ASSUME NEW y \in Cage, y \notin op'[t].doubt PROVE Fresh(op[t], y)'
  <2>1. Settled(p, y)
    <3>1. \A u \in Thread : IsEdit(u) => op[u].row # p \/ op[u].cell # y
      BY <1>1, <1>3 DEF Edited
    <3> QED BY <1>1, <3>1, Settles DEF Inv
  <2>2. y \in table["hash"][p] <=> y \in table["bits"][p]
    BY <1>1, <1>3, <2>1 DEF Inv, FlavoursAgree
  <2> QED BY <1>1, <2>2 DEF Fresh
<1>4. ASSUME NEW u \in Thread, u # t
      PROVE  /\ IsEdit(u)' /\ op'[u].cell \notin op'[u].doubt =>
                  (op'[u].cell \in table'["hash"][op'[u].row] <=> op'[u].name = "grant")
             /\ IsInherit(u)' => \A y \in Cage \ op'[u].doubt : Fresh(op[u], y)'
  BY <1>1, <1>4, KnownCertain DEF Inv
<1>5. Certain'
  <2>1. ASSUME NEW u \in Thread, IsEdit(u)', op'[u].cell \notin op'[u].doubt
        PROVE  op'[u].cell \in table'["hash"][op'[u].row] <=> op'[u].name = "grant"
    BY <1>2, <1>4, <2>1
  <2>2. ASSUME NEW u \in Thread, IsInherit(u)' PROVE \A y \in Cage \ op'[u].doubt : Fresh(op[u], y)'
    BY <1>3, <1>4, <2>2
  <2> QED BY <2>1, <2>2 DEF Certain
<1>6. ASSUME NEW k \in Cage, NEW y \in Cage, Settled(k, y)', <<k, y>> \notin clash'
      PROVE  y \in table'["hash"][k] <=> y \in table'["bits"][k]
  <2>1. ASSUME NEW u \in Thread
        PROVE  /\ IsEdit(u) => op[u].row # k \/ op[u].cell # y
               /\ IsInherit(u) => op[u].row # k
    <3>1. CASE u = t
      BY <1>2, <3>1
    <3>2. CASE u # t
      <4>1. (IsEdit(u)' <=> IsEdit(u)) /\ (IsInherit(u)' <=> IsInherit(u)) /\ op'[u] = op[u]
        BY <1>1, <3>2 DEF IsEdit, IsInherit
      <4> QED BY <1>6, <4>1, SettlesNext
    <3> QED BY <3>1, <3>2
  <2>2. Settled(k, y)
    BY <2>1, Settles DEF Inv
  <2> QED BY <1>1, <1>6, <2>2 DEF Inv, FlavoursAgree
<1> QED BY <1>5, <1>6 DEF FlavoursAgree

\* An inherit goes on: its copy stays as good as the parent's row.
LEMMA InheritGoesOn ==
  ASSUME Inv, TypeOK', NEW t \in Thread, InheritWrite(t) \/ InheritReadBits(t)
  PROVE  Certain' /\ FlavoursAgree'
<1>1. PICK p \in Cage, c \in Cage : p = op[t].parent /\ c = op[t].row
  BY InheritStep DEF Inv, InheritOps
<1>2. /\ IsInherit(t) /\ ~IsEdit(t) /\ p # c
      /\ IsInherit(t)' /\ ~IsEdit(t)'
      /\ op'[t].row = c /\ op'[t].parent = p /\ op'[t].doubt = op[t].doubt
      /\ \A u \in Thread : u # t => op'[u] = op[u]
  <2>1. op[t] \in InheritOps /\ op'[t] \in InheritOps /\ IsInherit(t)
    BY InheritStep DEF Inv
  <2> QED BY <1>1, <2>1, InheritStep DEF InheritOps, IsInherit, IsEdit, Inv, Apart
<1>3. clash' = clash
  BY DEF InheritWrite, InheritReadBits
<1>4. /\ \A f \in Flavour, k \in Cage : k # c => table'[f][k] = table[f][k]
      /\ InheritWrite(t) => table'["hash"][c] = op[t].copy
      /\ InheritReadBits(t) => table' = table
  <2>1. CASE InheritWrite(t)
    <3>1. table' = [table EXCEPT !["hash"][c] = op[t].copy] /\ op[t].copy \in SUBSET Cage
      BY <1>1, <2>1, InheritStep DEF InheritWrite, CopyTo, Copied, Inv, InheritOps
    <3>2. ~InheritReadBits(t)
      BY <2>1 DEF InheritWrite, InheritReadBits
    <3>3. "hash" \in Flavour
      BY DEF Flavour
    <3> QED BY <3>1, <3>2, <3>3, RowWritten DEF Inv
  <2>2. CASE InheritReadBits(t)
    <3>1. table' = table /\ ~InheritWrite(t)
      BY <2>2 DEF InheritWrite, InheritReadBits
    <3> QED BY <3>1
  <2> QED BY <2>1, <2>2
<1>5. ASSUME NEW y \in Cage, y \notin op'[t].doubt PROVE Fresh(op[t], y)'
  <2>1. /\ y \in table["hash"][p] <=> y \in table["bits"][p]
        /\ op[t].at = "hash_write" => (y \in op[t].copy <=> y \in table["hash"][p])
        /\ op[t].at # "hash_write" => (y \in table["hash"][c] <=> y \in table["hash"][p])
    BY <1>1, <1>2, <1>5 DEF Inv, Certain, Fresh
  <2>2. table'["hash"][p] = table["hash"][p] /\ table'["bits"][p] = table["bits"][p]
    BY <1>2, <1>4 DEF Flavour
  <2>3. CASE InheritWrite(t)
    <3>1. op[t].at = "hash_write" /\ op'[t].at = "bits_read"
      BY <2>3, InheritStep DEF Inv
    <3> QED BY <1>2, <1>4, <2>1, <2>2, <2>3, <3>1 DEF Fresh
  <2>4. CASE InheritReadBits(t)
    <3>1. op[t].at = "bits_read" /\ op'[t].at = "bits_write" /\ op'[t].copy = table["bits"][p]
      BY <1>1, <2>4, InheritStep DEF Inv
    <3> QED BY <1>2, <1>4, <2>1, <2>2, <2>4, <3>1 DEF Fresh
  <2> QED BY <2>3, <2>4
<1>6. ASSUME NEW u \in Thread, u # t
      PROVE  /\ IsEdit(u)' /\ op'[u].cell \notin op'[u].doubt =>
                  (op'[u].cell \in table'["hash"][op'[u].row] <=> op'[u].name = "grant")
             /\ IsInherit(u)' => \A y \in Cage \ op'[u].doubt : Fresh(op[u], y)'
  <2>1. IsEdit(u) => table'["hash"][op[u].row] = table["hash"][op[u].row]
    <3>1. IsEdit(u) => op[u].row \in Cage /\ op[u].row # c
      BY <1>1, <1>2, <1>6, OpKinds DEF Inv, EditOps, Apart
    <3> QED BY <1>4, <3>1 DEF Flavour
  <2>2. IsInherit(u) => /\ table'["hash"][op[u].row] = table["hash"][op[u].row]
                        /\ \A f \in Flavour : table'[f][op[u].parent] = table[f][op[u].parent]
    <3>1. IsInherit(u) => /\ op[u].row \in Cage /\ op[u].row # c
                          /\ op[u].parent \in Cage /\ op[u].parent # c
      BY <1>1, <1>2, <1>6, OpKinds DEF Inv, InheritOps, Apart
    <3> QED BY <1>4, <3>1 DEF Flavour
  <2> QED BY <1>2, <1>6, <2>1, <2>2, KnownCertain DEF Inv
<1>7. Certain'
  <2>1. ASSUME NEW u \in Thread, IsEdit(u)', op'[u].cell \notin op'[u].doubt
        PROVE  op'[u].cell \in table'["hash"][op'[u].row] <=> op'[u].name = "grant"
    BY <1>2, <1>6, <2>1
  <2>2. ASSUME NEW u \in Thread, IsInherit(u)' PROVE \A y \in Cage \ op'[u].doubt : Fresh(op[u], y)'
    BY <1>5, <1>6, <2>2
  <2> QED BY <2>1, <2>2 DEF Certain
<1>8. ASSUME NEW k \in Cage, NEW y \in Cage, Settled(k, y)', <<k, y>> \notin clash'
      PROVE  y \in table'["hash"][k] <=> y \in table'["bits"][k]
  <2>1. k # c
    BY <1>2, <1>8, SettlesNext
  <2>2. ASSUME NEW u \in Thread
        PROVE  /\ IsEdit(u) => op[u].row # k \/ op[u].cell # y
               /\ IsInherit(u) => op[u].row # k
    <3>1. CASE u = t
      BY <1>1, <1>2, <2>1, <3>1
    <3>2. CASE u # t
      <4>1. (IsEdit(u)' <=> IsEdit(u)) /\ (IsInherit(u)' <=> IsInherit(u)) /\ op'[u] = op[u]
        BY <1>2, <3>2 DEF IsEdit, IsInherit
      <4> QED BY <1>8, <4>1, SettlesNext
    <3> QED BY <3>1, <3>2
  <2>3. Settled(k, y)
    BY <2>2, Settles DEF Inv
  <2>4. y \in table["hash"][k] <=> y \in table["bits"][k]
    BY <1>3, <1>8, <2>3 DEF Inv, FlavoursAgree
  <2> QED BY <1>4, <2>1, <2>4 DEF Flavour
<1> QED BY <1>7, <1>8 DEF FlavoursAgree

\* An inherit ends: the child's flavours agree where the parent's did.
LEMMA InheritEnds ==
  ASSUME Inv, TypeOK', NEW t \in Thread, InheritWriteBits(t)
  PROVE  Certain' /\ FlavoursAgree'
<1>1. PICK p \in Cage, c \in Cage : p = op[t].parent /\ c = op[t].row
  BY InheritDone DEF Inv, InheritOps
<1>2. /\ IsInherit(t) /\ op[t].at = "bits_write" /\ op[t].copy \in SUBSET Cage /\ op'[t] = Idle
      /\ \A u \in Thread : u # t => op'[u] = op[u]
      /\ clash' = (clash \ ({c} \X Cage)) \cup ({c} \X op[t].doubt)
      /\ table' = [table EXCEPT !["bits"][c] = op[t].copy]
  BY <1>1, InheritDone DEF Inv, InheritOps
<1>3. p # c /\ ~IsEdit(t) /\ ~IsEdit(t)' /\ ~IsInherit(t)'
  BY <1>1, <1>2, OpKinds DEF Inv, Apart, IsEdit, IsInherit, Idle
<1>4. /\ table'["bits"][c] = op[t].copy /\ table'["hash"] = table["hash"]
      /\ \A f \in Flavour, k \in Cage : k # c => table'[f][k] = table[f][k]
  BY <1>2, RowWritten DEF Flavour, Inv
<1>5. ASSUME NEW u \in Thread, u # t
      PROVE  /\ IsEdit(u)' /\ op'[u].cell \notin op'[u].doubt =>
                  (op'[u].cell \in table'["hash"][op'[u].row] <=> op'[u].name = "grant")
             /\ IsInherit(u)' => \A y \in Cage \ op'[u].doubt : Fresh(op[u], y)'
  <2>1. IsInherit(u) => \A f \in Flavour : table'[f][op[u].parent] = table[f][op[u].parent]
    <3>1. IsInherit(u) => op[u].parent \in Cage /\ op[u].parent # c
      BY <1>1, <1>2, <1>5, OpKinds DEF Inv, InheritOps, Apart
    <3> QED BY <1>4, <3>1
  <2> QED BY <1>2, <1>4, <1>5, <2>1, KnownCertain DEF Inv
<1>6. Certain'
  <2>1. ASSUME NEW u \in Thread, IsEdit(u)', op'[u].cell \notin op'[u].doubt
        PROVE  op'[u].cell \in table'["hash"][op'[u].row] <=> op'[u].name = "grant"
    BY <1>3, <1>5, <2>1
  <2>2. ASSUME NEW u \in Thread, IsInherit(u)' PROVE \A y \in Cage \ op'[u].doubt : Fresh(op[u], y)'
    BY <1>3, <1>5, <2>2
  <2> QED BY <2>1, <2>2 DEF Certain
<1>7. ASSUME NEW k \in Cage, NEW y \in Cage, Settled(k, y)', <<k, y>> \notin clash'
      PROVE  y \in table'["hash"][k] <=> y \in table'["bits"][k]
  <2>1. CASE k = c
    <3>1. y \notin op[t].doubt
      BY <1>2, <1>7, <2>1
    <3>2. Fresh(op[t], y)
      BY <1>2, <3>1 DEF Inv, Certain
    <3> QED BY <1>1, <1>2, <1>4, <2>1, <3>2 DEF Fresh
  <2>2. CASE k # c
    <3>1. ASSUME NEW u \in Thread
          PROVE  /\ IsEdit(u) => op[u].row # k \/ op[u].cell # y
                 /\ IsInherit(u) => op[u].row # k
      <4>1. CASE u = t
        BY <1>1, <1>3, <2>2, <4>1
      <4>2. CASE u # t
        <5>1. (IsEdit(u)' <=> IsEdit(u)) /\ (IsInherit(u)' <=> IsInherit(u)) /\ op'[u] = op[u]
          BY <1>2, <4>2 DEF IsEdit, IsInherit
        <5> QED BY <1>7, <5>1, SettlesNext
      <4> QED BY <4>1, <4>2
    <3>2. Settled(k, y)
      BY <3>1, Settles DEF Inv
    <3>3. <<k, y>> \notin clash
      BY <1>2, <1>7, <2>2
    <3>4. y \in table["hash"][k] <=> y \in table["bits"][k]
      BY <3>2, <3>3 DEF Inv, FlavoursAgree
    <3> QED BY <1>4, <2>2, <3>4 DEF Flavour
  <2> QED BY <2>1, <2>2
<1> QED BY <1>6, <1>7 DEF FlavoursAgree

\* A check changes nothing that matters here.
LEMMA NothingChanged ==
  ASSUME Inv, TypeOK', UNCHANGED <<table, op, clash>>
  PROVE  Certain' /\ FlavoursAgree'
<1>1. Certain'
  BY DEF Inv, Certain, Fresh, IsEdit, IsInherit
<1>2. FlavoursAgree'
  BY DEF Inv, FlavoursAgree, Settled, Busy
<1> QED BY <1>1, <1>2

-----------------------------------------------------------------------------
(* The invariant                                                           *)

LEMMA InvInit == Init => Inv
<1> SUFFICES ASSUME Init PROVE Inv
  OBVIOUS
<1>1. TypeOK
  BY DEF Init, TypeOK, Flavour, Idle, Unasked
<1>2. \A t \in Thread : op[t] = Idle /\ ~IsEdit(t) /\ ~IsInherit(t)
  BY DEF Init, IsEdit, IsInherit, Idle
<1>3. FlavoursAgree
  BY DEF Init, FlavoursAgree, Flavour
<1> QED BY <1>1, <1>2, <1>3 DEF Inv, Apart, Doubts, Certain

LEMMA InvNext == Inv /\ [Next]_vars => Inv'
<1> SUFFICES ASSUME Inv, [Next]_vars PROVE Inv'
  OBVIOUS
<1>1. TypeOK' /\ Apart' /\ Doubts'
  BY NextType, NextApart DEF Inv
<1>2. CASE UNCHANGED vars
  BY <1>1, <1>2, NothingChanged DEF vars, Inv
<1>3. ASSUME NEW t \in Thread, NEW e \in Edits, NEW name \in {"grant", "revoke"},
             EditSet(t, name, e[1], e[2])
      PROVE  Inv'
  <2>1. PICK h \in Cage, x \in Cage : h = e[1] /\ x = e[2]
    BY GrantsOK
  <2>2. EditSet(t, name, h, x)
    BY <1>3, <2>1
  <2> QED BY <1>1, <2>2, EditBegins DEF Inv
<1>4. ASSUME NEW t \in Thread, EditBits(t) PROVE Inv'
  BY <1>1, <1>4, EditEnds DEF Inv
<1>5. ASSUME NEW t \in Thread, NEW k \in Forks, InheritRead(t, k[1], k[2]) PROVE Inv'
  <2>1. PICK p \in Cage, c \in Cage : p = k[1] /\ c = k[2] /\ p # c
    BY GrantsOK
  <2>2. InheritRead(t, p, c)
    BY <1>5, <2>1
  <2> QED BY <1>1, <2>1, <2>2, InheritBegins DEF Inv
<1>6. ASSUME NEW t \in Thread, InheritWrite(t) \/ InheritReadBits(t) PROVE Inv'
  BY <1>1, <1>6, InheritGoesOn DEF Inv
<1>7. ASSUME NEW t \in Thread, InheritWriteBits(t) PROVE Inv'
  BY <1>1, <1>7, InheritEnds DEF Inv
<1>8. ASSUME NEW f \in Flavour, NEW q \in Questions, Check(f, q[1], q[2]) PROVE Inv'
  <2>1. UNCHANGED <<table, op, clash>>
    BY <1>8 DEF Check
  <2> QED BY <1>1, <2>1, NothingChanged DEF Inv
<1> QED BY <1>2, <1>3, <1>4, <1>5, <1>6, <1>7, <1>8 DEF Next

LEMMA Invariant == Spec => []Inv
  BY InvInit, InvNext, PTL DEF Spec

\* Both tables, every operation in progress and every answer have their types,
\* whatever the interleaving of grant, revoke, inherit and the checks.
THEOREM TypeTheorem == Spec => []TypeOK
<1>1. Inv => TypeOK
  BY DEF Inv
<1> QED BY <1>1, Invariant, PTL

\* The two flavours answer alike about every settled cell that no operations
\* overlapped on, for any number of threads and cages.
THEOREM AgreeTheorem == Spec => []FlavoursAgree
<1>1. Inv => FlavoursAgree
  BY DEF Inv
<1> QED BY <1>1, Invariant, PTL

\* An edit that no other operation overlapped on its cell has taken effect in
\* both flavours when it returns, whatever else happens to the row meanwhile.
THEOREM EditsTheorem == Spec => EditsTake
<1>1. ASSUME Inv, [Next]_vars, NEW t \in Thread, IsEdit(t), op'[t] = Idle, op[t].doubt = {},
             NEW f \in Flavour
      PROVE  op[t].cell \in table'[f][op[t].row] <=> op[t].name = "grant"
  <2>1. op[t] # Idle /\ Busy(t)
    BY <1>1 DEF IsEdit, Idle, Busy
  <2>2. CASE EditBits(t)
    <3>1. PICK h \in Cage, x \in Cage, name \in {"grant", "revoke"} :
            h = op[t].row /\ x = op[t].cell /\ name = op[t].name
      BY <1>1, <2>2, EditBitsStep DEF Inv, EditOps
    <3>2. table' = [table EXCEPT !["bits"][h] = Changed("bits", name, table["bits"][h], x)]
      BY <1>1, <2>2, <3>1, EditBitsStep DEF Inv
    <3>3. /\ x \in table'["bits"][h] <=> name = "grant"
          /\ x \in table'["hash"][h] <=> x \in table["hash"][h]
      BY <1>1, <3>2, CellWritten DEF Flavour, Inv
    <3>4. x \in table["hash"][h] <=> name = "grant"
      BY <1>1, <3>1 DEF Inv, Certain
    <3> QED BY <1>1, <3>1, <3>3, <3>4 DEF Flavour
  <2>3. ASSUME NEW u \in Thread, EditBits(u), u # t PROVE FALSE
    BY <1>1, <2>1, <2>3, EditBitsStep DEF Inv
  <2>4. ASSUME NEW u \in Thread, NEW e \in Edits, NEW name \in {"grant", "revoke"},
               EditSet(u, name, e[1], e[2])
        PROVE  FALSE
    <3>1. PICK h \in Cage, x \in Cage : h = e[1] /\ x = e[2]
      BY GrantsOK
    <3>2. EditSet(u, name, h, x) /\ TypeOK
      BY <1>1, <2>4, <3>1 DEF Inv
    <3>3. u # t /\ op'[t] = Disturbed(t, h, x)
      BY <2>1, <3>2, EditSetStep
    <3> QED BY <1>1, <2>1, <3>2, <3>3, Disturb
  <2>5. ASSUME NEW u \in Thread, NEW k \in Forks, InheritRead(u, k[1], k[2]) PROVE FALSE
    <3>1. PICK p \in Cage, c \in Cage : p = k[1] /\ c = k[2]
      BY GrantsOK
    <3>2. InheritRead(u, p, c) /\ TypeOK
      BY <1>1, <2>5, <3>1 DEF Inv
    <3> QED BY <1>1, <2>1, <3>2, InheritReadStep
  <2>6. ASSUME NEW u \in Thread, InheritWrite(u) \/ InheritReadBits(u) PROVE FALSE
    <3>1. IsInherit(u) /\ \A v \in Thread : v # u => op'[v] = op[v]
      BY <1>1, <2>6, InheritStep DEF Inv
    <3> QED BY <1>1, <2>1, <3>1, OpKinds DEF Inv
  <2>7. ASSUME NEW u \in Thread, InheritWriteBits(u) PROVE FALSE
    <3>1. IsInherit(u) /\ \A v \in Thread : v # u => op'[v] = op[v]
      BY <1>1, <2>7, InheritDone DEF Inv
    <3> QED BY <1>1, <2>1, <3>1, OpKinds DEF Inv
  <2>8. op' # op
    BY <1>1, <2>1
  <2>9. CASE \E g \in Flavour, q \in Questions : Check(g, q[1], q[2])
    BY <2>8, <2>9 DEF Check
  <2> QED BY <1>1, <2>2, <2>3, <2>4, <2>5, <2>6, <2>7, <2>8, <2>9 DEF Next, vars
<1>2. Inv /\ [Next]_vars =>
        [\A t \in Thread :
           IsEdit(t) /\ op'[t] = Idle /\ op[t].doubt = {} =>
             \A f \in Flavour :
               op[t].cell \in table'[f][op[t].row] <=> op[t].name = "grant"]_vars
  BY <1>1
<1> QED BY <1>2, Invariant, PTL DEF Spec, EditsTake

-----------------------------------------------------------------------------
(* Each flavour is an atomic relation                                      *)

\* The relation: the copy an inherit is about to write, or the table.
LEMMA MayIs ==
  Inv => /\ May = [f \in Flavour |-> [c \in Cage |-> May[f][c]]]
         /\ \A f \in Flavour, c \in Cage :
              /\ \A t \in Thread : IsInherit(t) /\ op[t].row = c /\ op[t].at = WriteOf(f) =>
                                     May[f][c] = op[t].copy
              /\ (\A t \in Thread : ~(IsInherit(t) /\ op[t].row = c /\ op[t].at = WriteOf(f))) =>
                   May[f][c] = table[f][c]
<1> SUFFICES ASSUME Inv
             PROVE  \A f \in Flavour, c \in Cage :
               /\ \A t \in Thread : IsInherit(t) /\ op[t].row = c /\ op[t].at = WriteOf(f) =>
                                      May[f][c] = op[t].copy
               /\ (\A t \in Thread : ~(IsInherit(t) /\ op[t].row = c /\ op[t].at = WriteOf(f))) =>
                    May[f][c] = table[f][c]
  <2> DEFINE row(f) == [c \in Cage |->
                          IF \E t \in Thread : IsInherit(t) /\ op[t].row = c /\ op[t].at = WriteOf(f)
                            THEN op[CHOOSE t \in Thread : IsInherit(t) /\ op[t].row = c].copy
                            ELSE table[f][c]]
  <2>1. \A f : row(f) = [c \in Cage |-> row(f)[c]]
    OBVIOUS
  <2>2. May = [f \in Flavour |-> row(f)]
    BY DEF May
  <2> HIDE DEF row
  <2>3. \A f \in Flavour : May[f] = row(f)
    BY <2>2
  <2>4. [f \in Flavour |-> row(f)] = [f \in Flavour |-> [c \in Cage |-> May[f][c]]]
    BY <2>1, <2>3
  <2> QED BY <2>2, <2>4
<1>1. ASSUME NEW f \in Flavour, NEW c \in Cage, NEW t \in Thread,
             IsInherit(t), op[t].row = c, op[t].at = WriteOf(f)
      PROVE  May[f][c] = op[t].copy
  <2> DEFINE w == CHOOSE u \in Thread : IsInherit(u) /\ op[u].row = c
  <2>1. w \in Thread /\ IsInherit(w) /\ op[w].row = c
    BY <1>1
  <2>2. May[f][c] = op[w].copy
    BY <1>1 DEF May
  <2> HIDE DEF w
  <2>3. w = t
    BY <1>1, <2>1, OpKinds DEF Inv, Apart
  <2> QED BY <2>2, <2>3
<1>2. ASSUME NEW f \in Flavour, NEW c \in Cage,
             \A t \in Thread : ~(IsInherit(t) /\ op[t].row = c /\ op[t].at = WriteOf(f))
      PROVE  May[f][c] = table[f][c]
  BY <1>2 DEF May
<1> QED BY <1>1, <1>2

LEMMA MayNext ==
  Inv' => /\ May' = [f \in Flavour |-> [c \in Cage |-> May'[f][c]]]
          /\ \A f \in Flavour, c \in Cage :
              /\ \A t \in Thread : IsInherit(t)' /\ op'[t].row = c /\ op'[t].at = WriteOf(f) =>
                                     May'[f][c] = op'[t].copy
              /\ (\A t \in Thread : ~(IsInherit(t)' /\ op'[t].row = c /\ op'[t].at = WriteOf(f))) =>
                   May'[f][c] = table'[f][c]
<1>1. (Inv => /\ May = [f \in Flavour |-> [c \in Cage |-> May[f][c]]]
              /\ \A f \in Flavour, c \in Cage :
                   /\ \A t \in Thread : IsInherit(t) /\ op[t].row = c /\ op[t].at = WriteOf(f) =>
                                          May[f][c] = op[t].copy
                   /\ (\A t \in Thread : ~(IsInherit(t) /\ op[t].row = c /\ op[t].at = WriteOf(f))) =>
                        May[f][c] = table[f][c])'
  BY MayIs, PTL
<1> QED BY <1>1

\* The relation of a flavour stays as it is where its row does, and the
\* operations that are about to write the row.
LEMMA MayKept ==
  ASSUME Inv, Inv', NEW f \in Flavour, NEW c \in Cage, table'[f][c] = table[f][c],
         \A u \in Thread :
           /\ IsInherit(u)' /\ op'[u].row = c /\ op'[u].at = WriteOf(f)
                <=> IsInherit(u) /\ op[u].row = c /\ op[u].at = WriteOf(f)
           /\ IsInherit(u) /\ op[u].row = c /\ op[u].at = WriteOf(f) => op'[u].copy = op[u].copy
  PROVE  May'[f][c] = May[f][c]
<1>1. CASE \A u \in Thread : ~(IsInherit(u) /\ op[u].row = c /\ op[u].at = WriteOf(f))
  <2>1. \A u \in Thread : ~(IsInherit(u)' /\ op'[u].row = c /\ op'[u].at = WriteOf(f))
    BY <1>1
  <2>2. May[f][c] = table[f][c]
    BY <1>1, MayIs
  <2>3. May'[f][c] = table'[f][c]
    BY <2>1, MayNext
  <2> QED BY <2>2, <2>3
<1>2. ASSUME NEW u \in Thread, IsInherit(u), op[u].row = c, op[u].at = WriteOf(f)
      PROVE  May'[f][c] = May[f][c]
  <2>1. IsInherit(u)' /\ op'[u].row = c /\ op'[u].at = WriteOf(f) /\ op'[u].copy = op[u].copy
    BY <1>2
  <2>2. May[f][c] = op[u].copy
    BY <1>2, MayIs
  <2>3. May'[f][c] = op'[u].copy
    BY <2>1, MayNext
  <2> QED BY <2>1, <2>2, <2>3
<1> QED BY <1>1, <1>2

\* A row no inherit writes is what the table holds.
LEMMA MayTable ==
  ASSUME Inv, NEW f \in Flavour, NEW h \in Cage, \A u \in Thread : IsInherit(u) => op[u].row # h
  PROVE  May[f][h] = table[f][h]
  BY MayIs

\* May as the relation changes it: in one row, or not at all.
LEMMA MayRow ==
  ASSUME Inv, Inv', NEW f \in Flavour, NEW h \in Cage, NEW row, May'[f][h] = row,
         \A c \in Cage : c # h => May'[f][c] = May[f][c]
  PROVE  May'[f] = [May[f] EXCEPT ![h] = row]
<1>1. May[f] = [c \in Cage |-> May[f][c]]
  BY MayIs
<1>2. May'[f] = [c \in Cage |-> May'[f][c]]
  BY MayNext
<1> QED BY <1>1, <1>2

LEMMA MaySame ==
  ASSUME Inv, Inv', NEW f \in Flavour, \A c \in Cage : May'[f][c] = May[f][c]
  PROVE  May'[f] = May[f]
<1>1. May[f] = [c \in Cage |-> May[f][c]]
  BY MayIs
<1>2. May'[f] = [c \in Cage |-> May'[f][c]]
  BY MayNext
<1> QED BY <1>1, <1>2

\* The first half of an edit changes the relation of the hash sets.
LEMMA EditSetMoves ==
  ASSUME Inv, Inv', NEW t \in Thread, NEW name \in {"grant", "revoke"}, NEW h \in Cage, NEW x \in Cage,
         EditSet(t, name, h, x)
  PROVE  /\ May'["bits"] = May["bits"]
         /\ May'["hash"] = [May["hash"] EXCEPT ![h] = Changed("hash", name, May["hash"][h], x)]
<1>1. /\ ~Busy(t) /\ \A u \in Thread : IsInherit(u) => op[u].row # h
      /\ op'[t] \in EditOps
      /\ \A u \in Thread : u # t => op'[u] = Disturbed(u, h, x)
  BY EditSetStep DEF Inv, BeingForked
<1>2. PICK row \in SUBSET Cage :
        row = Changed("hash", name, table["hash"][h], x) /\ table' = [table EXCEPT !["hash"][h] = row]
  BY EditSetStep DEF Inv
<1>3. /\ table'["hash"][h] = row /\ table'["bits"] = table["bits"]
      /\ \A c \in Cage : c # h => table'["hash"][c] = table["hash"][c]
  BY <1>2, RowWritten DEF Flavour, Inv
<1>4. ASSUME NEW u \in Thread
      PROVE  /\ IsInherit(u)' <=> IsInherit(u)
             /\ IsInherit(u) => op'[u].row = op[u].row /\ op'[u].at = op[u].at /\ op'[u].copy = op[u].copy
  <2>1. CASE u = t
    BY <1>1, <2>1, OpKinds DEF Inv, IsInherit, EditOps
  <2>2. CASE u # t
    <3>1. op'[u] = Disturbed(u, h, x)
      BY <1>1, <2>2
    <3>2. IsInherit(u) => Busy(u)
      BY OpKinds DEF Inv
    <3> QED BY <3>1, <3>2, Disturb DEF Inv, IsInherit
  <2> QED BY <2>1, <2>2
<1>5. \A f \in Flavour, c \in Cage : table'[f][c] = table[f][c] => May'[f][c] = May[f][c]
  BY <1>4, MayKept
<1>6. May'["bits"] = May["bits"]
  BY <1>3, <1>5, MaySame DEF Flavour
<1>7. May'["hash"][h] = row
  BY <1>1, <1>3, <1>4, MayNext DEF Flavour
<1>8. May["hash"][h] = table["hash"][h]
  BY <1>1, MayTable DEF Flavour
<1>9. May'["hash"] = [May["hash"] EXCEPT ![h] = row]
  BY <1>3, <1>5, <1>7, MayRow DEF Flavour
<1> QED BY <1>2, <1>6, <1>8, <1>9

\* The second half changes that of the bitsets.
LEMMA EditBitsMoves ==
  ASSUME Inv, Inv', NEW t \in Thread, EditBits(t)
  PROVE  /\ May'["hash"] = May["hash"]
         /\ \E h \in Cage, x \in Cage, name \in {"grant", "revoke"} :
              May'["bits"] = [May["bits"] EXCEPT ![h] = Changed("bits", name, May["bits"][h], x)]
<1>1. PICK h \in Cage, x \in Cage, name \in {"grant", "revoke"} :
        h = op[t].row /\ x = op[t].cell /\ name = op[t].name
  BY EditBitsStep DEF Inv, EditOps
<1>2. PICK row \in SUBSET Cage :
        row = Changed("bits", name, table["bits"][h], x) /\ table' = [table EXCEPT !["bits"][h] = row]
  BY <1>1, EditBitsStep DEF Inv
<1>3. /\ table'["bits"][h] = row /\ table'["hash"] = table["hash"]
      /\ \A c \in Cage : c # h => table'["bits"][c] = table["bits"][c]
  BY <1>2, RowWritten DEF Flavour, Inv
<1>4. IsEdit(t) /\ op'[t] = Idle /\ \A u \in Thread : u # t => op'[u] = op[u]
  BY EditBitsStep DEF Inv
<1>5. ~IsInherit(t) /\ ~IsInherit(t)' /\ Busy(t)
  BY <1>4, OpKinds DEF Inv, IsInherit, Idle
<1>6. \A u \in Thread : /\ IsInherit(u)' <=> IsInherit(u)
                        /\ IsInherit(u) => op'[u] = op[u]
  BY <1>4, <1>5 DEF IsInherit
<1>7. \A f \in Flavour, c \in Cage : table'[f][c] = table[f][c] => May'[f][c] = May[f][c]
  BY <1>6, MayKept
<1>8. May'["hash"] = May["hash"]
  BY <1>3, <1>7, MaySame DEF Flavour
<1>9. \A u \in Thread : IsInherit(u) => op[u].row # h
  BY <1>1, <1>5 DEF Inv, Apart
<1>10. May'["bits"][h] = row
  BY <1>3, <1>6, <1>9, MayNext DEF Flavour
<1>11. May["bits"][h] = table["bits"][h]
  BY <1>9, MayTable DEF Flavour
<1>12. May'["bits"] = [May["bits"] EXCEPT ![h] = row]
  BY <1>3, <1>7, <1>10, MayRow DEF Flavour
<1> QED BY <1>2, <1>8, <1>11, <1>12

\* An inherit changes the relation of the hash sets when it reads them.
LEMMA InheritReadMoves ==
  ASSUME Inv, Inv', NEW t \in Thread, NEW p \in Cage, NEW c \in Cage, InheritRead(t, p, c)
  PROVE  /\ May'["bits"] = May["bits"]
         /\ May'["hash"] = [May["hash"] EXCEPT ![c] = May["hash"][p]]
<1>1. /\ op'[t] \in InheritOps /\ op'[t].row = c
      /\ op'[t].at = "hash_write" /\ op'[t].copy = table["hash"][p]
      /\ \A u \in Thread : u # t => op'[u] = op[u]
  BY InheritReadStep DEF Inv
<1>2. ~IsInherit(t) /\ IsInherit(t)' /\ table' = table
  BY <1>1, OpKinds DEF Inv, IsInherit, InheritOps, InheritRead
<1>3. \A u \in Thread : IsInherit(u) => op[u].row # p
  BY DEF InheritRead, BeingForked
<1>4. \A u \in Thread : u # t => (IsInherit(u)' <=> IsInherit(u))
  BY <1>1 DEF IsInherit
<1>5. \A k \in Cage : May'["bits"][k] = May["bits"][k]
  <2> SUFFICES ASSUME NEW k \in Cage PROVE May'["bits"][k] = May["bits"][k]
    OBVIOUS
  <2>1. op'[t].at # WriteOf("bits")
    BY <1>1 DEF WriteOf
  <2> QED BY <1>1, <1>2, <1>4, <2>1, MayKept DEF Flavour
<1>6. \A k \in Cage : k # c => May'["hash"][k] = May["hash"][k]
  BY <1>1, <1>2, <1>4, MayKept DEF Flavour
<1>7. May'["hash"][c] = table["hash"][p]
  <2>1. op'[t].at = WriteOf("hash")
    BY <1>1 DEF WriteOf
  <2> QED BY <1>1, <1>2, <2>1, MayNext DEF Flavour
<1>8. May["hash"][p] = table["hash"][p]
  BY <1>3, MayTable DEF Flavour
<1>9. May'["hash"] = [May["hash"] EXCEPT ![c] = table["hash"][p]]
  BY <1>6, <1>7, MayRow DEF Flavour
<1> QED BY <1>5, <1>8, <1>9, MaySame DEF Flavour

\* ... and that of the bitsets when it reads those.
LEMMA InheritReadBitsMoves ==
  ASSUME Inv, Inv', NEW t \in Thread, InheritReadBits(t)
  PROVE  /\ May'["hash"] = May["hash"]
         /\ \E p, c \in Cage : May'["bits"] = [May["bits"] EXCEPT ![c] = May["bits"][p]]
<1>1. PICK p \in Cage, c \in Cage : p = op[t].parent /\ c = op[t].row
  BY InheritStep DEF Inv, InheritOps
<1>2. /\ IsInherit(t) /\ op[t].at = "bits_read" /\ op'[t] \in InheritOps /\ op'[t].row = c
      /\ op'[t].at = "bits_write" /\ op'[t].copy = table["bits"][p]
      /\ \A u \in Thread : u # t => op'[u] = op[u]
  BY <1>1, InheritStep DEF Inv
<1>3. IsInherit(t)' /\ table' = table /\ Busy(t)
  BY <1>2, OpKinds DEF Inv, IsInherit, InheritOps, InheritReadBits
<1>4. \A u \in Thread : u # t => (IsInherit(u)' <=> IsInherit(u))
  BY <1>2 DEF IsInherit
<1>5. \A u \in Thread : IsInherit(u) => op[u].row # p
  BY <1>1, <1>2, <1>3 DEF Inv, Apart
<1>6. \A k \in Cage : May'["hash"][k] = May["hash"][k]
  <2>1. op'[t].at # WriteOf("hash") /\ op[t].at # WriteOf("hash")
    BY <1>2 DEF WriteOf
  <2> QED BY <1>2, <1>3, <1>4, <2>1, MayKept DEF Flavour
<1>7. \A k \in Cage : k # c => May'["bits"][k] = May["bits"][k]
  BY <1>1, <1>2, <1>3, <1>4, MayKept DEF Flavour
<1>8. May'["bits"][c] = table["bits"][p]
  <2>1. op'[t].at = WriteOf("bits")
    BY <1>2 DEF WriteOf
  <2> QED BY <1>2, <1>3, <2>1, MayNext DEF Flavour
<1>9. May["bits"][p] = table["bits"][p]
  BY <1>5, MayTable DEF Flavour
<1>10. May'["bits"] = [May["bits"] EXCEPT ![c] = table["bits"][p]]
  BY <1>7, <1>8, MayRow DEF Flavour
<1> QED BY <1>6, <1>9, <1>10, MaySame DEF Flavour

\* Its writes change neither.
LEMMA InheritWritesMove ==
  ASSUME Inv, Inv', NEW t \in Thread, InheritWrite(t) \/ InheritWriteBits(t)
  PROVE  May'["hash"] = May["hash"] /\ May'["bits"] = May["bits"]
<1>1. PICK g \in Flavour : /\ (InheritWrite(t) /\ g = "hash") \/ (InheritWriteBits(t) /\ g = "bits")
                           /\ op[t].at = WriteOf(g)
  <2>1. CASE InheritWrite(t)
    <3>1. op[t].at = WriteOf("hash")
      BY <2>1 DEF InheritWrite, WriteOf
    <3> QED BY <2>1, <3>1 DEF Flavour
  <2>2. CASE InheritWriteBits(t)
    <3>1. op[t].at = WriteOf("bits")
      BY <2>2 DEF InheritWriteBits, WriteOf
    <3> QED BY <2>2, <3>1 DEF Flavour
  <2> QED BY <2>1, <2>2
<1>2. PICK c \in Cage, copy \in SUBSET Cage : c = op[t].row /\ copy = op[t].copy
  BY InheritStep, InheritDone DEF Inv, InheritOps
<1>3. /\ IsInherit(t) /\ table' = [table EXCEPT ![g][c] = copy]
      /\ \A u \in Thread : u # t => op'[u] = op[u]
  BY <1>1, <1>2, InheritStep, InheritDone DEF Inv, InheritWrite, CopyTo, Copied
<1>4. /\ table'[g][c] = copy
      /\ \A f \in Flavour, k \in Cage : f # g \/ k # c => table'[f][k] = table[f][k]
  BY <1>3, RowWritten DEF Inv
<1>5. \A u \in Thread : u # t => (IsInherit(u)' <=> IsInherit(u)) /\ (IsInherit(u) => op[u].row # c)
  <2>1. \A u \in Thread : u # t => (IsInherit(u)' <=> IsInherit(u)) /\ (IsInherit(u) => Busy(u))
    BY <1>3, OpKinds DEF IsInherit, Inv
  <2> QED BY <1>2, <1>3, <2>1 DEF Inv, Apart
<1>6. \A f \in Flavour : ~(IsInherit(t)' /\ op'[t].at = WriteOf(f))
  <2>1. CASE InheritWrite(t)
    <3>1. op'[t].at = "bits_read"
      BY <2>1, InheritStep DEF Inv
    <3> QED BY <3>1 DEF WriteOf
  <2>2. CASE InheritWriteBits(t)
    <3>1. op'[t] = Idle
      BY <2>2, InheritDone DEF Inv
    <3> QED BY <3>1 DEF IsInherit, Idle
  <2> QED BY <2>1, <2>2
<1>7. May[g][c] = copy
  BY <1>1, <1>2, <1>3, MayIs
<1>8. May'[g][c] = copy
  BY <1>3, <1>4, <1>5, <1>6, MayNext
<1>9. ASSUME NEW f \in Flavour, NEW k \in Cage, f # g \/ k # c PROVE May'[f][k] = May[f][k]
  <2>1. ASSUME NEW u \in Thread
        PROVE  /\ IsInherit(u)' /\ op'[u].row = k /\ op'[u].at = WriteOf(f)
                    <=> IsInherit(u) /\ op[u].row = k /\ op[u].at = WriteOf(f)
               /\ IsInherit(u) /\ op[u].row = k /\ op[u].at = WriteOf(f) => op'[u].copy = op[u].copy
    <3>1. CASE u = t
      <4>1. ~(op[t].row = k /\ op[t].at = WriteOf(f))
        BY <1>1, <1>2, <1>9 DEF WriteOf, Flavour
      <4> QED BY <1>6, <3>1, <4>1
    <3>2. CASE u # t
      BY <1>3, <1>5, <3>2
    <3> QED BY <3>1, <3>2
  <2> QED BY <1>4, <1>9, <2>1, MayKept
<1>10. \A f \in Flavour, k \in Cage : May'[f][k] = May[f][k]
  BY <1>7, <1>8, <1>9
<1> QED BY <1>10, MaySame DEF Flavour

LEMMA NextSets == Inv /\ Inv' /\ [Next]_vars => [Sets!Next]_(Sets!vars)
<1> SUFFICES ASSUME Inv, Inv', [Next]_vars PROVE Sets!Next \/ UNCHANGED Sets!vars
  OBVIOUS
<1>1. May'["hash"] = May["hash"] /\ said'["hash"] = said["hash"] => UNCHANGED Sets!vars
  BY DEF Sets!vars
<1>2. CASE UNCHANGED vars
  <2>1. UNCHANGED May
    BY <1>2 DEF vars, May, IsInherit
  <2> QED BY <1>1, <1>2, <2>1 DEF vars
<1>3. ASSUME NEW t \in Thread, NEW e \in Edits, NEW name \in {"grant", "revoke"},
             EditSet(t, name, e[1], e[2])
      PROVE  Sets!Next
  <2>1. PICK h \in Cage, x \in Cage : h = e[1] /\ x = e[2]
    BY GrantsOK
  <2>2. EditSet(t, name, h, x)
    BY <1>3, <2>1
  <2>3. May'["hash"] = [May["hash"] EXCEPT ![h] = Changed("hash", name, May["hash"][h], x)]
    BY <2>2, EditSetMoves
  <2>4. said' = said
    BY <2>2 DEF EditSet
  <2>5. Sets!Grant(h, x) \/ Sets!Revoke(h, x)
    BY <2>3, <2>4 DEF Changed, Sets!Grant, Sets!Revoke
  <2> QED BY <2>5 DEF Sets!Next
<1>4. ASSUME NEW t \in Thread, EditBits(t) PROVE UNCHANGED Sets!vars
  <2>1. said' = said
    BY <1>4 DEF EditBits
  <2> QED BY <1>1, <1>4, <2>1, EditBitsMoves
<1>5. ASSUME NEW t \in Thread, NEW k \in Forks, InheritRead(t, k[1], k[2]) PROVE Sets!Next
  <2>1. PICK p \in Cage, c \in Cage : p = k[1] /\ c = k[2]
    BY GrantsOK
  <2>2. InheritRead(t, p, c)
    BY <1>5, <2>1
  <2>3. May'["hash"] = [May["hash"] EXCEPT ![c] = May["hash"][p]]
    BY <2>2, InheritReadMoves
  <2>4. said' = said
    BY <2>2 DEF InheritRead
  <2>5. Sets!Inherit(p, c)
    BY <2>3, <2>4 DEF Sets!Inherit
  <2> QED BY <2>5 DEF Sets!Next
<1>6. ASSUME NEW t \in Thread, InheritReadBits(t) PROVE UNCHANGED Sets!vars
  <2>1. said' = said
    BY <1>6 DEF InheritReadBits
  <2> QED BY <1>1, <1>6, <2>1, InheritReadBitsMoves
<1>7. ASSUME NEW t \in Thread, InheritWrite(t) \/ InheritWriteBits(t) PROVE UNCHANGED Sets!vars
  <2>1. said' = said
    BY <1>7 DEF InheritWrite, InheritWriteBits
  <2> QED BY <1>1, <1>7, <2>1, InheritWritesMove
<1>8. ASSUME NEW f \in Flavour, NEW q \in Questions, Check(f, q[1], q[2])
      PROVE  Sets!Next \/ UNCHANGED Sets!vars
  <2>1. PICK h \in Cage, ids \in SUBSET Cage : h = q[1] /\ ids = q[2]
    BY GrantsOK
  <2>2. Check(f, h, ids)
    BY <1>8, <2>1
  <2>3. UNCHANGED May
    BY <2>2 DEF Check, May, IsInherit
  <2>4. May[f][h] = table[f][h]
    BY <2>2, MayTable DEF Check, BeingForked
  <2>5. CASE f = "hash"
    <3>1. said'["hash"] = [holder |-> h, ids |-> ids, ok |-> ids \subseteq May["hash"][h] \cup {h}]
      BY <2>2, <2>4, <2>5 DEF Check, Inv, TypeOK
    <3>2. Sets!Check(h, ids)
      BY <2>3, <3>1 DEF Sets!Check
    <3> QED BY <3>2 DEF Sets!Next
  <2>6. CASE f # "hash"
    <3>1. said'["hash"] = said["hash"]
      BY <2>2, <2>6 DEF Check, Inv, TypeOK, Flavour
    <3> QED BY <1>1, <2>3, <3>1
  <2> QED BY <2>5, <2>6
<1> QED BY <1>2, <1>3, <1>4, <1>5, <1>6, <1>7, <1>8 DEF Next

LEMMA NextBits == Inv /\ Inv' /\ [Next]_vars => [Bits!Next]_(Bits!vars)
<1> SUFFICES ASSUME Inv, Inv', [Next]_vars PROVE Bits!Next \/ UNCHANGED Bits!vars
  OBVIOUS
<1>1. May'["bits"] = May["bits"] /\ said'["bits"] = said["bits"] => UNCHANGED Bits!vars
  BY DEF Bits!vars
<1>2. CASE UNCHANGED vars
  <2>1. UNCHANGED May
    BY <1>2 DEF vars, May, IsInherit
  <2> QED BY <1>1, <1>2, <2>1 DEF vars
<1>3. ASSUME NEW t \in Thread, NEW e \in Edits, NEW name \in {"grant", "revoke"},
             EditSet(t, name, e[1], e[2])
      PROVE  UNCHANGED Bits!vars
  <2>1. PICK h \in Cage, x \in Cage : h = e[1] /\ x = e[2]
    BY GrantsOK
  <2>2. EditSet(t, name, h, x)
    BY <1>3, <2>1
  <2>3. said' = said
    BY <2>2 DEF EditSet
  <2> QED BY <1>1, <2>2, <2>3, EditSetMoves
<1>4. ASSUME NEW t \in Thread, EditBits(t) PROVE Bits!Next
  <2>1. PICK h \in Cage, x \in Cage, name \in {"grant", "revoke"} :
          May'["bits"] = [May["bits"] EXCEPT ![h] = Changed("bits", name, May["bits"][h], x)]
    BY <1>4, EditBitsMoves
  <2>2. said' = said
    BY <1>4 DEF EditBits
  <2>3. Bits!Grant(h, x) \/ Bits!Revoke(h, x)
    BY <2>1, <2>2 DEF Changed, Bits!Grant, Bits!Revoke
  <2> QED BY <2>3 DEF Bits!Next
<1>5. ASSUME NEW t \in Thread, NEW k \in Forks, InheritRead(t, k[1], k[2]) PROVE UNCHANGED Bits!vars
  <2>1. PICK p \in Cage, c \in Cage : p = k[1] /\ c = k[2]
    BY GrantsOK
  <2>2. InheritRead(t, p, c)
    BY <1>5, <2>1
  <2>3. said' = said
    BY <2>2 DEF InheritRead
  <2> QED BY <1>1, <2>2, <2>3, InheritReadMoves
<1>6. ASSUME NEW t \in Thread, InheritReadBits(t) PROVE Bits!Next
  <2>1. PICK p \in Cage, c \in Cage : May'["bits"] = [May["bits"] EXCEPT ![c] = May["bits"][p]]
    BY <1>6, InheritReadBitsMoves
  <2>2. said' = said
    BY <1>6 DEF InheritReadBits
  <2>3. Bits!Inherit(p, c)
    BY <2>1, <2>2 DEF Bits!Inherit
  <2> QED BY <2>3 DEF Bits!Next
<1>7. ASSUME NEW t \in Thread, InheritWrite(t) \/ InheritWriteBits(t) PROVE UNCHANGED Bits!vars
  <2>1. said' = said
    BY <1>7 DEF InheritWrite, InheritWriteBits
  <2> QED BY <1>1, <1>7, <2>1, InheritWritesMove
<1>8. ASSUME NEW f \in Flavour, NEW q \in Questions, Check(f, q[1], q[2])
      PROVE  Bits!Next \/ UNCHANGED Bits!vars
  <2>1. PICK h \in Cage, ids \in SUBSET Cage : h = q[1] /\ ids = q[2]
    BY GrantsOK
  <2>2. Check(f, h, ids)
    BY <1>8, <2>1
  <2>3. UNCHANGED May
    BY <2>2 DEF Check, May, IsInherit
  <2>4. May[f][h] = table[f][h]
    BY <2>2, MayTable DEF Check, BeingForked
  <2>5. CASE f = "bits"
    <3>1. said'["bits"] = [holder |-> h, ids |-> ids, ok |-> ids \subseteq May["bits"][h] \cup {h}]
      BY <2>2, <2>4, <2>5 DEF Check, Inv, TypeOK
    <3>2. Bits!Check(h, ids)
      BY <2>3, <3>1 DEF Bits!Check
    <3> QED BY <3>2 DEF Bits!Next
  <2>6. CASE f # "bits"
    <3>1. said'["bits"] = said["bits"]
      BY <2>2, <2>6 DEF Check, Inv, TypeOK, Flavour
    <3> QED BY <1>1, <2>3, <3>1
  <2> QED BY <2>5, <2>6
<1> QED BY <1>2, <1>3, <1>4, <1>5, <1>6, <1>7, <1>8 DEF Next

\* The relations are empty at the start.
LEMMA MayInit == Init => \A f \in Flavour : May[f] = [c \in Cage |-> {}]
<1> SUFFICES ASSUME Init, NEW f \in Flavour PROVE May[f] = [c \in Cage |-> {}]
  OBVIOUS
<1>1. \A t \in Thread : ~IsInherit(t)
  BY DEF Init, IsInherit, Idle
<1>2. \A c \in Cage : May[f][c] = {}
  BY <1>1, InvInit, MayTable DEF Init
<1>3. May[f] = [c \in Cage |-> May[f][c]]
  BY InvInit, MayIs
<1> QED BY <1>2, <1>3

\* The hash sets implement the relation of module GrantRelation: grant, revoke
\* and inherit change it at one moment each and a check reads it at one, however
\* their locked regions interleave.
THEOREM SetsTheorem == Spec => SetsSpec
<1>1. Init => Sets!Init
  BY MayInit DEF Init, Flavour, Unasked, Sets!Init, Sets!Unasked
<1>2. Inv /\ [Next]_vars => Inv' /\ [Sets!Next]_(Sets!vars)
  BY InvNext, NextSets
<1> QED BY InvInit, <1>1, <1>2, PTL DEF Spec, SetsSpec, Sets!Spec

\* So do the bitsets, though each operation changes them later than the hash sets.
THEOREM BitsTheorem == Spec => BitsSpec
<1>1. Init => Bits!Init
  BY MayInit DEF Init, Flavour, Unasked, Bits!Init, Bits!Unasked
<1>2. Inv /\ [Next]_vars => Inv' /\ [Bits!Next]_(Bits!vars)
  BY InvNext, NextBits
<1> QED BY InvInit, <1>1, <1>2, PTL DEF Spec, BitsSpec, Bits!Spec

=============================================================================
