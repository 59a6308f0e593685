--------------------------- MODULE HandlerTables ---------------------------
(***************************************************************************)
(* The three handler-table backends.  The harness picks one when it        *)
(* starts; after that threads register handlers, look them up and copy the *)
(* handlers of a cage to another one, which models fork.                   *)
(*                                                                         *)
(*   mutex  MutexNested: a mutex around the table that lookups need, and   *)
(*          whole records in `meta' under a lock of its own                *)
(*   dash   DashNested: a sharded map of cages, and no records             *)
(*   flat   Flat: an RwLock around rows of whole records                   *)
(*                                                                         *)
(* One step is the region one lock covers.                                 *)
(***************************************************************************)
EXTENDS Integers, FiniteSets

CONSTANTS
  Thread,
  Cage,
  Callnum,
  RawposixCageid,  \* RAWPOSIX_CAGEID
  ZeroArgs,        \* [0; 6], as an arg_cageids array
  Handlers,        \* the records that register is called with
  None,            \* Option::None
  Backends         \* the backends the harness may pick

Stored  == [grateid : Nat, fnptr : Nat]
Handler == [kind : {"raw", "grate"}, grateid : Nat, fnptr : Nat, args : {h.args : h \in Handlers} \cup {ZeroArgs}]

ASSUME TablesOK ==
  /\ RawposixCageid \in Nat
  /\ \A h \in Handlers : /\ h \in [kind : {"raw", "grate"}, grateid : Nat, fnptr : Nat, args : {h.args}]
                         /\ h.kind = "raw" <=> h.grateid = RawposixCageid
  /\ \A h \in Handlers : None # h /\ None # h.args
  /\ None \notin [Callnum -> SUBSET (Stored \cup Handler)]
  /\ Backends \subseteq {"mutex", "dash", "flat"}

Key == Cage \X Callnum

VARIABLES
  backend,
  table,    \* table[c]: None, or for each callnum the targets kept for it
  meta,     \* MutexNested::meta: a record or None for each <<cage, callnum>>
  op,       \* op[t]: what t has yet to do
  answer,   \* answer[t]: the key t last looked up, and what it got
  (* history, read by properties only *)
  own,      \* own[k]: the record last registered at k, None once copied over
  raced,    \* the keys at which two registrations have overlapped
  known     \* known[k]: the arg_cageids registered at k or copied to k

vars == <<backend, table, meta, op, answer, own, raced, known>>

Idle == [name |-> "idle"]
\* register, before it writes `meta'; get, before it reads it; copy_to_cage,
\* before it inserts the clone.
Noting(k, h)    == [name |-> "note", key |-> k, handler |-> h]
Reading(k, e)   == [name |-> "read", key |-> k, entry |-> e]
Inserting(d, row, ks) == [name |-> "insert", cage |-> d, row |-> row, known |-> ks]

EmptyRow == [n \in Callnum |-> {}]
RowOf(c) == IF table[c] = None THEN EmptyRow ELSE table[c]
Noted(k) == \E t \in Thread : op[t].name = "note" /\ op[t].key = k

-----------------------------------------------------------------------------
(* register                                                                *)

\* What a backend keeps of a record.
Kept(h) == IF backend = "flat" THEN h ELSE [grateid |-> h.grateid, fnptr |-> h.fnptr]

\* Fault: `clear' is left out, so that only a target of the same id is replaced.
ReplacedOne(targets, h) == {e \in targets : e.grateid # h.grateid} \cup {Kept(h)}

Replaced(targets, h) == {Kept(h)}

Register(t, c, n, h) ==
  /\ op[t] = Idle
  /\ table' = [table EXCEPT ![c] = [RowOf(c) EXCEPT ![n] = Replaced(RowOf(c)[n], h)]]
  /\ op' = [op EXCEPT ![t] = IF backend = "mutex" THEN Noting(<<c, n>>, h) ELSE Idle]
  /\ own' = [own EXCEPT ![<<c, n>>] = h]
  /\ raced' = IF Noted(<<c, n>>) THEN raced \cup {<<c, n>>} ELSE raced
  /\ known' = [known EXCEPT ![<<c, n>>] = @ \cup {h.args}]
  /\ UNCHANGED <<backend, meta, answer>>

\* Fault: the first record stays.
NotedOnce(k, h) == IF meta[k] = None THEN h ELSE meta[k]

NotedAs(k, h) == h

\* `meta.write()', after the table lock is released.
Note(t) ==
  /\ op[t].name = "note"
  /\ meta' = [meta EXCEPT ![op[t].key] = NotedAs(op[t].key, op[t].handler)]
  /\ op' = [op EXCEPT ![t] = Idle]
  /\ UNCHANGED <<backend, table, answer, own, raced, known>>

-----------------------------------------------------------------------------
(* get                                                                     *)

\* The nested backends decide the kind by the id.
KindOf(e) == IF e.grateid = RawposixCageid THEN "raw" ELSE "grate"

Found(e, args) == [kind |-> KindOf(e), grateid |-> e.grateid, fnptr |-> e.fnptr, args |-> args]

\* Fault: records are looked up by the call number alone.
ArgsAtAny(k) == LET ks == {j \in Key : j[2] = k[2] /\ meta[j] # None}
                IN  IF ks = {} THEN ZeroArgs ELSE meta[CHOOSE j \in ks : TRUE].args

\* Fault: no fallback for a key without a record.
ArgsAtBare(k) == IF meta[k] = None THEN None ELSE meta[k].args

ArgsAt(k) == IF meta[k] = None THEN ZeroArgs ELSE meta[k].args

Get(t, k, e) ==
  IF backend = "mutex" /\ KindOf(e) = "grate"
    THEN op' = [op EXCEPT ![t] = Reading(k, e)] /\ UNCHANGED answer
    ELSE /\ answer' = [answer EXCEPT ![t] =
                         [key |-> k, got |-> IF backend = "flat" THEN e ELSE Found(e, ZeroArgs)]]
         /\ UNCHANGED op

\* `keys().next()' and `values().next()' are an entry of the innermost map.
Lookup(t, k) ==
  /\ op[t] = Idle
  /\ LET targets == RowOf(k[1])[k[2]]
     IN  \/ targets = {} /\ answer' = [answer EXCEPT ![t] = [key |-> k, got |-> None]]
                         /\ UNCHANGED op
         \/ \E e \in targets : Get(t, k, e)
  /\ UNCHANGED <<backend, table, meta, own, raced, known>>

\* MutexNested, for a grate: `meta.read()', after the table lock is released.
ReadMeta(t) ==
  /\ op[t].name = "read"
  /\ answer' = [answer EXCEPT ![t] = [key |-> op[t].key,
                                      got |-> Found(op[t].entry, ArgsAt(op[t].key))]]
  /\ op' = [op EXCEPT ![t] = Idle]
  /\ UNCHANGED <<backend, table, meta, own, raced, known>>

-----------------------------------------------------------------------------
(* copy_to_cage                                                            *)

KnownOf(c) == [n \in Callnum |-> known[<<c, n>>]]

\* The row of d becomes the given one; no record of MutexNested is touched.
PutRow(d, row, ks) ==
  /\ table' = [table EXCEPT ![d] = row]
  /\ own' = [k \in Key |-> IF k[1] = d THEN None ELSE own[k]]
  /\ known' = [k \in Key |-> IF k[1] = d THEN known[k] \cup ks[k[2]] ELSE known[k]]

\* An absent source leaves the child's row in the nested backends, and erases
\* it in the flat one.
CopyToCage(t, s, d) ==
  /\ op[t] = Idle
  /\ backend = "flat" \/ table[s] # None
  /\ IF backend = "dash"
       THEN /\ op' = [op EXCEPT ![t] = Inserting(d, table[s], KnownOf(s))]
            /\ UNCHANGED <<table, own, known>>
       ELSE PutRow(d, table[s], KnownOf(s)) /\ UNCHANGED op
  /\ UNCHANGED <<backend, meta, answer, raced>>

\* DashNested inserts its clone after it let go of the source's shard.
Insert(t) ==
  /\ op[t].name = "insert"
  /\ PutRow(op[t].cage, op[t].row, op[t].known)
  /\ op' = [op EXCEPT ![t] = Idle]
  /\ UNCHANGED <<backend, meta, answer, raced>>

-----------------------------------------------------------------------------
(* The specification                                                       *)

NoAnswer == [key |-> None, got |-> None]

Init ==
  /\ backend \in Backends
  /\ table = [c \in Cage |-> None]
  /\ meta = [k \in Key |-> None]
  /\ op = [t \in Thread |-> Idle]
  /\ answer = [t \in Thread |-> NoAnswer]
  /\ own = [k \in Key |-> None] /\ raced = {} /\ known = [k \in Key |-> {}]

Next ==
  \E t \in Thread :
    \/ \E c \in Cage, n \in Callnum, h \in Handlers : Register(t, c, n, h)
    \/ \E k \in Key : Lookup(t, k)
    \/ \E s, d \in Cage : s # d /\ CopyToCage(t, s, d)
    \/ Note(t) \/ ReadMeta(t) \/ Insert(t)

Spec == Init /\ [][Next]_vars

-----------------------------------------------------------------------------
(* Properties                                                              *)

Entry == Stored \cup Handler

\* Every variable has its type.
TypeOK ==
  /\ backend \in Backends
  /\ \A c \in Cage : table[c] # None =>
       DOMAIN table[c] = Callnum /\ \A n \in Callnum : table[c][n] \subseteq Entry
  /\ meta \in [Key -> Handlers \cup {None}]
  /\ \A t \in Thread :
       /\ op[t].name = "note" => op[t].key \in Key /\ op[t].handler \in Handlers
       /\ op[t].name = "read" => op[t].key \in Key /\ op[t].entry \in Stored
       /\ op[t].name = "insert" => op[t].cage \in Cage /\ DOMAIN op[t].row = Callnum
       /\ answer[t] # NoAnswer => answer[t].key \in Key /\ answer[t].got \in Handler \cup {None}
  /\ own \in [Key -> Handlers \cup {None}] /\ raced \subseteq Key

\* A call number of a cage has one target at most, whatever registrations and
\* copies did to it: `keys().next()' is the handler, and not one of several in
\* the order of a hash.
OneTarget == \A c \in Cage, n \in Callnum : Cardinality(RowOf(c)[n]) <= 1

\* No lookup, however it races with registrations and copies, returns argument
\* cage ids that were never registered for that call number of that cage or of
\* a cage it was copied from.
NoForeignArgs ==
  \A t \in Thread : answer[t] # NoAnswer /\ answer[t].got # None =>
    answer[t].got.args \in known[answer[t].key] \cup {ZeroArgs}

\* What a lookup returns while nothing else happens.
AtRest(k) ==
  LET e == CHOOSE e \in RowOf(k[1])[k[2]] : TRUE
  IN  IF backend = "flat" THEN e
      ELSE Found(e, IF backend = "mutex" /\ KindOf(e) = "grate" THEN ArgsAt(k) ELSE ZeroArgs)

\* k was registered last (and not copied over since), by registrations that did
\* not overlap, and is being registered no more.
Settled(k) == own[k] # None /\ k \notin raced /\ ~Noted(k)

\* A lookup of a settled key finds the record registered last, for a grate with
\* its argument cage ids: the side table of MutexNested, which is written under
\* another lock, has then caught up with the table.
SettledPins ==
  \A k \in Key : Settled(k) =>
    /\ AtRest(k).kind = own[k].kind /\ AtRest(k).grateid = own[k].grateid
    /\ AtRest(k).fnptr = own[k].fnptr
    /\ backend # "dash" /\ own[k].kind = "grate" => AtRest(k).args = own[k].args

\* "The target cage and all six arg cage ids come from the registration record":
\* a settled key is looked up with the argument cage ids it was registered with,
\* which make_syscall_narrow hands to the leaf.
NarrowPinned == \A k \in Key : Settled(k) => AtRest(k).args = own[k].args
=============================================================================
