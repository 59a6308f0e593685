------------------------- MODULE HandlerTablesProofs -------------------------
(***************************************************************************)
(* Proof of what the handler-table backends keep, for any number of        *)
(* threads, cages and call numbers: one target for a call number, argument *)
(* cage ids of nobody else, and for a settled key the record registered    *)
(* last.                                                                   *)
(*                                                                         *)
(* The argument: a row holds for each call number nothing or what its      *)
(* backend keeps of one record (Types).  Whatever carries argument cage    *)
(* ids -- records of meta, registrations yet to note theirs, flat rows --  *)
(* carries ids known at its key (Sourced).  Registrations that have not    *)
(* overlapped leave one thread to note a key, with the record registered   *)
(* last, and its note makes meta catch up (CaughtUp).                      *)
(***************************************************************************)
EXTENDS HandlerTables, FiniteSetTheorems, TLAPS

Args == {h.args : h \in Handlers}

\* What the backend keeps of each record, the sets of targets that makes, and
\* the rows of such sets.
KeptOf  == [h \in Handlers |-> Kept(h)]
Targets == {{}} \cup {{KeptOf[h]} : h \in Handlers}
Row     == [Callnum -> Targets]
Rows    == [c \in Cage |-> RowOf(c)]

NoteOps   == [name : {"note"}, key : Key, handler : Handlers]
ReadOps   == [name : {"read"}, key : Key, entry : Stored]
InsertOps == [name : {"insert"}, cage : Cage, row : Row, known : [Callnum -> SUBSET Args]]

\* Every variable has its type, and only DashNested inserts clones.
Types ==
  /\ backend \in Backends
  /\ table \in [Cage -> {None} \cup Row]
  /\ meta \in [Key -> Handlers \cup {None}]
  /\ op \in [Thread -> {Idle} \cup NoteOps \cup ReadOps \cup InsertOps]
  /\ answer \in [Thread -> {NoAnswer} \cup [key : Key, got : Handler \cup {None}]]
  /\ own \in [Key -> Handlers \cup {None}]
  /\ raced \subseteq Key
  /\ known \in [Key -> SUBSET Args]
  /\ \A t \in Thread : op[t].name = "insert" => backend = "dash"

\* Argument cage ids are known at the key they are kept for.
Sourced ==
  /\ \A k \in Key : meta[k] # None => meta[k].args \in known[k]
  /\ \A t \in Thread : op[t].name = "note" => op[t].handler.args \in known[op[t].key]
  /\ backend = "flat" => \A c \in Cage, n \in Callnum : \A e \in Rows[c][n] : e.args \in known[<<c, n>>]
  /\ NoForeignArgs

\* The table holds the record registered last; so does meta, once it is noted.
CaughtUp ==
  /\ \A k \in Key : own[k] # None => Rows[k[1]][k[2]] = {KeptOf[own[k]]}
  /\ \A t, u \in Thread :
       op[t].name = "note" /\ op[u].name = "note" /\ t # u /\ op[t].key = op[u].key => op[t].key \in raced
  /\ \A t \in Thread :
       op[t].name = "note" /\ op[t].key \notin raced /\ own[op[t].key] # None =>
         op[t].handler = own[op[t].key]
  /\ backend = "mutex" => \A k \in Key : Settled(k) => meta[k] = own[k]

Inv == Types /\ Sourced /\ CaughtUp

-----------------------------------------------------------------------------
(* What the backends keep                                                  *)

\* The shape of an operation by its name.
LEMMA OpKinds ==
  ASSUME Types, NEW t \in Thread
  PROVE  /\ op[t].name = "note" => op[t] \in NoteOps
         /\ op[t].name = "read" => op[t] \in ReadOps
         /\ op[t].name = "insert" => op[t] \in InsertOps
  BY DEF Types, Idle, NoteOps, ReadOps, InsertOps

LEMMA OpNames ==
  /\ Idle.name = "idle"
  /\ \A o \in NoteOps : o.name = "note" /\ o.key \in Key /\ o.handler \in Handlers
  /\ \A o \in ReadOps : o.name = "read" /\ o.key \in Key /\ o.entry \in Stored
  /\ \A o \in InsertOps : /\ o.name = "insert" /\ o.cage \in Cage /\ o.row \in Row
                          /\ o.known \in [Callnum -> SUBSET Args]
  BY DEF Idle, NoteOps, ReadOps, InsertOps

\* A record is a handler, and what is kept of it an entry.
LEMMA KeptEntry ==
  ASSUME NEW h \in Handlers, Types
  PROVE  /\ h \in Handler /\ h.args \in Args
         /\ KeptOf[h] = Kept(h) /\ KeptOf[h] \in Entry
         /\ backend = "flat" => KeptOf[h] = h
         /\ backend # "flat" => /\ KeptOf[h] \in Stored
                                /\ KeptOf[h].grateid = h.grateid /\ KeptOf[h].fnptr = h.fnptr
<1>1. h \in [kind : {"raw", "grate"}, grateid : Nat, fnptr : Nat, args : {h.args}]
  BY TablesOK
<1>2. h.args \in Args
  BY DEF Args
<1>3. h \in Handler
  BY <1>1, <1>2 DEF Handler, Args
<1>4. [grateid |-> h.grateid, fnptr |-> h.fnptr] \in Stored
  BY <1>1 DEF Stored
<1>5. KeptOf[h] = Kept(h)
  BY DEF KeptOf
<1>6. CASE backend = "flat"
  BY <1>2, <1>3, <1>5, <1>6 DEF Kept, Entry
<1>7. CASE backend # "flat"
  BY <1>2, <1>3, <1>4, <1>5, <1>7 DEF Kept, Entry
<1> QED BY <1>6, <1>7

\* A row has for each call number no target, or one that is kept of a record.
LEMMA RowTargets ==
  ASSUME Types, NEW c \in Cage
  PROVE  /\ RowOf(c) \in Row /\ Rows[c] = RowOf(c)
         /\ \A row \in Row : row # None
         /\ \A n \in Callnum : \A e \in RowOf(c)[n] :
              \E h \in Handlers : e = KeptOf[h] /\ RowOf(c)[n] = {e}
<1>1. EmptyRow \in Row
  BY DEF EmptyRow, Row, Targets
<1>2. RowOf(c) \in Row
  BY <1>1 DEF RowOf, Types
<1>3. ASSUME NEW n \in Callnum, NEW e \in RowOf(c)[n]
      PROVE  \E h \in Handlers : e = KeptOf[h] /\ RowOf(c)[n] = {e}
  BY <1>2, <1>3 DEF Row, Targets
<1>4. ASSUME NEW row \in Row PROVE row # None
  <2>1. \A s \in Targets : s \subseteq Entry
    BY KeptEntry DEF Targets
  <2>2. row \in [Callnum -> SUBSET Entry]
    BY <2>1 DEF Row
  <2> QED BY <2>2, TablesOK DEF Entry
<1> QED BY <1>2, <1>3, <1>4 DEF Rows

\* The kinds of sets do not change, as the backend does not.
LEMMA SameKeeping ==
  ASSUME backend' = backend
  PROVE  KeptOf' = KeptOf /\ Targets' = Targets /\ Row' = Row /\ InsertOps' = InsertOps
<1>1. KeptOf' = KeptOf
  BY DEF KeptOf, Kept
<1>2. Targets' = Targets
  BY <1>1 DEF Targets
<1>3. Row' = Row
  BY <1>2 DEF Row
<1> QED BY <1>1, <1>2, <1>3 DEF InsertOps

-----------------------------------------------------------------------------
(* How the steps change the variables                                      *)

\* A thread's operation is replaced.
LEMMA OpSet ==
  ASSUME Types, NEW t \in Thread, NEW o, op' = [op EXCEPT ![t] = o]
  PROVE  /\ op'[t] = o /\ \A u \in Thread : u # t => op'[u] = op[u]
         /\ o \in {Idle} \cup NoteOps \cup ReadOps \cup InsertOps =>
              op' \in [Thread -> {Idle} \cup NoteOps \cup ReadOps \cup InsertOps]
  BY DEF Types

\* A registration replaces the targets of its key.
LEMMA RegisterRows ==
  ASSUME Types, NEW t \in Thread, NEW c \in Cage, NEW n \in Callnum, NEW h \in Handlers,
         Register(t, c, n, h)
  PROVE  /\ table' \in [Cage -> {None} \cup Row]
         /\ Rows'[c][n] = {KeptOf[h]}
         /\ \A d \in Cage, m \in Callnum : d # c \/ m # n => Rows'[d][m] = Rows[d][m]
<1> DEFINE row == [RowOf(c) EXCEPT ![n] = {KeptOf[h]}]
<1>1. /\ row \in Row /\ row[n] = {KeptOf[h]}
      /\ \A m \in Callnum : m # n => row[m] = Rows[c][m]
  BY RowTargets DEF Row, Targets
<1>2. table' = [table EXCEPT ![c] = row]
  BY KeptEntry DEF Register, Replaced
<1> HIDE DEF row
<1>3. table' \in [Cage -> {None} \cup Row] /\ table'[c] = row
        /\ \A d \in Cage : d # c => table'[d] = table[d]
  BY <1>1, <1>2 DEF Types
<1>4. \A d \in Cage : d # c => Rows'[d] = Rows[d]
  BY <1>3 DEF Rows, RowOf, EmptyRow
<1>5. Rows'[c] = row
  BY <1>1, <1>3, RowTargets DEF Rows, RowOf
<1> QED BY <1>1, <1>3, <1>4, <1>5

\* It leaves its thread to note the record, if the backend does that apart.
LEMMA RegisterStep ==
  ASSUME Types, NEW t \in Thread, NEW c \in Cage, NEW n \in Callnum, NEW h \in Handlers,
         Register(t, c, n, h)
  PROVE  /\ op[t] = Idle /\ UNCHANGED <<backend, meta, answer>>
         /\ <<c, n>> \in Key
         /\ backend = "mutex" => op'[t] = Noting(<<c, n>>, h)
         /\ backend # "mutex" => op'[t] = Idle
         /\ op'[t] \in {Idle} \cup NoteOps
         /\ \A u \in Thread : u # t => op'[u] = op[u]
         /\ op' \in [Thread -> {Idle} \cup NoteOps \cup ReadOps \cup InsertOps]
         /\ own'[<<c, n>>] = h /\ \A k \in Key : k # <<c, n>> => own'[k] = own[k]
         /\ own' \in [Key -> Handlers \cup {None}]
         /\ known' \in [Key -> SUBSET Args] /\ h.args \in known'[<<c, n>>]
         /\ \A k \in Key : known[k] \subseteq known'[k]
         /\ Noted(<<c, n>>) => raced' = raced \cup {<<c, n>>}
         /\ ~Noted(<<c, n>>) => raced' = raced
<1> DEFINE k == <<c, n>>
           o == IF backend = "mutex" THEN Noting(k, h) ELSE Idle
<1>1. k \in Key
  BY DEF Key
<1>2. o \in {Idle} \cup NoteOps
  BY <1>1 DEF Noting, NoteOps
<1>3. /\ op[t] = Idle /\ UNCHANGED <<backend, meta, answer>>
      /\ op' = [op EXCEPT ![t] = o]
      /\ own' = [own EXCEPT ![k] = h]
      /\ known' = [known EXCEPT ![k] = @ \cup {h.args}]
      /\ Noted(k) => raced' = raced \cup {k}
      /\ ~Noted(k) => raced' = raced
  BY DEF Register
<1>4. /\ op'[t] = o /\ \A u \in Thread : u # t => op'[u] = op[u]
      /\ op' \in [Thread -> {Idle} \cup NoteOps \cup ReadOps \cup InsertOps]
  BY <1>2, <1>3, OpSet
<1>5. own'[k] = h /\ own' \in [Key -> Handlers \cup {None}] /\ \A j \in Key : j # k => own'[j] = own[j]
  BY <1>1, <1>3 DEF Types
<1>6. /\ known' \in [Key -> SUBSET Args] /\ h.args \in known'[k]
      /\ \A j \in Key : known[j] \subseteq known'[j]
  BY <1>1, <1>3, KeptEntry DEF Types
<1>7. (backend = "mutex" => o = Noting(k, h)) /\ (backend # "mutex" => o = Idle)
  OBVIOUS
<1> HIDE DEF o
<1> QED BY <1>1, <1>2, <1>3, <1>4, <1>5, <1>6, <1>7

\* A row is replaced by that of another cage, or by one cloned before.
LEMMA PutRowStep ==
  ASSUME Types, NEW d \in Cage, NEW row \in {None} \cup Row, NEW ks \in [Callnum -> SUBSET Args],
         PutRow(d, row, ks)
  PROVE  /\ table' \in [Cage -> {None} \cup Row]
         /\ row # None => Rows'[d] = row
         /\ row = None => Rows'[d] = EmptyRow
         /\ \A c \in Cage : c # d => Rows'[c] = Rows[c]
         /\ own' \in [Key -> Handlers \cup {None}]
         /\ \A k \in Key : k[1] = d => own'[k] = None
         /\ \A k \in Key : k[1] # d => own'[k] = own[k]
         /\ known' \in [Key -> SUBSET Args]
         /\ \A k \in Key : known[k] \subseteq known'[k] /\ (k[1] = d => ks[k[2]] \subseteq known'[k])
<1>1. /\ table' \in [Cage -> {None} \cup Row] /\ table'[d] = row
      /\ \A c \in Cage : c # d => table'[c] = table[c]
  BY DEF PutRow, Types
<1>2. /\ row # None => Rows'[d] = row
      /\ row = None => Rows'[d] = EmptyRow
      /\ \A c \in Cage : c # d => Rows'[c] = Rows[c]
  BY <1>1 DEF Rows, RowOf, EmptyRow
<1>3. own' = [k \in Key |-> IF k[1] = d THEN None ELSE own[k]]
  BY DEF PutRow
<1>4. known' = [k \in Key |-> IF k[1] = d THEN known[k] \cup ks[k[2]] ELSE known[k]]
  BY DEF PutRow
<1>5. own' \in [Key -> Handlers \cup {None}]
  BY <1>3 DEF Types
<1>6. \A k \in Key : k[2] \in Callnum
  BY DEF Key
<1>7. known' \in [Key -> SUBSET Args]
  BY <1>4, <1>6 DEF Types
<1> QED BY <1>1, <1>2, <1>3, <1>4, <1>5, <1>6, <1>7

\* A record is noted in meta.
LEMMA NoteStep ==
  ASSUME Types, NEW t \in Thread, Note(t)
  PROVE  /\ op[t] \in NoteOps /\ op'[t] = Idle /\ \A u \in Thread : u # t => op'[u] = op[u]
         /\ op' \in [Thread -> {Idle} \cup NoteOps \cup ReadOps \cup InsertOps]
         /\ meta' \in [Key -> Handlers \cup {None}] /\ meta'[op[t].key] = op[t].handler
         /\ \A k \in Key : k # op[t].key => meta'[k] = meta[k]
         /\ UNCHANGED <<backend, table, answer, own, raced, known>>
<1>1. op[t] \in NoteOps
  BY OpKinds DEF Note
<1>2. PICK k \in Key, h \in Handlers : k = op[t].key /\ h = op[t].handler
  BY <1>1, OpNames
<1>3. op'[t] = Idle /\ (\A u \in Thread : u # t => op'[u] = op[u])
        /\ op' \in [Thread -> {Idle} \cup NoteOps \cup ReadOps \cup InsertOps]
  BY OpSet DEF Note
<1>4. meta' = [meta EXCEPT ![k] = h]
  BY <1>2 DEF Note, NotedAs
<1>5. /\ meta' \in [Key -> Handlers \cup {None}] /\ meta'[k] = h
      /\ \A j \in Key : j # k => meta'[j] = meta[j]
  BY <1>4 DEF Types
<1> QED BY <1>1, <1>2, <1>3, <1>5 DEF Note

\* What the nested backends find is a handler.
LEMMA FoundHandler ==
  ASSUME NEW e \in Stored, NEW args \in Args \cup {ZeroArgs}
  PROVE  Found(e, args) \in Handler /\ Found(e, args).args = args
  BY DEF Found, KindOf, Stored, Handler, Args

\* A lookup answers with a handler of the row or none, or goes on to meta.
LEMMA LookupStep ==
  ASSUME Types, NEW t \in Thread, NEW k \in Key, Lookup(t, k)
  PROVE  /\ op[t] = Idle /\ UNCHANGED <<backend, table, meta, own, raced, known>>
         /\ \/ \E g \in Handler \cup {None} :
                 /\ answer' = [answer EXCEPT ![t] = [key |-> k, got |-> g]] /\ op' = op
                 /\ g # None => g.args = ZeroArgs \/ (backend = "flat" /\ g \in Rows[k[1]][k[2]])
            \/ \E e \in Stored : op' = [op EXCEPT ![t] = Reading(k, e)] /\ answer' = answer
<1>1. PICK c \in Cage, n \in Callnum : k = <<c, n>> /\ c = k[1] /\ n = k[2]
  BY DEF Key
<1>2. /\ op[t] = Idle /\ UNCHANGED <<backend, table, meta, own, raced, known>>
      /\ \/ answer' = [answer EXCEPT ![t] = [key |-> k, got |-> None]] /\ op' = op
         \/ \E e \in RowOf(c)[n] : Get(t, k, e)
  BY <1>1 DEF Lookup
<1>3. ASSUME NEW e \in RowOf(c)[n], Get(t, k, e)
      PROVE  \/ \E g \in Handler :
                  /\ answer' = [answer EXCEPT ![t] = [key |-> k, got |-> g]] /\ op' = op
                  /\ g.args = ZeroArgs \/ (backend = "flat" /\ g \in Rows[k[1]][k[2]])
             \/ \E f \in Stored : op' = [op EXCEPT ![t] = Reading(k, f)] /\ answer' = answer
  <2>1. PICK h \in Handlers : e = KeptOf[h]
    BY RowTargets
  <2>2. CASE backend = "flat"
    <3>1. e \in Handler /\ e \in Rows[k[1]][k[2]]
      BY <1>1, <2>1, <2>2, KeptEntry, RowTargets
    <3>2. answer' = [answer EXCEPT ![t] = [key |-> k, got |-> e]] /\ op' = op
      BY <1>3, <2>2 DEF Get
    <3> QED BY <2>2, <3>1, <3>2
  <2>3. CASE backend # "flat"
    <3>1. e \in Stored
      BY <2>1, <2>3, KeptEntry
    <3>2. CASE backend = "mutex" /\ KindOf(e) = "grate"
      BY <1>3, <3>1, <3>2 DEF Get
    <3>3. CASE ~(backend = "mutex" /\ KindOf(e) = "grate")
      <4>1. answer' = [answer EXCEPT ![t] = [key |-> k, got |-> Found(e, ZeroArgs)]] /\ op' = op
        BY <1>3, <2>3, <3>3 DEF Get
      <4>2. Found(e, ZeroArgs) \in Handler /\ Found(e, ZeroArgs).args = ZeroArgs
        BY <3>1, FoundHandler
      <4> QED BY <4>1, <4>2
    <3> QED BY <3>2, <3>3
  <2> QED BY <2>2, <2>3
<1> QED BY <1>2, <1>3

\* A lookup ends with the argument cage ids of meta.
LEMMA ReadMetaStep ==
  ASSUME Types, NEW t \in Thread, ReadMeta(t)
  PROVE  /\ op'[t] = Idle /\ \A u \in Thread : u # t => op'[u] = op[u]
         /\ op' \in [Thread -> {Idle} \cup NoteOps \cup ReadOps \cup InsertOps]
         /\ UNCHANGED <<backend, table, meta, own, raced, known>>
         /\ op[t] \in ReadOps
         /\ \E g \in Handler : /\ answer' = [answer EXCEPT ![t] = [key |-> op[t].key, got |-> g]]
                               /\ meta[op[t].key] = None => g.args = ZeroArgs
                               /\ meta[op[t].key] # None => g.args = meta[op[t].key].args
<1>1. op[t] \in ReadOps
  BY OpKinds DEF ReadMeta
<1>2. PICK k \in Key, e \in Stored : k = op[t].key /\ e = op[t].entry
  BY <1>1, OpNames
<1>3. PICK args : args = ArgsAt(k)
  OBVIOUS
<1>4. /\ args \in Args \cup {ZeroArgs}
      /\ meta[k] = None => args = ZeroArgs
      /\ meta[k] # None => args = meta[k].args
  BY <1>3 DEF ArgsAt, Types, Args
<1>5. Found(e, args) \in Handler /\ Found(e, args).args = args
  BY <1>4, FoundHandler
<1>6. answer' = [answer EXCEPT ![t] = [key |-> k, got |-> Found(e, args)]]
  BY <1>2, <1>3 DEF ReadMeta
<1>7. op'[t] = Idle /\ (\A u \in Thread : u # t => op'[u] = op[u])
        /\ op' \in [Thread -> {Idle} \cup NoteOps \cup ReadOps \cup InsertOps]
  BY OpSet DEF ReadMeta
<1>8. UNCHANGED <<backend, table, meta, own, raced, known>>
  BY DEF ReadMeta
<1> QED BY <1>1, <1>2, <1>4, <1>5, <1>6, <1>7, <1>8

\* DashNested clones a row.
LEMMA CloneStep ==
  ASSUME Types, NEW t \in Thread, NEW s \in Cage, NEW d \in Cage,
         CopyToCage(t, s, d), backend = "dash"
  PROVE  /\ op[t] = Idle /\ op'[t] \in InsertOps /\ \A u \in Thread : u # t => op'[u] = op[u]
         /\ op' \in [Thread -> {Idle} \cup NoteOps \cup ReadOps \cup InsertOps]
         /\ UNCHANGED <<backend, table, meta, own, known, answer, raced>>
<1> DEFINE o == Inserting(d, table[s], KnownOf(s))
<1>1. table[s] \in Row
  BY DEF CopyToCage, Types
<1>2. KnownOf(s) \in [Callnum -> SUBSET Args]
  BY DEF KnownOf, Types, Key
<1>3. o \in InsertOps
  BY <1>1, <1>2 DEF Inserting, InsertOps
<1>4. op[t] = Idle /\ op' = [op EXCEPT ![t] = o]
        /\ UNCHANGED <<backend, table, meta, own, known, answer, raced>>
  BY DEF CopyToCage
<1> HIDE DEF o
<1> QED BY <1>3, <1>4, OpSet

\* The other backends replace the row at once.
LEMMA CopyStep ==
  ASSUME Types, NEW t \in Thread, NEW s \in Cage, NEW d \in Cage,
         CopyToCage(t, s, d), backend # "dash"
  PROVE  /\ UNCHANGED <<backend, op, meta, answer, raced>>
         /\ \E row \in {None} \cup Row, ks \in [Callnum -> SUBSET Args] :
              /\ row = table[s] /\ ks = KnownOf(s) /\ PutRow(d, row, ks)
<1>1. table[s] \in {None} \cup Row
  BY DEF Types
<1>2. KnownOf(s) \in [Callnum -> SUBSET Args]
  BY DEF KnownOf, Types, Key
<1>3. PutRow(d, table[s], KnownOf(s)) /\ UNCHANGED <<backend, op, meta, answer, raced>>
  BY DEF CopyToCage
<1> QED BY <1>1, <1>2, <1>3

\* DashNested inserts its clone.
LEMMA InsertStep ==
  ASSUME Types, NEW t \in Thread, Insert(t)
  PROVE  /\ op[t] \in InsertOps /\ backend = "dash"
         /\ op'[t] = Idle /\ \A u \in Thread : u # t => op'[u] = op[u]
         /\ op' \in [Thread -> {Idle} \cup NoteOps \cup ReadOps \cup InsertOps]
         /\ UNCHANGED <<backend, meta, answer, raced>>
         /\ \E d \in Cage, row \in {None} \cup Row, ks \in [Callnum -> SUBSET Args] : PutRow(d, row, ks)
<1>1. op[t] \in InsertOps /\ backend = "dash"
  BY OpKinds DEF Insert, Types
<1>2. op[t].cage \in Cage /\ op[t].row \in Row /\ op[t].known \in [Callnum -> SUBSET Args]
  BY <1>1, OpNames
<1>3. PutRow(op[t].cage, op[t].row, op[t].known) /\ UNCHANGED <<backend, meta, answer, raced>>
  BY DEF Insert
<1>4. op'[t] = Idle /\ (\A u \in Thread : u # t => op'[u] = op[u])
        /\ op' \in [Thread -> {Idle} \cup NoteOps \cup ReadOps \cup InsertOps]
  BY OpSet DEF Insert
<1> QED BY <1>1, <1>2, <1>3, <1>4

-----------------------------------------------------------------------------
(* Types                                                                   *)

LEMMA NextTypes == Types /\ [Next]_vars => Types'
<1> SUFFICES ASSUME Types, [Next]_vars PROVE Types'
  OBVIOUS
<1>1. backend' = backend => Row' = Row /\ InsertOps' = InsertOps
  BY SameKeeping
<1>2. CASE UNCHANGED vars
  BY <1>1, <1>2 DEF vars, Types
<1>3. ASSUME NEW t \in Thread, NEW c \in Cage, NEW n \in Callnum, NEW h \in Handlers,
             Register(t, c, n, h)
      PROVE  Types'
  <2>1. raced' \subseteq Key /\ UNCHANGED <<backend, meta, answer>>
    <3>1. /\ <<c, n>> \in Key /\ UNCHANGED <<backend, meta, answer>>
          /\ raced' = raced \cup {<<c, n>>} \/ raced' = raced
      BY <1>3, RegisterStep
    <3> QED BY <3>1 DEF Types
  <2>2. /\ op' \in [Thread -> {Idle} \cup NoteOps \cup ReadOps \cup InsertOps]
        /\ table' \in [Cage -> {None} \cup Row] /\ own' \in [Key -> Handlers \cup {None}]
        /\ known' \in [Key -> SUBSET Args]
    BY <1>3, RegisterStep, RegisterRows
  <2>3. \A u \in Thread : op'[u].name = "insert" => backend = "dash"
    <3>1. op'[t].name # "insert" /\ \A u \in Thread : u # t => op'[u] = op[u]
      BY <1>3, RegisterStep, OpNames
    <3> QED BY <3>1 DEF Types
  <2> QED BY <1>1, <2>1, <2>2, <2>3 DEF Types
<1>4. ASSUME NEW t \in Thread, Note(t) PROVE Types'
  <2>1. \A u \in Thread : op'[u].name = "insert" => backend = "dash"
    <3>1. op'[t].name # "insert" /\ \A u \in Thread : u # t => op'[u] = op[u]
      BY <1>4, NoteStep, OpNames
    <3> QED BY <3>1 DEF Types
  <2> QED BY <1>1, <1>4, <2>1, NoteStep DEF Types
<1>5. ASSUME NEW t \in Thread, NEW k \in Key, Lookup(t, k) PROVE Types'
  <2>1. UNCHANGED <<backend, table, meta, own, raced, known>>
    BY <1>5, LookupStep
  <2>2. ASSUME NEW g \in Handler \cup {None}, answer' = [answer EXCEPT ![t] = [key |-> k, got |-> g]],
               op' = op
        PROVE  Types'
    <3>1. [key |-> k, got |-> g] \in [key : Key, got : Handler \cup {None}]
      OBVIOUS
    <3>2. answer' \in [Thread -> {NoAnswer} \cup [key : Key, got : Handler \cup {None}]]
      BY <2>2, <3>1 DEF Types
    <3> QED BY <1>1, <2>1, <2>2, <3>2 DEF Types
  <2>3. ASSUME NEW e \in Stored, op' = [op EXCEPT ![t] = Reading(k, e)], answer' = answer
        PROVE  Types'
    <3>1. Reading(k, e) \in ReadOps
      BY DEF Reading, ReadOps
    <3>2. /\ op'[t] = Reading(k, e) /\ \A u \in Thread : u # t => op'[u] = op[u]
          /\ op' \in [Thread -> {Idle} \cup NoteOps \cup ReadOps \cup InsertOps]
      BY <2>3, <3>1, OpSet
    <3>3. \A u \in Thread : op'[u].name = "insert" => backend = "dash"
      <4>1. op'[t].name # "insert"
        BY <3>1, <3>2, OpNames
      <4> QED BY <3>2, <4>1 DEF Types
    <3> QED BY <1>1, <2>1, <2>3, <3>2, <3>3 DEF Types
  <2> QED BY <1>5, <2>2, <2>3, LookupStep
<1>6. ASSUME NEW t \in Thread, ReadMeta(t) PROVE Types'
  <2>1. PICK g \in Handler : answer' = [answer EXCEPT ![t] = [key |-> op[t].key, got |-> g]]
    BY <1>6, ReadMetaStep
  <2>2. op[t].key \in Key
    BY <1>6, ReadMetaStep, OpNames
  <2>3. [key |-> op[t].key, got |-> g] \in [key : Key, got : Handler \cup {None}]
    BY <2>2
  <2>4. answer' \in [Thread -> {NoAnswer} \cup [key : Key, got : Handler \cup {None}]]
    BY <2>1, <2>3 DEF Types
  <2>5. \A u \in Thread : op'[u].name = "insert" => backend = "dash"
    <3>1. op'[t].name # "insert" /\ \A u \in Thread : u # t => op'[u] = op[u]
      BY <1>6, ReadMetaStep, OpNames
    <3> QED BY <3>1 DEF Types
  <2> QED BY <1>1, <1>6, <2>4, <2>5, ReadMetaStep DEF Types
<1>7. ASSUME NEW t \in Thread, NEW s \in Cage, NEW d \in Cage, CopyToCage(t, s, d) PROVE Types'
  <2>1. CASE backend = "dash"
    <3>1. \A u \in Thread : op'[u].name = "insert" => backend = "dash"
      BY <2>1
    <3> QED BY <1>1, <1>7, <2>1, <3>1, CloneStep DEF Types
  <2>2. CASE backend # "dash"
    <3>1. PICK row \in {None} \cup Row, ks \in [Callnum -> SUBSET Args] : PutRow(d, row, ks)
      BY <1>7, <2>2, CopyStep
    <3>2. UNCHANGED <<backend, op, meta, answer, raced>>
      BY <1>7, <2>2, CopyStep
    <3> QED BY <1>1, <3>1, <3>2, PutRowStep DEF Types
  <2> QED BY <2>1, <2>2
<1>8. ASSUME NEW t \in Thread, Insert(t) PROVE Types'
  <2>1. PICK d \in Cage, row \in {None} \cup Row, ks \in [Callnum -> SUBSET Args] : PutRow(d, row, ks)
    BY <1>8, InsertStep
  <2>2. /\ UNCHANGED <<backend, meta, answer, raced>> /\ backend = "dash"
        /\ op' \in [Thread -> {Idle} \cup NoteOps \cup ReadOps \cup InsertOps]
    BY <1>8, InsertStep
  <2> QED BY <1>1, <2>1, <2>2, PutRowStep DEF Types
<1> QED BY <1>2, <1>3, <1>4, <1>5, <1>6, <1>7, <1>8 DEF Next

-----------------------------------------------------------------------------
(* Argument cage ids                                                       *)

\* What is known at a key stays known.
LEMMA KnownKept ==
  ASSUME Types, Sourced, \A k \in Key : known[k] \subseteq known'[k]
  PROVE  /\ meta' = meta => \A k \in Key : meta'[k] # None => meta'[k].args \in known'[k]
         /\ \A t \in Thread : op'[t] = op[t] /\ op[t].name = "note" =>
              op'[t].handler.args \in known'[op'[t].key]
         /\ answer' = answer => NoForeignArgs'
<1>1. \A t \in Thread : op'[t] = op[t] /\ op[t].name = "note" =>
        op'[t].handler.args \in known'[op'[t].key]
  BY OpKinds, OpNames DEF Sourced
<1>2. ASSUME answer' = answer PROVE NoForeignArgs'
  <2>1. \A t \in Thread : answer[t] # NoAnswer => answer[t].key \in Key
    BY DEF Types
  <2> QED BY <1>2, <2>1 DEF Sourced, NoForeignArgs
<1> QED BY <1>1, <1>2 DEF Sourced

\* An answer is given.
LEMMA AnswerSourced ==
  ASSUME Types, Sourced, known' = known, NEW t \in Thread, NEW k \in Key, NEW g \in Handler \cup {None},
         answer' = [answer EXCEPT ![t] = [key |-> k, got |-> g]],
         g # None => g.args \in known[k] \cup {ZeroArgs}
  PROVE  NoForeignArgs'
<1>1. answer'[t].key = k /\ answer'[t].got = g /\ \A u \in Thread : u # t => answer'[u] = answer[u]
  BY DEF Types
<1>2. \A u \in Thread : answer[u] # NoAnswer /\ answer[u].got # None =>
        answer[u].got.args \in known[answer[u].key] \cup {ZeroArgs}
  BY DEF Sourced, NoForeignArgs
<1>3. NoAnswer' = NoAnswer
  BY DEF NoAnswer
<1> QED BY <1>1, <1>2, <1>3 DEF NoForeignArgs

LEMMA NextSourced == Types /\ Sourced /\ [Next]_vars => Sourced'
<1> SUFFICES ASSUME Types, Sourced, [Next]_vars PROVE Sourced'
  OBVIOUS
<1>1. CASE UNCHANGED vars
  <2>1. Rows' = Rows
    BY <1>1 DEF vars, Rows, RowOf, EmptyRow
  <2> QED BY <1>1, <2>1, KnownKept DEF vars, Sourced
<1>2. ASSUME NEW t \in Thread, NEW c \in Cage, NEW n \in Callnum, NEW h \in Handlers,
             Register(t, c, n, h)
      PROVE  Sourced'
  <2>1. /\ UNCHANGED <<backend, meta, answer>> /\ \A k \in Key : known[k] \subseteq known'[k]
        /\ h.args \in known'[<<c, n>>]
    BY <1>2, RegisterStep
  <2>2. \A u \in Thread : op'[u].name = "note" => op'[u].handler.args \in known'[op'[u].key]
    <3>1. op'[t].name = "note" => op'[t].handler.args \in known'[op'[t].key]
      <4>1. op'[t] = Noting(<<c, n>>, h) \/ op'[t] = Idle
        BY <1>2, RegisterStep
      <4> QED BY <2>1, <4>1 DEF Noting, Idle
    <3>2. \A u \in Thread : u # t => op'[u] = op[u]
      BY <1>2, RegisterStep
    <3> QED BY <2>1, <3>1, <3>2, KnownKept
  <2>3. /\ Rows'[c][n] = {KeptOf[h]}
        /\ \A d \in Cage, m \in Callnum : d # c \/ m # n => Rows'[d][m] = Rows[d][m]
    BY <1>2, RegisterRows
  <2>4. backend = "flat" =>
          \A d \in Cage, m \in Callnum : \A e \in Rows'[d][m] : e.args \in known'[<<d, m>>]
    <3> SUFFICES ASSUME backend = "flat", NEW d \in Cage, NEW m \in Callnum, NEW e \in Rows'[d][m]
                 PROVE  e.args \in known'[<<d, m>>]
      OBVIOUS
    <3>1. CASE d = c /\ m = n
      <4>1. e = h
        BY <2>3, <3>1, KeptEntry
      <4> QED BY <2>1, <3>1, <4>1
    <3>2. CASE ~(d = c /\ m = n)
      <4>1. Rows'[d][m] = Rows[d][m] /\ <<d, m>> \in Key
        BY <2>3, <3>2 DEF Key
      <4> QED BY <2>1, <4>1 DEF Sourced
    <3> QED BY <3>1, <3>2
  <2> QED BY <2>1, <2>2, <2>4, KnownKept DEF Sourced
<1>3. ASSUME NEW t \in Thread, Note(t) PROVE Sourced'
  <2>1. /\ op[t].key \in Key /\ op[t].handler.args \in known[op[t].key]
        /\ meta'[op[t].key] = op[t].handler
        /\ \A k \in Key : k # op[t].key => meta'[k] = meta[k]
    BY <1>3, NoteStep, OpNames DEF Sourced
  <2>2. op'[t].name # "note" /\ \A u \in Thread : u # t => op'[u] = op[u]
    BY <1>3, NoteStep, OpNames
  <2>3. UNCHANGED <<backend, table, answer, known>>
    BY <1>3, NoteStep
  <2>4. Rows' = Rows
    BY <2>3 DEF Rows, RowOf, EmptyRow
  <2>5. NoForeignArgs'
    BY <2>3, KnownKept
  <2> QED BY <2>1, <2>2, <2>3, <2>4, <2>5 DEF Sourced
<1>4. ASSUME NEW t \in Thread, NEW k \in Key, Lookup(t, k) PROVE Sourced'
  <2>1. UNCHANGED <<backend, table, meta, own, raced, known>>
    BY <1>4, LookupStep
  <2>2. Rows' = Rows
    BY <2>1 DEF Rows, RowOf, EmptyRow
  <2>3. ASSUME NEW g \in Handler \cup {None}, answer' = [answer EXCEPT ![t] = [key |-> k, got |-> g]],
               op' = op, g # None => g.args = ZeroArgs \/ (backend = "flat" /\ g \in Rows[k[1]][k[2]])
        PROVE  Sourced'
    <3>1. k[1] \in Cage /\ k[2] \in Callnum /\ k = <<k[1], k[2]>>
      BY DEF Key
    <3>2. g # None => g.args \in known[k] \cup {ZeroArgs}
      BY <2>3, <3>1 DEF Sourced
    <3>3. NoForeignArgs'
      BY <2>1, <2>3, <3>2, AnswerSourced
    <3> QED BY <2>1, <2>2, <2>3, <3>3 DEF Sourced
  <2>4. ASSUME NEW e \in Stored, op' = [op EXCEPT ![t] = Reading(k, e)], answer' = answer
        PROVE  Sourced'
    <3>1. op'[t] = Reading(k, e) /\ \A u \in Thread : u # t => op'[u] = op[u]
      BY <2>4, OpSet
    <3>2. op'[t].name # "note"
      BY <3>1 DEF Reading
    <3>3. NoForeignArgs'
      BY <2>1, <2>4, KnownKept
    <3> QED BY <2>1, <2>2, <3>1, <3>2, <3>3 DEF Sourced
  <2> QED BY <1>4, <2>3, <2>4, LookupStep
<1>5. ASSUME NEW t \in Thread, ReadMeta(t) PROVE Sourced'
  <2>1. PICK k \in Key : k = op[t].key
    BY <1>5, ReadMetaStep, OpNames
  <2>2. PICK g \in Handler : /\ answer' = [answer EXCEPT ![t] = [key |-> k, got |-> g]]
                             /\ meta[k] = None => g.args = ZeroArgs
                             /\ meta[k] # None => g.args = meta[k].args
    BY <1>5, <2>1, ReadMetaStep
  <2>3. UNCHANGED <<backend, table, meta, own, raced, known>>
    BY <1>5, ReadMetaStep
  <2>4. Rows' = Rows
    BY <2>3 DEF Rows, RowOf, EmptyRow
  <2>5. NoForeignArgs'
    BY <2>2, <2>3, AnswerSourced DEF Sourced
  <2>6. op'[t].name # "note" /\ \A u \in Thread : u # t => op'[u] = op[u]
    BY <1>5, ReadMetaStep, OpNames
  <2> QED BY <2>3, <2>4, <2>5, <2>6 DEF Sourced
<1>6. ASSUME NEW t \in Thread, NEW s \in Cage, NEW d \in Cage, CopyToCage(t, s, d) PROVE Sourced'
  <2>1. CASE backend = "dash"
    <3>1. /\ op'[t].name # "note" /\ \A u \in Thread : u # t => op'[u] = op[u]
          /\ UNCHANGED <<backend, table, meta, own, known, answer, raced>>
      BY <1>6, <2>1, CloneStep, OpNames
    <3>2. NoForeignArgs'
      BY <3>1, KnownKept
    <3> QED BY <2>1, <3>1, <3>2 DEF Sourced
  <2>2. CASE backend # "dash"
    <3>1. UNCHANGED <<backend, op, meta, answer, raced>>
      BY <1>6, <2>2, CopyStep
    <3>2. PICK row \in {None} \cup Row, ks \in [Callnum -> SUBSET Args] :
            row = table[s] /\ ks = KnownOf(s) /\ PutRow(d, row, ks)
      BY <1>6, <2>2, CopyStep
    <3>3. /\ \A k \in Key : known[k] \subseteq known'[k] /\ (k[1] = d => ks[k[2]] \subseteq known'[k])
          /\ \A c \in Cage : c # d => Rows'[c] = Rows[c]
      BY <3>2, PutRowStep
    <3>4. Rows'[d] = Rows[s]
      BY <3>2, PutRowStep DEF Rows, RowOf
    <3>5. ASSUME backend = "flat", NEW c \in Cage, NEW n \in Callnum, NEW e \in Rows'[c][n]
          PROVE  e.args \in known'[<<c, n>>]
      <4>1. <<c, n>> \in Key /\ <<s, n>> \in Key
        BY DEF Key
      <4>2. CASE c # d
        BY <3>3, <3>5, <4>1, <4>2 DEF Sourced
      <4>3. CASE c = d
        <5>1. e.args \in known[<<s, n>>]
          BY <3>4, <3>5, <4>3 DEF Sourced
        <5>2. ks[n] = known[<<s, n>>]
          BY <3>2 DEF KnownOf
        <5> QED BY <3>3, <4>1, <4>3, <5>1, <5>2
      <4> QED BY <4>2, <4>3
    <3> QED BY <3>1, <3>3, <3>5, KnownKept DEF Sourced
  <2> QED BY <2>1, <2>2
<1>7. ASSUME NEW t \in Thread, Insert(t) PROVE Sourced'
  <2>1. PICK d \in Cage, row \in {None} \cup Row, ks \in [Callnum -> SUBSET Args] : PutRow(d, row, ks)
    BY <1>7, InsertStep
  <2>2. /\ UNCHANGED <<backend, meta, answer, raced>> /\ backend # "flat"
        /\ op'[t].name # "note" /\ \A u \in Thread : u # t => op'[u] = op[u]
    BY <1>7, InsertStep, OpNames
  <2>3. \A k \in Key : known[k] \subseteq known'[k]
    BY <2>1, PutRowStep
  <2> QED BY <2>2, <2>3, KnownKept DEF Sourced
<1> QED BY <1>1, <1>2, <1>3, <1>4, <1>5, <1>6, <1>7 DEF Next

-----------------------------------------------------------------------------
(* The record registered last                                              *)

\* Steps that register and note nothing, and forget records at most.
LEMMA CaughtUpKept ==
  ASSUME Types, CaughtUp, UNCHANGED <<backend, meta, raced>>,
         \A k \in Key : own'[k] # None => own'[k] = own[k] /\ Rows'[k[1]][k[2]] = Rows[k[1]][k[2]],
         \A u \in Thread : op'[u] = op[u] \/ (op[u].name # "note" /\ op'[u].name # "note")
  PROVE  CaughtUp'
<1>1. KeptOf' = KeptOf
  BY SameKeeping
<1>2. \A u \in Thread : op'[u].name = "note" <=> op[u].name = "note"
  OBVIOUS
<1>3. \A u \in Thread : op'[u].name = "note" => op'[u] = op[u] /\ op[u].key \in Key
  BY OpKinds, OpNames
<1>4. \A k \in Key : own'[k] # None => Rows'[k[1]][k[2]] = {KeptOf'[own'[k]]}
  BY <1>1 DEF CaughtUp
<1>5. \A t, u \in Thread :
        op'[t].name = "note" /\ op'[u].name = "note" /\ t # u /\ op'[t].key = op'[u].key =>
          op'[t].key \in raced'
  BY <1>3 DEF CaughtUp
<1>6. \A t \in Thread :
        op'[t].name = "note" /\ op'[t].key \notin raced' /\ own'[op'[t].key] # None =>
          op'[t].handler = own'[op'[t].key]
  BY <1>3 DEF CaughtUp
<1>7. ASSUME backend' = "mutex", NEW k \in Key, Settled(k)' PROVE meta'[k] = own'[k]
  <2>1. own'[k] # None /\ k \notin raced' /\ \A u \in Thread : ~(op'[u].name = "note" /\ op'[u].key = k)
    BY <1>7 DEF Settled, Noted
  <2>2. own[k] # None /\ own'[k] = own[k]
    BY <2>1
  <2>3. \A u \in Thread : ~(op[u].name = "note" /\ op[u].key = k)
    BY <1>2, <1>3, <2>1
  <2>4. Settled(k)
    BY <2>1, <2>2, <2>3 DEF Settled, Noted
  <2> QED BY <1>7, <2>2, <2>4 DEF CaughtUp
<1> QED BY <1>4, <1>5, <1>6, <1>7 DEF CaughtUp

\* A registration that overlaps another races; one that does not is alone to note.
LEMMA RegisterCaughtUp ==
  ASSUME Types, CaughtUp, NEW t \in Thread, NEW c \in Cage, NEW n \in Callnum, NEW h \in Handlers,
         Register(t, c, n, h)
  PROVE  CaughtUp'
<1> DEFINE j == <<c, n>>
<1>1. /\ op[t] = Idle /\ backend' = backend /\ meta' = meta /\ j \in Key
      /\ \A u \in Thread : u # t => op'[u] = op[u]
      /\ own'[j] = h /\ \A k \in Key : k # j => own'[k] = own[k]
  BY RegisterStep
<1>2. /\ Noted(j) => j \in raced'
      /\ raced \subseteq raced' /\ raced' \subseteq raced \cup {j}
  BY RegisterStep
<1>3. op'[t].name = "note" => op'[t].key = j /\ op'[t].handler = h
  <2>1. op'[t] = Noting(j, h) \/ op'[t] = Idle
    BY RegisterStep
  <2> QED BY <2>1 DEF Noting, Idle
<1>4. backend = "mutex" => op'[t].name = "note"
  <2>1. backend = "mutex" => op'[t] = Noting(j, h)
    BY RegisterStep
  <2> QED BY <2>1 DEF Noting
<1>5. KeptOf' = KeptOf
  BY <1>1, SameKeeping
<1>6. Rows'[c][n] = {KeptOf[h]}
        /\ \A d \in Cage, m \in Callnum : d # c \/ m # n => Rows'[d][m] = Rows[d][m]
  BY RegisterRows
<1>7. \A u \in Thread : u # t /\ op'[u].name = "note" => op[u].key \in Key
  BY <1>1, OpKinds, OpNames
<1>8. ASSUME NEW k \in Key, own'[k] # None PROVE Rows'[k[1]][k[2]] = {KeptOf'[own'[k]]}
  <2>1. PICK d \in Cage, m \in Callnum : k = <<d, m>> /\ k[1] = d /\ k[2] = m
    BY DEF Key
  <2>2. CASE k = j
    BY <1>1, <1>5, <1>6, <2>1, <2>2
  <2>3. CASE k # j
    <3>1. d # c \/ m # n
      BY <2>1, <2>3
    <3>2. Rows'[d][m] = Rows[d][m] /\ own'[k] = own[k]
      BY <1>1, <1>6, <2>3, <3>1
    <3> QED BY <1>5, <1>8, <2>1, <3>2 DEF CaughtUp
  <2> QED BY <2>2, <2>3
<1> HIDE DEF j
<1>9. ASSUME NEW u \in Thread, NEW v \in Thread, op'[u].name = "note", op'[v].name = "note", u # v,
             op'[u].key = op'[v].key
      PROVE  op'[u].key \in raced'
  <2>1. CASE u = t \/ v = t
    <3>1. Noted(j) /\ op'[u].key = j
      BY <1>1, <1>3, <1>9, <2>1 DEF Noted
    <3> QED BY <1>2, <3>1
  <2>2. CASE u # t /\ v # t
    BY <1>1, <1>2, <1>9, <2>2 DEF CaughtUp
  <2> QED BY <2>1, <2>2
<1>10. ASSUME NEW u \in Thread, op'[u].name = "note", op'[u].key \notin raced', own'[op'[u].key] # None
       PROVE  op'[u].handler = own'[op'[u].key]
  <2>1. CASE u = t
    BY <1>1, <1>3, <1>10, <2>1
  <2>2. CASE u # t
    <3>1. op'[u] = op[u] /\ op[u].key \in Key
      BY <1>1, <1>7, <1>10, <2>2
    <3>2. op[u].key # j
      BY <1>2, <1>10, <3>1 DEF Noted
    <3> QED BY <1>1, <1>2, <1>10, <3>1, <3>2 DEF CaughtUp
  <2> QED BY <2>1, <2>2
<1>11. ASSUME backend' = "mutex", NEW k \in Key, Settled(k)' PROVE meta'[k] = own'[k]
  <2>1. own'[k] # None /\ k \notin raced' /\ \A u \in Thread : ~(op'[u].name = "note" /\ op'[u].key = k)
    BY <1>11 DEF Settled, Noted
  <2>2. k # j
    BY <1>1, <1>3, <1>4, <1>11, <2>1
  <2>3. \A u \in Thread : ~(op[u].name = "note" /\ op[u].key = k)
    BY <1>1, <2>1 DEF Idle
  <2>4. Settled(k) /\ own'[k] = own[k]
    BY <1>1, <1>2, <2>1, <2>2, <2>3 DEF Settled, Noted
  <2> QED BY <1>1, <1>11, <2>4 DEF CaughtUp
<1> QED BY <1>8, <1>9, <1>10, <1>11 DEF CaughtUp

\* A note that did not race makes meta catch up.
LEMMA NoteCaughtUp ==
  ASSUME Types, CaughtUp, NEW t \in Thread, Note(t)
  PROVE  CaughtUp'
<1>1. PICK j \in Key : j = op[t].key
  BY NoteStep, OpNames
<1>2. /\ UNCHANGED <<backend, table, own, raced>>
      /\ op[t].name = "note" /\ op'[t].name # "note" /\ \A u \in Thread : u # t => op'[u] = op[u]
      /\ meta'[j] = op[t].handler /\ \A k \in Key : k # j => meta'[k] = meta[k]
  BY <1>1, NoteStep, OpNames
<1>3. Rows' = Rows /\ KeptOf' = KeptOf
  BY <1>2, SameKeeping DEF Rows, RowOf, EmptyRow
<1>4. ASSUME backend' = "mutex", NEW k \in Key, Settled(k)' PROVE meta'[k] = own'[k]
  <2>1. own[k] # None /\ k \notin raced /\ \A u \in Thread : ~(op'[u].name = "note" /\ op'[u].key = k)
    BY <1>2, <1>4 DEF Settled, Noted
  <2>2. CASE k = j
    <3>1. op[t].handler = own[k]
      BY <1>1, <1>2, <2>1, <2>2 DEF CaughtUp
    <3> QED BY <1>2, <2>2, <3>1
  <2>3. CASE k # j
    <3>1. \A u \in Thread : ~(op[u].name = "note" /\ op[u].key = k)
      BY <1>1, <1>2, <2>1, <2>3
    <3>2. Settled(k)
      BY <2>1, <3>1 DEF Settled, Noted
    <3> QED BY <1>2, <1>4, <2>3, <3>2 DEF CaughtUp
  <2> QED BY <2>2, <2>3
<1>5. \A k \in Key : own'[k] # None => Rows'[k[1]][k[2]] = {KeptOf'[own'[k]]}
  BY <1>2, <1>3 DEF CaughtUp
<1>6. \A u, v \in Thread :
        op'[u].name = "note" /\ op'[v].name = "note" /\ u # v /\ op'[u].key = op'[v].key =>
          op'[u].key \in raced'
  BY <1>2 DEF CaughtUp
<1>7. \A u \in Thread :
        op'[u].name = "note" /\ op'[u].key \notin raced' /\ own'[op'[u].key] # None =>
          op'[u].handler = own'[op'[u].key]
  BY <1>2 DEF CaughtUp
<1> QED BY <1>4, <1>5, <1>6, <1>7 DEF CaughtUp

LEMMA NextCaughtUp == Types /\ CaughtUp /\ [Next]_vars => CaughtUp'
<1> SUFFICES ASSUME Types, CaughtUp, [Next]_vars PROVE CaughtUp'
  OBVIOUS
<1>1. UNCHANGED <<backend, table>> => Rows' = Rows
  BY DEF Rows, RowOf, EmptyRow
<1>2. CASE UNCHANGED vars
  BY <1>1, <1>2, CaughtUpKept DEF vars
<1>3. ASSUME NEW t \in Thread, NEW k \in Key, Lookup(t, k) PROVE CaughtUp'
  <2>1. op[t].name # "note" /\ UNCHANGED <<backend, table, meta, own, raced, known>>
    BY <1>3, LookupStep DEF Idle
  <2>2. \A u \in Thread : op'[u] = op[u] \/ (op[u].name # "note" /\ op'[u].name # "note")
    <3>1. CASE op' = op
      BY <3>1
    <3>2. ASSUME NEW e \in Stored, op' = [op EXCEPT ![t] = Reading(k, e)]
          PROVE  \A u \in Thread : op'[u] = op[u] \/ (op[u].name # "note" /\ op'[u].name # "note")
      <4>1. op'[t] = Reading(k, e) /\ \A u \in Thread : u # t => op'[u] = op[u]
        BY <3>2, OpSet
      <4>2. op'[t].name # "note"
        BY <4>1 DEF Reading
      <4> QED BY <2>1, <4>1, <4>2
    <3> QED BY <1>3, <3>1, <3>2, LookupStep
  <2> QED BY <1>1, <2>1, <2>2, CaughtUpKept
<1>4. ASSUME NEW t \in Thread, ReadMeta(t) PROVE CaughtUp'
  <2>1. /\ op[t].name # "note" /\ op'[t].name # "note" /\ \A u \in Thread : u # t => op'[u] = op[u]
        /\ UNCHANGED <<backend, table, meta, own, raced, known>>
    BY <1>4, ReadMetaStep, OpNames
  <2> QED BY <1>1, <2>1, CaughtUpKept
<1>5. ASSUME NEW d \in Cage, NEW row \in {None} \cup Row, NEW ks \in [Callnum -> SUBSET Args],
             PutRow(d, row, ks), UNCHANGED <<backend, meta, raced>>,
             \A u \in Thread : op'[u] = op[u] \/ (op[u].name # "note" /\ op'[u].name # "note")
      PROVE  CaughtUp'
  <2>1. ASSUME NEW k \in Key, own'[k] # None
        PROVE  own'[k] = own[k] /\ Rows'[k[1]][k[2]] = Rows[k[1]][k[2]]
    <3>1. k[1] \in Cage /\ k[1] # d
      BY <1>5, <2>1, PutRowStep DEF Key
    <3> QED BY <1>5, <3>1, PutRowStep
  <2> QED BY <1>5, <2>1, CaughtUpKept
<1>6. ASSUME NEW t \in Thread, NEW s \in Cage, NEW d \in Cage, CopyToCage(t, s, d) PROVE CaughtUp'
  <2>1. CASE backend = "dash"
    <3>1. /\ op[t].name # "note" /\ op'[t].name # "note" /\ \A u \in Thread : u # t => op'[u] = op[u]
          /\ UNCHANGED <<backend, table, meta, own, known, answer, raced>>
      BY <1>6, <2>1, CloneStep, OpNames
    <3> QED BY <1>1, <3>1, CaughtUpKept
  <2>2. CASE backend # "dash"
    <3>1. UNCHANGED <<backend, op, meta, answer, raced>>
      BY <1>6, <2>2, CopyStep
    <3>2. PICK row \in {None} \cup Row, ks \in [Callnum -> SUBSET Args] : PutRow(d, row, ks)
      BY <1>6, <2>2, CopyStep
    <3> QED BY <1>5, <3>1, <3>2
  <2> QED BY <2>1, <2>2
<1>7. ASSUME NEW t \in Thread, Insert(t) PROVE CaughtUp'
  <2>1. PICK d \in Cage, row \in {None} \cup Row, ks \in [Callnum -> SUBSET Args] : PutRow(d, row, ks)
    BY <1>7, InsertStep
  <2>2. /\ UNCHANGED <<backend, meta, answer, raced>>
        /\ op[t].name # "note" /\ op'[t].name # "note" /\ \A u \in Thread : u # t => op'[u] = op[u]
    BY <1>7, InsertStep, OpNames
  <2> QED BY <1>5, <2>1, <2>2
<1> QED BY <1>2, <1>3, <1>4, <1>6, <1>7, RegisterCaughtUp, NoteCaughtUp DEF Next

-----------------------------------------------------------------------------
(* The theorems                                                            *)

LEMMA InvInit == Init => Inv
<1> SUFFICES ASSUME Init PROVE Inv
  OBVIOUS
<1>1. Rows = [c \in Cage |-> EmptyRow]
  BY DEF Init, Rows, RowOf
<1>2. \A t \in Thread : op[t].name = "idle"
  BY DEF Init, Idle
<1>3. Types
  BY <1>2 DEF Init, Types
<1>4. Sourced
  BY <1>1, <1>2 DEF Init, Sourced, NoForeignArgs, EmptyRow
<1>5. CaughtUp
  BY <1>2 DEF Init, CaughtUp, Settled
<1> QED BY <1>3, <1>4, <1>5 DEF Inv

LEMMA Invariant == Spec => []Inv
<1>1. Inv /\ [Next]_vars => Inv'
  BY NextTypes, NextSourced, NextCaughtUp DEF Inv
<1> QED BY <1>1, InvInit, PTL DEF Spec

\* The tables, the records and what is under way keep their types, whichever
\* backend runs.
THEOREM TypeTheorem == Spec => []TypeOK
<1>1. Inv => TypeOK
  <2> SUFFICES ASSUME Types PROVE TypeOK
    BY DEF Inv
  <2>1. ASSUME NEW c \in Cage, table[c] # None
        PROVE  DOMAIN table[c] = Callnum /\ \A n \in Callnum : table[c][n] \subseteq Entry
    <3>1. table[c] = RowOf(c) /\ table[c] \in Row
      BY <2>1, RowTargets DEF RowOf
    <3>2. DOMAIN table[c] = Callnum
      BY <3>1 DEF Row
    <3>3. \A n \in Callnum : table[c][n] \subseteq Entry
      BY <3>1, KeptEntry, RowTargets
    <3> QED BY <3>2, <3>3
  <2>2. ASSUME NEW t \in Thread
        PROVE  /\ op[t].name = "note" => op[t].key \in Key /\ op[t].handler \in Handlers
               /\ op[t].name = "read" => op[t].key \in Key /\ op[t].entry \in Stored
               /\ op[t].name = "insert" => op[t].cage \in Cage /\ DOMAIN op[t].row = Callnum
               /\ answer[t] # NoAnswer => answer[t].key \in Key /\ answer[t].got \in Handler \cup {None}
    <3>1. \A row \in Row : DOMAIN row = Callnum
      BY DEF Row
    <3>2. answer[t] # NoAnswer => answer[t].key \in Key /\ answer[t].got \in Handler \cup {None}
      BY DEF Types
    <3> QED BY <3>1, <3>2, OpKinds, OpNames
  <2> QED BY <2>1, <2>2 DEF Types, TypeOK
<1> QED BY <1>1, Invariant, PTL

\* A call number of a cage never has two targets, so which of them an iterator
\* meets first is never in question.
THEOREM OneTheorem == Spec => []OneTarget
<1>1. Inv => OneTarget
  <2> SUFFICES ASSUME Types, NEW c \in Cage, NEW n \in Callnum PROVE Cardinality(RowOf(c)[n]) <= 1
    BY DEF Inv, OneTarget
  <2>1. CASE RowOf(c)[n] = {}
    BY <2>1, FS_EmptySet
  <2>2. ASSUME NEW e \in RowOf(c)[n] PROVE Cardinality(RowOf(c)[n]) <= 1
    <3>1. RowOf(c)[n] = {e}
      BY RowTargets
    <3>2. Cardinality({e}) = 1
      BY FS_Singleton
    <3> QED BY <3>1, <3>2
  <2> QED BY <2>1, <2>2
<1> QED BY <1>1, Invariant, PTL

\* No lookup answers with argument cage ids of another key.
THEOREM SourceTheorem == Spec => []NoForeignArgs
<1>1. Inv => NoForeignArgs
  BY DEF Inv, Sourced
<1> QED BY <1>1, Invariant, PTL

\* A settled key is looked up as the record registered last.
THEOREM PinTheorem == Spec => []SettledPins
<1>1. Inv => SettledPins
  <2> SUFFICES ASSUME Inv, NEW k \in Key, Settled(k)
               PROVE  /\ AtRest(k).kind = own[k].kind /\ AtRest(k).grateid = own[k].grateid
                      /\ AtRest(k).fnptr = own[k].fnptr
                      /\ backend # "dash" /\ own[k].kind = "grate" => AtRest(k).args = own[k].args
    BY DEF SettledPins
  <2>1. PICK h \in Handlers : own[k] = h /\ h # None
    BY DEF Settled, Inv, Types
  <2>2. k[1] \in Cage /\ k[2] \in Callnum
    BY DEF Key
  <2>3. RowOf(k[1])[k[2]] = {KeptOf[h]}
    BY <2>1, <2>2, RowTargets DEF Inv, CaughtUp
  <2>4. backend = "mutex" => meta[k] = h
    BY <2>1 DEF Inv, CaughtUp
  <2>5. /\ h.kind \in {"raw", "grate"} /\ (h.kind = "raw" <=> h.grateid = RawposixCageid)
    BY TablesOK
  <2>6. PICK e : e = KeptOf[h] /\ e = CHOOSE f \in RowOf(k[1])[k[2]] : TRUE
    BY <2>3
  <2>7. CASE backend = "flat"
    <3>1. AtRest(k) = h
      BY <2>6, <2>7, KeptEntry DEF AtRest, Inv
    <3> QED BY <2>1, <3>1
  <2>8. CASE backend # "flat"
    <3>1. e.grateid = h.grateid /\ e.fnptr = h.fnptr
      BY <2>6, <2>8, KeptEntry DEF Inv
    <3>2. KindOf(e) = h.kind
      BY <2>5, <3>1 DEF KindOf
    <3>3. PICK args : /\ AtRest(k) = Found(e, args)
                      /\ backend = "mutex" /\ h.kind = "grate" => args = ArgsAt(k)
      BY <2>6, <2>8, <3>2 DEF AtRest
    <3>4. backend = "mutex" => ArgsAt(k) = h.args
      BY <2>1, <2>4 DEF ArgsAt
    <3>5. backend # "dash" => backend = "mutex"
      BY <2>8, TablesOK DEF Inv, Types
    <3> QED BY <2>1, <3>1, <3>2, <3>3, <3>4, <3>5 DEF Found
  <2> QED BY <2>7, <2>8
<1> QED BY <1>1, Invariant, PTL
=============================================================================
