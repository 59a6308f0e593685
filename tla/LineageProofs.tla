---------------------------- MODULE LineageProofs ----------------------------
(***************************************************************************)
(* Proof that the two representations of the lineage hold the same facts   *)
(* and decide alike while no cage outlives its parent, and that the        *)
(* lineage then is the atomic tree of ForkTree, for any number of cages    *)
(* and threads, with ids reused or not.                                    *)
(*                                                                         *)
(* The argument: the living cages form a tree in which the set of a child  *)
(* is that of its parent and the child itself (Tree).  A cage that exits   *)
(* has no living child, so no living cage has it in its set.  A walk holds *)
(* the parent lock, so from one hop to the next the root it looks for      *)
(* stays in, or stays out of, the set of the cage it has reached (Ways).   *)
(* That holds of a cage that is still being forked, too, of the set it is  *)
(* about to get (Coming, Line).  A living cage's set is closed under       *)
(* parent pointers and is the least such set (Reached), that is what the   *)
(* pointers reach.                                                         *)
(***************************************************************************)
EXTENDS Lineage, FiniteSetTheorems, TLAPS

\* What a fork or an exit in progress knows of the cages it is about.
Pending ==
  /\ \A t \in Thread : op[t].name = "fork" =>
       /\ Alive(op[t].parent) /\ life[op[t].child] = "forking"
       /\ parent[op[t].child] = op[t].parent
  /\ \A t \in Thread : op[t].name = "exit" => life[op[t].cage] = "exiting"
  /\ \A t, u \in Thread :
       op[t].name = "fork" /\ op[u].name = "fork" /\ op[t].child = op[u].child => t = u
  /\ \A t, u \in Thread :
       op[t].name = "exit" /\ op[u].name = "exit" /\ op[t].cage = op[u].cage => t = u

Child(c) ==
  /\ parent[c] \in Cage /\ Alive(parent[c])
  /\ ancestors[c] = ancestors[parent[c]] \cup {c}
  /\ c \notin ancestors[parent[c]]

\* A proper ancestor of c has a living child on the way down to c.
Linked(c) ==
  /\ c \in ancestors[c]
  /\ \A a \in ancestors[c] : Alive(a)
  /\ \A a \in ancestors[c] : a # c => \E k \in ancestors[c] : Alive(k) /\ parent[k] = a

Tree ==
  /\ Alive(Root) /\ parent[Root] = NoParent /\ ancestors[Root] = {Root}
  /\ \A c \in Cage : Alive(c) => Linked(c) /\ (c # Root => Child(c))

\* A cage that is being forked is some thread's work.
Expected ==
  \A c \in Cage : life[c] = "forking" => \E t \in Thread : op[t].name = "fork" /\ op[t].child = c

\* The cages that live or will when their fork is done, and the sets they have
\* or will have: a walk finds the pointer of a cage whose set is not there yet.
Coming == {c \in Cage : life[c] \in {"forking", "alive"}}
Line   == [c \in Cage |-> IF Alive(c) THEN ancestors[c] ELSE ancestors[parent[c]] \cup {c}]

\* A cage that does not live has no pointer, or no set, until it is forked.
Bare ==
  \A c \in Cage :
    /\ c \notin Coming => parent[c] = NoParent
    /\ life[c] \in {"fresh", "forking", "exited"} => ancestors[c] = {}

\* What a walk decides about an id.
Inside(root, c) == c = root \/ (c \in Coming /\ root \in Line[c])

\* Where a walk stands: it has found the ids behind it inside, and what it will
\* find about the present one is still to be seen from where it is.
Way(w) ==
  /\ w.sure => \A c \in w.ids : Alive(c)
  /\ w.id \in w.ids /\ w.todo \subseteq w.ids /\ w.root \notin w.todo /\ w.id # w.root
  /\ w.id \notin Coming => w.cur = w.id
  /\ w.id \in Coming =>
       /\ w.cur \in Coming /\ w.cur # w.root
       /\ w.root \in Line[w.id] <=> w.root \in Line[w.cur]
  /\ \A c \in w.ids \ (w.todo \cup {w.id}) : Inside(w.root, c)

Ways == \A t \in Walker : Way(op[t])

Inv == TypeOK /\ Pending /\ Expected /\ Bare /\ Tree /\ Ways

-----------------------------------------------------------------------------
\* The shape of an operation by its name.
LEMMA OpTypes ==
  ASSUME TypeOK, NEW t \in Thread
  PROVE  /\ op[t].name \in {"idle", "fork", "exit", "walk"}
         /\ op[t].name = "fork" => op[t] \in ForkOps
         /\ op[t].name = "exit" => op[t] \in ExitOps
         /\ op[t].name = "walk" => op[t] \in WalkOps
  BY DEF TypeOK, Ops, Idle, ForkOps, ExitOps, WalkOps

\* The invariant holds initially.
LEMMA InitInv == Init => Inv
<1> SUFFICES ASSUME Init PROVE Inv
  OBVIOUS
<1>1. TypeOK
  BY LineageOK DEF Init, TypeOK, Ops, Idle, Life
<1>2. Pending /\ Expected /\ Ways
  BY DEF Init, Pending, Expected, Ways, Walker, Idle
<1>3. Tree
  BY LineageOK DEF Init, Tree, Alive, Linked, Child
<1>4. Bare
  BY LineageOK DEF Init, Bare, Coming
<1> QED BY <1>1, <1>2, <1>3, <1>4 DEF Inv

\* How the operations change op.
LEMMA AdvanceType ==
  ASSUME TypeOK, NEW t \in Thread, NEW root \in Cage, NEW ids \in SUBSET Cage,
         NEW todo \in SUBSET Cage, NEW sure \in BOOLEAN, Advance(t, root, ids, todo, sure)
  PROVE  op' \in [Thread -> Ops] /\ verdict' \in [Thread -> BOOLEAN]
<1>1. CASE todo = {} /\ Answered(t, TRUE)
  BY <1>1 DEF Answered, TypeOK, Ops
<1>2. ASSUME NEW c \in todo, UNCHANGED verdict,
             op' = [op EXCEPT ![t] = Walking(root, ids, todo \ {c}, c, c, sure)]
      PROVE  op' \in [Thread -> Ops] /\ verdict' \in [Thread -> BOOLEAN]
  <2>1. Walking(root, ids, todo \ {c}, c, c, sure) \in WalkOps
    BY DEF Walking, WalkOps
  <2> QED BY <1>2, <2>1 DEF TypeOK, Ops
<1> QED BY <1>1, <1>2 DEF Advance

\* The types are inductive by themselves.
LEMMA NextType == TypeOK /\ [Next]_vars => TypeOK'
<1> SUFFICES ASSUME TypeOK, [Next]_vars PROVE TypeOK'
  OBVIOUS
<1>1. CASE UNCHANGED vars
  BY <1>1 DEF vars, TypeOK
<1>2. ASSUME NEW t \in Thread, NEW p \in Cage, NEW c \in Cage, ForkLink(t, p, c)
      PROVE  TypeOK'
  <2>1. Forking(p, c, "rank", 0) \in ForkOps
    BY DEF Forking, ForkOps
  <2> QED BY <1>2, <2>1 DEF ForkLink, TypeOK, Ops, Life
<1>3. ASSUME NEW t \in Thread, ForkRank(t) PROVE TypeOK'
  <2>1. Forking(op[t].parent, op[t].child, "store", Rank(op[t].parent)) \in ForkOps
    BY <1>3, OpTypes DEF ForkRank, Forking, ForkOps, Rank, TypeOK
  <2> QED BY <1>3, <2>1 DEF ForkRank, TypeOK, Ops
<1>4. ASSUME NEW t \in Thread, ForkDepth(t) PROVE TypeOK'
  <2>1. op[t].child \in Cage /\ op[t].d \in Nat
          /\ Forking(op[t].parent, op[t].child, "copy", 0) \in ForkOps
    BY <1>4, OpTypes DEF ForkDepth, Forking, ForkOps
  <2> QED BY <1>4, <2>1 DEF ForkDepth, TypeOK, Ops
<1>5. ASSUME NEW t \in Thread, ForkCopy(t) PROVE TypeOK'
  <2>1. op[t].child \in Cage /\ op[t].parent \in Cage
    BY <1>5, OpTypes DEF ForkCopy, ForkOps
  <2> QED BY <1>5, <2>1 DEF ForkCopy, Offspring, TypeOK, Ops, Life
<1>6. ASSUME NEW t \in Thread, NEW c \in Cage, ExitUnlink(t, c) PROVE TypeOK'
  <2>1. Exiting(c) \in ExitOps
    BY DEF Exiting, ExitOps
  <2> QED BY <1>6, <2>1 DEF ExitUnlink, TypeOK, Ops, Life
<1>7. ASSUME NEW t \in Thread, ExitClear(t) PROVE TypeOK'
  <2>1. op[t].cage \in Cage
    BY <1>7, OpTypes DEF ExitClear, ExitOps
  <2> QED BY <1>7, <2>1 DEF ExitClear, TypeOK, Ops, Life
<1>8. ASSUME NEW t \in Thread, NEW q \in Questions, WalkStart(t, q[1], q[2]) PROVE TypeOK'
  <2>1. q[1] \in Cage /\ q[2] \in SUBSET Cage /\ (q[2] \ {q[1]}) \in SUBSET Cage
    BY LineageOK
  <2>2. (\A c \in q[2] : Alive(c)) \in BOOLEAN
    BY DEF Alive
  <2> QED BY <1>8, <2>1, <2>2, AdvanceType DEF WalkStart, TypeOK
<1>9. ASSUME NEW t \in Thread, WalkHop(t) PROVE TypeOK'
  <2> DEFINE w == op[t]
  <2> DEFINE p == parent[w.cur]
  <2>1. w \in WalkOps
    BY <1>9, OpTypes DEF WalkHop
  <2>2. p \in Cage \cup {NoParent}
    BY <2>1 DEF WalkOps, TypeOK
  <2>3. CASE Answered(t, FALSE)
    BY <1>9, <2>3 DEF WalkHop, Answered, TypeOK, Ops
  <2>4. CASE Advance(t, w.root, w.ids, w.todo, w.sure)
    <3>1. w.root \in Cage /\ w.ids \in SUBSET Cage /\ w.todo \in SUBSET Cage /\ w.sure \in BOOLEAN
      BY <2>1 DEF WalkOps
    <3>2. op' \in [Thread -> Ops] /\ verdict' \in [Thread -> BOOLEAN]
      <4> HIDE DEF w
      <4> QED BY <2>4, <3>1, AdvanceType
    <3> QED BY <1>9, <3>2 DEF WalkHop, TypeOK
  <2>5. CASE /\ p # NoParent /\ UNCHANGED verdict
             /\ op' = [op EXCEPT ![t] = Walking(w.root, w.ids, w.todo, w.id, Climb(t, p), w.sure)]
    <3>1. Walking(w.root, w.ids, w.todo, w.id, Climb(t, p), w.sure) \in WalkOps
      BY <2>1, <2>2, <2>5 DEF Walking, WalkOps, Climb
    <3> QED BY <1>9, <2>5, <3>1 DEF WalkHop, TypeOK, Ops
  <2> QED BY <1>9, <2>3, <2>4, <2>5 DEF WalkHop
<1> QED BY <1>1, <1>2, <1>3, <1>4, <1>5, <1>6, <1>7, <1>8, <1>9 DEF Next, Begin, Proceed

-----------------------------------------------------------------------------
(* The tree                                                                *)

\* Steps after which every living cage still lives with its pointer and set.
LEMMA TreeKept ==
  ASSUME Tree, UNCHANGED <<parent, ancestors>>, \A c \in Cage : Alive(c)' = Alive(c),
         TypeOK
  PROVE  Tree'
<1>1. \A c \in Cage : Alive(c) => Linked(c)' /\ (c # Root => Child(c)')
  BY DEF Tree, Linked, Child, TypeOK
<1> QED BY <1>1, LineageOK DEF Tree

\* Forks add leaves to the tree, and exits remove leaves.
LEMMA NextTree == ~Orphans /\ TypeOK /\ Pending /\ Tree /\ [Next]_vars => Tree'
<1> SUFFICES ASSUME ~Orphans, TypeOK, Pending, Tree, [Next]_vars PROVE Tree'
  OBVIOUS
<1>1. ASSUME UNCHANGED <<parent, ancestors, life>> PROVE Tree'
  BY <1>1, TreeKept DEF Alive
<1>2. CASE UNCHANGED vars
  BY <1>1, <1>2 DEF vars
<1>3. ASSUME NEW t \in Thread, ForkRank(t) \/ ForkDepth(t) \/ WalkHop(t) PROVE Tree'
  BY <1>1, <1>3 DEF ForkRank, ForkDepth, WalkHop
<1>4. ASSUME NEW t \in Thread, NEW q \in Questions, WalkStart(t, q[1], q[2]) PROVE Tree'
  BY <1>1, <1>4 DEF WalkStart
<1>5. ASSUME NEW t \in Thread, NEW p \in Cage, NEW c \in Cage, ForkLink(t, p, c) PROVE Tree'
  <2>1. /\ ~Alive(c) /\ ~Alive(c)' /\ ancestors' = ancestors
        /\ \A d \in Cage : d # c => parent'[d] = parent[d] /\ Alive(d)' = Alive(d)
    BY <1>5 DEF ForkLink, Alive, TypeOK
  <2>2. ASSUME NEW d \in Cage, Alive(d)' PROVE Linked(d)' /\ (d # Root => Child(d)')
    <3>1. Alive(d) /\ d # c
      BY <2>1, <2>2
    <3>2. Linked(d) /\ (d # Root => Child(d))
      BY <3>1 DEF Tree
    <3>3. \A a \in ancestors[d] : a \in Cage
      BY DEF TypeOK
    <3> QED BY <2>1, <3>1, <3>2, <3>3 DEF Linked, Child
  <2> QED BY <2>1, <2>2, LineageOK DEF Tree
<1>6. ASSUME NEW t \in Thread, ForkCopy(t) PROVE Tree'
  <2>1. PICK c \in Cage, p \in Cage : c = op[t].child /\ p = op[t].parent
    BY <1>6, OpTypes DEF ForkCopy, ForkOps
  <2>2. Alive(p) /\ ~Alive(c) /\ parent[c] = p
    BY <1>6, <2>1 DEF ForkCopy, Pending, Alive
  <2>3. /\ parent' = parent /\ ancestors'[c] = ancestors[p] \cup {c} /\ Alive(c)'
        /\ \A d \in Cage : d # c => ancestors'[d] = ancestors[d] /\ Alive(d)' = Alive(d)
    BY <1>6, <2>1 DEF ForkCopy, Offspring, Alive, TypeOK
  <2>4. ASSUME NEW d \in Cage, Alive(d), d # c PROVE Linked(d)' /\ (d # Root => Child(d)')
    <3>1. Linked(d) /\ (d # Root => Child(d))
      BY <2>4 DEF Tree
    <3>2. \A a \in ancestors[d] : a \in Cage /\ a # c
      BY <2>2, <3>1 DEF TypeOK, Linked
    <3> QED BY <2>2, <2>3, <2>4, <3>1, <3>2 DEF Linked, Child
  <2>5. Linked(p) /\ c \notin ancestors[p] /\ ancestors[p] \subseteq Cage /\ c # p
    BY <2>1, <2>2 DEF Tree, Linked, TypeOK
  <2>6. Child(c)'
    BY <2>1, <2>2, <2>3, <2>5 DEF Child
  <2>7. Linked(c)'
    <3>1. \A a \in ancestors'[c] : Alive(a)'
      BY <2>3, <2>5 DEF Linked
    <3>2. ASSUME NEW a \in ancestors'[c], a # c
          PROVE  \E k \in ancestors'[c] : Alive(k)' /\ parent'[k] = a
      <4>1. a \in ancestors[p]
        BY <2>3, <3>2
      <4>2. CASE a = p
        BY <2>2, <2>3, <4>2
      <4>3. CASE a # p
        <5>1. PICK k \in ancestors[p] : Alive(k) /\ parent[k] = a
          BY <2>5, <4>1, <4>3 DEF Linked
        <5> QED BY <2>3, <2>5, <5>1
      <4> QED BY <4>2, <4>3
    <3> QED BY <2>3, <3>1, <3>2 DEF Linked
  <2>8. c # Root
    BY <2>2 DEF Tree
  <2> QED BY <2>3, <2>4, <2>6, <2>7, <2>8, LineageOK DEF Tree
<1>7. ASSUME NEW t \in Thread, NEW c \in Cage, ExitUnlink(t, c) PROVE Tree'
  <2>1. /\ ~Alive(c)' /\ ancestors' = ancestors /\ c # Root
        /\ \A d \in Cage : d # c => parent'[d] = parent[d] /\ Alive(d)' = Alive(d)
        /\ \A d \in Cage : Alive(d) => parent[d] # c
    BY <1>7 DEF ExitUnlink, Alive, TypeOK
  <2>2. ASSUME NEW d \in Cage, Alive(d)' PROVE Linked(d)' /\ (d # Root => Child(d)')
    <3>1. Alive(d) /\ d # c
      BY <2>1, <2>2
    <3>2. Linked(d) /\ (d # Root => Child(d)) /\ ancestors[d] \subseteq Cage
      BY <3>1 DEF Tree, TypeOK
    <3>3. c \notin ancestors[d]
      BY <2>1, <3>1, <3>2 DEF Linked
    <3>4. \A a \in ancestors[d] : Alive(a)' /\ parent'[a] = parent[a]
      BY <2>1, <3>2, <3>3 DEF Linked
    <3>5. Linked(d)'
      BY <2>1, <3>2, <3>4 DEF Linked
    <3>6. d # Root => Child(d)'
      BY <2>1, <3>1, <3>2 DEF Child
    <3> QED BY <3>5, <3>6
  <2> QED BY <2>1, <2>2, LineageOK DEF Tree
<1>8. ASSUME NEW t \in Thread, ExitClear(t) PROVE Tree'
  <2>1. PICK c \in Cage : c = op[t].cage
    BY <1>8, OpTypes DEF ExitClear, ExitOps
  <2>2. ~Alive(c)
    BY <1>8, <2>1 DEF ExitClear, Pending, Alive
  <2>3. /\ parent' = parent /\ ~Alive(c)'
        /\ \A d \in Cage : d # c => ancestors'[d] = ancestors[d] /\ Alive(d)' = Alive(d)
    BY <1>8, <2>1 DEF ExitClear, Alive, TypeOK
  <2>4. ASSUME NEW d \in Cage, Alive(d)' PROVE Linked(d)' /\ (d # Root => Child(d)')
    <3>1. Alive(d) /\ d # c
      BY <2>3, <2>4
    <3>2. Linked(d) /\ (d # Root => Child(d)) /\ ancestors[d] \subseteq Cage
      BY <3>1 DEF Tree, TypeOK
    <3>3. \A a \in ancestors[d] : a # c
      BY <2>2, <3>2 DEF Linked
    <3>4. Linked(d)'
      BY <2>3, <3>1, <3>2, <3>3 DEF Linked
    <3>5. d # Root => Child(d)'
      BY <2>2, <2>3, <3>1, <3>2 DEF Child
    <3> QED BY <3>4, <3>5
  <2> QED BY <2>1, <2>2, <2>3, <2>4, LineageOK DEF Tree
<1> QED BY <1>2, <1>3, <1>4, <1>5, <1>6, <1>7, <1>8 DEF Next, Begin, Proceed

-----------------------------------------------------------------------------
(* Forks and exits in progress                                             *)

\* Operations in progress keep what they know.
LEMMA NextPending == TypeOK /\ Pending /\ [Next]_vars => Pending'
<1> SUFFICES ASSUME TypeOK, Pending, [Next]_vars PROVE Pending'
  OBVIOUS
<1>1. CASE UNCHANGED vars
  BY <1>1 DEF vars, Pending, Alive
<1>2. ASSUME NEW t \in Thread, NEW p \in Cage, NEW c \in Cage, ForkLink(t, p, c)
      PROVE  Pending'
  <2>1. /\ op' = [op EXCEPT ![t] = Forking(p, c, "rank", 0)]
        /\ life' = [life EXCEPT ![c] = "forking"] /\ parent' = [parent EXCEPT ![c] = p]
        /\ life[c] \in {"fresh", "exited"} /\ Alive(p) /\ op[t] = Idle
    BY <1>2 DEF ForkLink
  <2>2. /\ op'[t].name = "fork" /\ op'[t].parent = p /\ op'[t].child = c
        /\ \A u \in Thread : u # t => op'[u] = op[u]
    BY <2>1 DEF Forking, TypeOK
  <2>3. /\ life'[c] = "forking" /\ parent'[c] = p
        /\ \A d \in Cage : d # c => life'[d] = life[d] /\ parent'[d] = parent[d]
    BY <2>1 DEF TypeOK
  <2>4. \A u \in Thread : op[u].name = "fork" => op[u].child # c /\ op[u].parent # c
                                                /\ op[u].child \in Cage /\ op[u].parent \in Cage
    BY <2>1, OpTypes DEF Pending, Alive, ForkOps
  <2>5. \A u \in Thread : op[u].name = "exit" => op[u].cage # c /\ op[u].cage \in Cage
    BY <2>1, OpTypes DEF Pending, ExitOps
  <2> QED BY <2>1, <2>2, <2>3, <2>4, <2>5 DEF Pending, Alive
<1>3. ASSUME NEW t \in Thread, ForkRank(t) \/ ForkDepth(t) PROVE Pending'
  <2>1. op[t].name = "fork" /\ UNCHANGED <<parent, life>>
    BY <1>3 DEF ForkRank, ForkDepth
  <2>2. op'[t].name = "fork" /\ op'[t].parent = op[t].parent /\ op'[t].child = op[t].child
          /\ \A u \in Thread : u # t => op'[u] = op[u]
    BY <1>3 DEF ForkRank, ForkDepth, Forking, TypeOK
  <2> QED BY <2>1, <2>2 DEF Pending, Alive
<1>4. ASSUME NEW t \in Thread, ForkCopy(t) PROVE Pending'
  <2>1. PICK c \in Cage : c = op[t].child
    BY <1>4, OpTypes DEF ForkCopy, ForkOps
  <2>2. /\ op'[t].name = "idle" /\ op[t].name = "fork" /\ parent' = parent
        /\ \A u \in Thread : u # t => op'[u] = op[u]
        /\ life'[c] = "alive" /\ \A d \in Cage : d # c => life'[d] = life[d]
    BY <1>4, <2>1 DEF ForkCopy, Idle, TypeOK
  <2>3. \A u \in Thread \ {t} : op[u].name = "fork" =>
          op[u].child # c /\ op[u].child \in Cage /\ op[u].parent \in Cage
    BY <2>1, <2>2, OpTypes DEF Pending, ForkOps
  <2>4. \A u \in Thread : op[u].name = "exit" => op[u].cage # c /\ op[u].cage \in Cage
    BY <2>1, <2>2, OpTypes DEF Pending, ExitOps
  <2> QED BY <2>2, <2>3, <2>4 DEF Pending, Alive
<1>5. ASSUME NEW t \in Thread, NEW c \in Cage, ExitUnlink(t, c) PROVE Pending'
  <2>1. /\ op'[t].name = "exit" /\ op'[t].cage = c
        /\ \A u \in Thread : u # t => op'[u] = op[u]
        /\ life'[c] = "exiting" /\ Alive(c) /\ ~Forks(c)
        /\ \A d \in Cage : d # c => life'[d] = life[d] /\ parent'[d] = parent[d]
    BY <1>5 DEF ExitUnlink, Exiting, TypeOK
  <2>2. \A u \in Thread : op[u].name = "fork" => op[u].child # c /\ op[u].parent # c
                                                /\ op[u].child \in Cage /\ op[u].parent \in Cage
    BY <2>1, OpTypes DEF Pending, Alive, Forks, ForkOps
  <2>3. \A u \in Thread : op[u].name = "exit" => op[u].cage # c /\ op[u].cage \in Cage
    BY <2>1, OpTypes DEF Pending, Alive, ExitOps
  <2> QED BY <2>1, <2>2, <2>3 DEF Pending, Alive
<1>6. ASSUME NEW t \in Thread, ExitClear(t) PROVE Pending'
  <2>1. PICK c \in Cage : c = op[t].cage
    BY <1>6, OpTypes DEF ExitClear, ExitOps
  <2>2. /\ op'[t].name = "idle" /\ op[t].name = "exit" /\ parent' = parent
        /\ \A u \in Thread : u # t => op'[u] = op[u]
        /\ life[c] = "exiting" /\ \A d \in Cage : d # c => life'[d] = life[d]
    BY <1>6, <2>1 DEF ExitClear, Idle, TypeOK, Pending
  <2>3. \A u \in Thread : op[u].name = "fork" => op[u].child # c /\ op[u].parent # c
                                                /\ op[u].child \in Cage /\ op[u].parent \in Cage
    BY <2>2, OpTypes DEF Pending, Alive, ForkOps
  <2>4. \A u \in Thread \ {t} : op[u].name = "exit" => op[u].cage # c /\ op[u].cage \in Cage
    BY <2>1, <2>2, OpTypes DEF Pending, ExitOps
  <2> QED BY <2>2, <2>3, <2>4 DEF Pending, Alive
<1>7. ASSUME NEW t \in Thread, op[t].name \in {"idle", "walk"}, op'[t].name \in {"idle", "walk"},
             \A u \in Thread : u # t => op'[u] = op[u], UNCHANGED <<parent, life>>
      PROVE  Pending'
  BY <1>7 DEF Pending, Alive
<1>8. ASSUME NEW t \in Thread, NEW q \in Questions, WalkStart(t, q[1], q[2]) PROVE Pending'
  <2>1. op'[t].name \in {"idle", "walk"} /\ \A u \in Thread : u # t => op'[u] = op[u]
    BY <1>8 DEF WalkStart, Advance, Answered, Idle, Walking, TypeOK
  <2> QED BY <1>7, <1>8, <2>1 DEF WalkStart, Idle
<1>9. ASSUME NEW t \in Thread, WalkHop(t) PROVE Pending'
  <2>1. op'[t].name \in {"idle", "walk"} /\ \A u \in Thread : u # t => op'[u] = op[u]
    BY <1>9 DEF WalkHop, Advance, Answered, Idle, Walking, TypeOK
  <2> QED BY <1>7, <1>9, <2>1 DEF WalkHop
<1> QED BY <1>1, <1>2, <1>3, <1>4, <1>5, <1>6, <1>8, <1>9 DEF Next, Begin, Proceed

\* A fork stays some thread's work until the child lives.
LEMMA NextExpected == TypeOK /\ Pending /\ Expected /\ [Next]_vars => Expected'
<1> SUFFICES ASSUME TypeOK, Pending, Expected, [Next]_vars PROVE Expected'
  OBVIOUS
<1>1. CASE UNCHANGED vars
  BY <1>1 DEF vars, Expected
<1>2. ASSUME NEW t \in Thread, op[t].name # "fork" \/ life'[op[t].child] # "forking",
             \A u \in Thread : u # t => op'[u] = op[u],
             \A c \in Cage : life'[c] = "forking" => life[c] = "forking"
      PROVE  Expected'
  BY <1>2 DEF Expected
<1>3. ASSUME NEW t \in Thread, NEW p \in Cage, NEW c \in Cage, ForkLink(t, p, c)
      PROVE  Expected'
  <2>1. /\ op[t].name # "fork" /\ op'[t].name = "fork" /\ op'[t].child = c
        /\ \A u \in Thread : u # t => op'[u] = op[u]
        /\ \A d \in Cage : d # c => life'[d] = life[d]
    BY <1>3 DEF ForkLink, Forking, Idle, TypeOK
  <2> QED BY <2>1 DEF Expected
<1>4. ASSUME NEW t \in Thread, ForkRank(t) \/ ForkDepth(t) PROVE Expected'
  <2>1. op'[t].name = "fork" /\ op'[t].child = op[t].child
          /\ \A u \in Thread : u # t => op'[u] = op[u]
    BY <1>4 DEF ForkRank, ForkDepth, Forking, TypeOK
  <2> QED BY <1>4, <2>1 DEF ForkRank, ForkDepth, Expected
<1>5. ASSUME NEW t \in Thread, ForkCopy(t) PROVE Expected'
  <2>1. op[t].child \in Cage
    BY <1>5, OpTypes DEF ForkCopy, ForkOps
  <2> QED BY <1>2, <1>5, <2>1 DEF ForkCopy, TypeOK
<1>6. ASSUME NEW t \in Thread, NEW c \in Cage, ExitUnlink(t, c) PROVE Expected'
  BY <1>2, <1>6 DEF ExitUnlink, Idle, TypeOK
<1>7. ASSUME NEW t \in Thread, ExitClear(t) PROVE Expected'
  BY <1>2, <1>7 DEF ExitClear, TypeOK
<1>8. ASSUME NEW t \in Thread, NEW q \in Questions, WalkStart(t, q[1], q[2]) PROVE Expected'
  <2>1. op[t].name # "fork"
    BY <1>8 DEF WalkStart, Idle
  <2>2. \A u \in Thread : u # t => op'[u] = op[u]
    BY <1>8 DEF WalkStart, Advance, Answered, TypeOK
  <2> QED BY <1>2, <1>8, <2>1, <2>2 DEF WalkStart
<1>9. ASSUME NEW t \in Thread, WalkHop(t) PROVE Expected'
  <2>1. op[t].name # "fork" /\ \A u \in Thread : u # t => op'[u] = op[u]
    BY <1>9 DEF WalkHop, Advance, Answered, TypeOK
  <2> QED BY <1>2, <1>9, <2>1 DEF WalkHop
<1> QED BY <1>1, <1>3, <1>4, <1>5, <1>6, <1>7, <1>8, <1>9 DEF Next, Begin, Proceed

\* Only ForkLink gives a cage a pointer, only ForkCopy a set.
LEMMA NextBare == TypeOK /\ Pending /\ Bare /\ [Next]_vars => Bare'
<1> SUFFICES ASSUME TypeOK, Pending, Bare, [Next]_vars PROVE Bare'
  OBVIOUS
<1>1. ASSUME UNCHANGED <<parent, ancestors, life>> PROVE Bare'
  BY <1>1 DEF Bare, Coming
<1>2. CASE UNCHANGED vars
  BY <1>1, <1>2 DEF vars
<1>3. ASSUME NEW t \in Thread, ForkRank(t) \/ ForkDepth(t) \/ WalkHop(t) PROVE Bare'
  BY <1>1, <1>3 DEF ForkRank, ForkDepth, WalkHop
<1>4. ASSUME NEW t \in Thread, NEW q \in Questions, WalkStart(t, q[1], q[2]) PROVE Bare'
  BY <1>1, <1>4 DEF WalkStart
<1>5. ASSUME NEW t \in Thread, NEW p \in Cage, NEW c \in Cage, ForkLink(t, p, c) PROVE Bare'
  BY <1>5 DEF ForkLink, Bare, Coming, TypeOK
<1>6. ASSUME NEW t \in Thread, NEW c \in Cage, ExitUnlink(t, c) PROVE Bare'
  BY <1>6 DEF ExitUnlink, Bare, Coming, TypeOK
<1>7. ASSUME NEW t \in Thread, ForkCopy(t) PROVE Bare'
  <2>1. op[t].child \in Cage /\ life[op[t].child] = "forking"
    BY <1>7, OpTypes DEF ForkCopy, ForkOps, Pending
  <2> QED BY <1>7, <2>1 DEF ForkCopy, Bare, Coming, TypeOK
<1>8. ASSUME NEW t \in Thread, ExitClear(t) PROVE Bare'
  <2>1. op[t].cage \in Cage /\ life[op[t].cage] = "exiting"
    BY <1>8, OpTypes DEF ExitClear, ExitOps, Pending
  <2> QED BY <1>8, <2>1 DEF ExitClear, Bare, Coming, TypeOK
<1> QED BY <1>2, <1>3, <1>4, <1>5, <1>6, <1>7, <1>8 DEF Next, Begin, Proceed

-----------------------------------------------------------------------------
(* Walks                                                                   *)

\* A cage that lives or is being forked hangs below a living one, or is the root.
LEMMA Hangs ==
  ASSUME TypeOK, Pending, Expected, Tree, NEW c \in Coming
  PROVE  /\ c \in Cage /\ c \in Line[c] /\ Root \in Coming
         /\ c = Root => parent[c] = NoParent /\ Line[c] = {Root}
         /\ c # Root => /\ parent[c] \in Cage /\ Alive(parent[c]) /\ parent[c] \in Coming
                        /\ Line[c] = Line[parent[c]] \cup {c} /\ parent[c] \in Line[parent[c]]
<1>1. c \in Cage
  BY DEF Coming
<1>2. Alive(Root) /\ parent[Root] = NoParent /\ Line[Root] = {Root}
  BY LineageOK DEF Tree, Line
<1>3. ASSUME NEW p \in Cage, Alive(p) PROVE p \in Coming /\ Line[p] = ancestors[p] /\ p \in Line[p]
  BY <1>3 DEF Coming, Alive, Line, Tree, Linked
<1>4. CASE Alive(c)
  <2>1. c # Root => Child(c)
    BY <1>1, <1>4 DEF Tree
  <2> QED BY <1>1, <1>2, <1>3, <1>4, <2>1, LineageOK DEF Child
<1>5. CASE ~Alive(c)
  <2>1. PICK t \in Thread : op[t].name = "fork" /\ op[t].child = c
    BY <1>1, <1>5 DEF Coming, Alive, Expected
  <2>2. op[t].parent \in Cage /\ Alive(op[t].parent) /\ parent[c] = op[t].parent
    BY <2>1, OpTypes DEF ForkOps, Pending
  <2>3. Line[c] = ancestors[parent[c]] \cup {c}
    BY <1>1, <1>5 DEF Line
  <2> QED BY <1>1, <1>2, <1>3, <1>5, <2>2, <2>3, LineageOK
<1> QED BY <1>4, <1>5

\* Another thread's fork or exit does not reach under a walk.
LEMMA WaysKept ==
  ASSUME TypeOK, Ways, NEW t \in Thread, op'[t].name # "walk",
         \A u \in Thread : u # t => op'[u] = op[u],
         \A c \in Cage : Alive(c) => Alive(c)',
         Coming' = Coming, \A c \in Coming : Line'[c] = Line[c]
  PROVE  Ways'
<1>1. ASSUME NEW u \in Thread, op'[u].name = "walk" PROVE Way(op[u])'
  <2>1. op'[u] = op[u] /\ op[u] \in WalkOps /\ Way(op[u])
    BY <1>1, OpTypes DEF Ways, Walker
  <2>2. op[u].id \in Cage /\ op[u].cur \in Cage /\ op[u].ids \subseteq Cage
    BY <2>1 DEF WalkOps
  <2> QED BY <2>1, <2>2 DEF Way, Inside
<1> QED BY <1>1 DEF Ways, Walker

\* The next id of the batch.
LEMMA AdvanceWay ==
  ASSUME TypeOK, Ways, UNCHANGED <<parent, ancestors, life>>, NEW t \in Thread,
         NEW root \in Cage, NEW ids \in SUBSET Cage, NEW todo \in SUBSET ids,
         NEW sure \in BOOLEAN, root \notin todo, sure => \A c \in ids : Alive(c),
         \A c \in ids \ todo : Inside(root, c),
         Advance(t, root, ids, todo, sure)
  PROVE  Ways'
<1>1. Coming' = Coming /\ Line' = Line /\ \A c \in Cage : Alive(c)' = Alive(c)
  BY DEF Coming, Line, Alive
<1>2. \A u \in Thread : u # t => op'[u] = op[u]
  BY DEF Advance, Answered, TypeOK
<1>3. CASE todo = {} /\ Answered(t, TRUE)
  BY <1>1, <1>2, <1>3, WaysKept DEF Answered, Idle, TypeOK
<1>4. ASSUME NEW c \in todo, op' = [op EXCEPT ![t] = Walking(root, ids, todo \ {c}, c, c, sure)]
      PROVE  Ways'
  <2> DEFINE w == Walking(root, ids, todo \ {c}, c, c, sure)
  <2>1. op'[t] = w
    BY <1>4 DEF TypeOK
  <2>2. w.id = c /\ w.cur = c /\ w.ids = ids /\ w.todo = todo \ {c} /\ w.root = root /\ w.sure = sure
    BY DEF Walking
  <2> HIDE DEF w
  <2>3. Way(op[t])'
    BY <1>1, <2>1, <2>2 DEF Way, Inside, Coming
  <2>4. ASSUME NEW u \in Thread, u # t, op[u].name = "walk" PROVE Way(op[u])'
    <3>1. op'[u] = op[u] /\ op[u] \in WalkOps /\ Way(op[u])
      BY <1>2, <2>4, OpTypes DEF Ways, Walker
    <3>2. op[u].ids \subseteq Cage
      BY <3>1 DEF WalkOps
    <3> QED BY <1>1, <3>1, <3>2 DEF Way, Inside
  <2> QED BY <1>2, <2>3, <2>4 DEF Ways, Walker
<1> QED BY <1>3, <1>4 DEF Advance

\* One hop up: at the top the id is outside, at the root it is inside.
LEMMA Hop ==
  ASSUME TypeOK, Pending, Expected, Bare, Tree, NEW t \in Thread, op[t].name = "walk", Way(op[t])
  PROVE  LET w == op[t]
             p == parent[w.cur]
         IN  /\ p = NoParent => ~Inside(w.root, w.id)
             /\ p # NoParent => /\ w.id \in Coming /\ p \in Coming
                                /\ w.root \in Line[w.id] <=> w.root \in Line[p]
                                /\ p = w.root => Inside(w.root, w.id)
<1> DEFINE w == op[t]
<1> DEFINE p == parent[w.cur]
<1>1. CASE w.id \in Coming
  <2>1. /\ w.cur \in Coming /\ w.cur # w.root /\ w.id # w.root
        /\ w.root \in Line[w.id] <=> w.root \in Line[w.cur]
    BY <1>1 DEF Way
  <2>2. w.cur = Root => p = NoParent /\ Line[w.cur] = {Root}
    BY <2>1, Hangs
  <2>3. w.cur # Root => /\ p \in Cage /\ p # NoParent /\ p \in Coming /\ p \in Line[p]
                        /\ Line[w.cur] = Line[p] \cup {w.cur}
    BY <2>1, Hangs, LineageOK
  <2> HIDE DEF w, p
  <2> QED BY <1>1, <2>1, <2>2, <2>3 DEF w, p, Inside
<1>2. CASE w.id \notin Coming
  <2>1. w.cur = w.id /\ w.id # w.root /\ w.id \in Cage
    BY <1>2, OpTypes DEF Way, WalkOps
  <2> QED BY <1>2, <2>1 DEF Bare, Inside
<1> QED BY <1>1, <1>2

\* The end of a fork or an exit is nothing new to the cages that live or will.
LEMMA Completed ==
  ASSUME TypeOK, Pending, Expected, Tree, NEW t \in Thread, ForkCopy(t) \/ ExitClear(t)
  PROVE  /\ Coming' = Coming /\ \A d \in Coming : Line'[d] = Line[d]
         /\ \A d \in Cage : Alive(d) => Alive(d)' /\ ancestors'[d] = ancestors[d]
         /\ \A d \in Cage : life'[d] = "exiting" => life[d] = "exiting"
<1>1. PICK c \in Cage : c = IF op[t].name = "fork" THEN op[t].child ELSE op[t].cage
  BY OpTypes DEF ForkCopy, ExitClear, ForkOps, ExitOps
<1>2. /\ ~Alive(c) /\ parent' = parent /\ life'[c] # "exiting"
      /\ \A d \in Cage : d # c => life'[d] = life[d] /\ ancestors'[d] = ancestors[d]
  BY <1>1 DEF ForkCopy, ExitClear, Pending, Alive, TypeOK
<1>3. c \in Coming <=> c \in Coming'
  BY <1>1 DEF ForkCopy, ExitClear, Pending, Coming, TypeOK
<1>4. c \in Coming => Line'[c] = Line[c]
  BY <1>1 DEF ForkCopy, ExitClear, Pending, Coming, Line, Alive, Offspring, TypeOK
<1>5. ASSUME NEW d \in Coming, d # c PROVE Line'[d] = Line[d]
  <2>1. d \in Cage /\ parent[d] # c
    BY <1>2, Hangs, LineageOK
  <2>2. parent[d] \in Cage \/ Alive(d)
    BY Hangs DEF Tree
  <2> QED BY <1>2, <1>5, <2>1, <2>2 DEF Line, Alive
<1>6. Coming' = Coming
  BY <1>2, <1>3 DEF Coming
<1> QED BY <1>2, <1>4, <1>5, <1>6 DEF Alive

\* A cage that lives or is being forked keeps its set until it begins to exit.
LEMMA Lasting ==
  ASSUME TypeOK, Pending, Expected, Tree, [Next]_vars, NEW c \in Cage, life'[c] # "exiting"
  PROVE  /\ c \in Coming => c \in Coming' /\ Line'[c] = Line[c]
         /\ Alive(c) => Alive(c)' /\ ancestors'[c] = ancestors[c]
<1>1. ASSUME UNCHANGED <<parent, ancestors, life>>
      PROVE  Coming' = Coming /\ Line' = Line /\ ancestors' = ancestors /\ Alive(c)' = Alive(c)
  BY <1>1 DEF Coming, Line, Alive
<1>2. CASE UNCHANGED vars
  BY <1>1, <1>2 DEF vars
<1>3. ASSUME NEW t \in Thread, ForkRank(t) \/ ForkDepth(t) \/ WalkHop(t)
      PROVE  UNCHANGED <<parent, ancestors, life>>
  BY <1>3 DEF ForkRank, ForkDepth, WalkHop
<1>4. ASSUME NEW t \in Thread, NEW q \in Questions, WalkStart(t, q[1], q[2])
      PROVE  UNCHANGED <<parent, ancestors, life>>
  BY <1>4 DEF WalkStart
<1>5. ASSUME NEW t \in Thread, NEW d \in Cage,
             ExitUnlink(t, d) \/ \E p \in Cage : ForkLink(t, p, d)
      PROVE  /\ c \in Coming => c \in Coming' /\ Line'[c] = Line[c]
             /\ Alive(c) => Alive(c)' /\ ancestors'[c] = ancestors[c]
  <2>1. /\ ancestors' = ancestors
        /\ \A x \in Cage : x # d => parent'[x] = parent[x] /\ life'[x] = life[x]
        /\ life'[d] = "exiting" \/ life[d] \in {"fresh", "exited"}
    BY <1>5 DEF ExitUnlink, ForkLink, TypeOK
  <2> QED BY <2>1 DEF Coming, Line, Alive
<1> QED BY <1>1, <1>2, <1>3, <1>4, <1>5, Completed DEF Next, Begin, Proceed

\* Walks stay on their way.
LEMMA NextWays ==
  ASSUME ~Orphans, TypeOK, Pending, Expected, Bare, Tree, Ways, [Next]_vars PROVE Ways'
<1>1. CASE UNCHANGED vars
  BY <1>1 DEF vars, Ways, Walker, Way, Inside, Alive, Coming, Line
<1>2. ASSUME NEW t \in Thread, NEW c \in Cage,
             ExitUnlink(t, c) \/ \E p \in Cage : ForkLink(t, p, c)
      PROVE  Ways'
  <2>1. Walker = {} /\ op'[t].name # "walk" /\ \A u \in Thread : u # t => op'[u] = op[u]
    BY <1>2 DEF ExitUnlink, ForkLink, Forking, Exiting, TypeOK
  <2> QED BY <2>1 DEF Ways, Walker
<1>3. ASSUME NEW t \in Thread, ForkRank(t) \/ ForkDepth(t) PROVE Ways'
  <2>1. op'[t].name # "walk" /\ \A u \in Thread : u # t => op'[u] = op[u]
    BY <1>3 DEF ForkRank, ForkDepth, Forking, TypeOK
  <2> QED BY <1>3, <2>1, WaysKept DEF ForkRank, ForkDepth, Alive, Coming, Line
<1>4. ASSUME NEW t \in Thread, ForkCopy(t) \/ ExitClear(t) PROVE Ways'
  <2>1. op'[t].name # "walk" /\ \A u \in Thread : u # t => op'[u] = op[u]
    BY <1>4 DEF ForkCopy, ExitClear, Idle, TypeOK
  <2> QED BY <1>4, <2>1, Completed, WaysKept
<1>5. ASSUME NEW t \in Thread, NEW q \in Questions, WalkStart(t, q[1], q[2]) PROVE Ways'
  <2>1. PICK root \in Cage, ids \in SUBSET Cage : root = q[1] /\ ids = q[2]
    BY LineageOK
  <2>2. PICK sure \in BOOLEAN : sure = \A c \in ids : Alive(c)
    OBVIOUS
  <2>3. Advance(t, root, ids, ids \ {root}, sure) /\ UNCHANGED <<parent, ancestors, life>>
    BY <1>5, <2>1, <2>2 DEF WalkStart
  <2>4. \A c \in ids \ (ids \ {root}) : Inside(root, c)
    BY DEF Inside
  <2> QED BY <2>2, <2>3, <2>4, AdvanceWay
<1>6. ASSUME NEW t \in Thread, WalkHop(t) PROVE Ways'
  <2>1. op[t].name = "walk" /\ op[t] \in WalkOps /\ Way(op[t])
    BY <1>6, OpTypes DEF WalkHop, Ways, Walker
  <2>2. PICK root \in Cage, ids \in SUBSET Cage, todo \in SUBSET Cage, id \in Cage,
             cur \in Cage, sure \in BOOLEAN :
          /\ root = op[t].root /\ ids = op[t].ids /\ todo = op[t].todo /\ id = op[t].id
          /\ cur = op[t].cur /\ sure = op[t].sure
    BY <2>1 DEF WalkOps
  <2>3. PICK p \in Cage \cup {NoParent} : p = parent[cur]
    BY DEF TypeOK
  <2>4. /\ UNCHANGED <<parent, ancestors, life>>
        /\ Coming' = Coming /\ Line' = Line /\ \A c \in Cage : Alive(c)' = Alive(c)
    BY <1>6 DEF WalkHop, Coming, Line, Alive
  <2>5. p # NoParent => /\ id \in Coming /\ p \in Coming
                        /\ root \in Line[id] <=> root \in Line[p]
                        /\ p = root => Inside(root, id)
    BY <2>1, <2>2, <2>3, Hop
  <2>6. CASE Answered(t, FALSE)
    <3>1. op'[t].name # "walk" /\ \A u \in Thread : u # t => op'[u] = op[u]
      BY <2>6 DEF Answered, Idle, TypeOK
    <3> QED BY <2>4, <3>1, WaysKept
  <2>7. CASE p = root /\ p # NoParent /\ Advance(t, root, ids, todo, sure)
    <3>1. /\ todo \in SUBSET ids /\ root \notin todo
          /\ sure => \A c \in ids : Alive(c)
          /\ \A c \in ids \ todo : Inside(root, c)
      BY <2>1, <2>2, <2>5, <2>7 DEF Way
    <3> QED BY <2>4, <2>7, <3>1, AdvanceWay
  <2>8. CASE /\ p # root /\ p # NoParent
             /\ op' = [op EXCEPT ![t] = Walking(root, ids, todo, id, p, sure)]
    <3> DEFINE w == Walking(root, ids, todo, id, p, sure)
    <3>1. op'[t] = w /\ \A u \in Thread : u # t => op'[u] = op[u]
      BY <2>8 DEF TypeOK
    <3>2. w.id = id /\ w.cur = p /\ w.ids = ids /\ w.todo = todo /\ w.root = root /\ w.sure = sure
      BY DEF Walking
    <3> HIDE DEF w
    <3>3. Way(op[t])'
      BY <2>1, <2>2, <2>4, <2>5, <2>8, <3>1, <3>2 DEF Way, Inside
    <3>4. ASSUME NEW u \in Thread, u # t, op[u].name = "walk" PROVE Way(op[u])'
      <4>1. op'[u] = op[u] /\ op[u] \in WalkOps /\ Way(op[u])
        BY <3>1, <3>4, OpTypes DEF Ways, Walker
      <4>2. op[u].ids \subseteq Cage
        BY <4>1 DEF WalkOps
      <4> QED BY <2>4, <4>1, <4>2 DEF Way, Inside
    <3> QED BY <3>1, <3>3, <3>4 DEF Ways, Walker
  <2> QED BY <1>6, <2>2, <2>3, <2>6, <2>7, <2>8 DEF WalkHop, Climb
<1> QED BY <1>1, <1>2, <1>3, <1>4, <1>5, <1>6 DEF Next, Begin, Proceed

-----------------------------------------------------------------------------
(* The theorems                                                            *)

\* The invariant is inductive where no cage outlives its parent.
LEMMA NextInv == ~Orphans /\ Inv /\ [Next]_vars => Inv'
  BY NextType, NextPending, NextExpected, NextBare, NextTree, NextWays DEF Inv

\* A walk that ends answers whether every id is inside the root's subtree.
LEMMA Exact ==
  ASSUME Inv, NEW t \in Thread, WalkHop(t), op'[t].name # "walk"
  PROVE  /\ verdict'[t] \in BOOLEAN /\ verdict' = [verdict EXCEPT ![t] = verdict'[t]]
         /\ op' = [op EXCEPT ![t] = Idle]
         /\ verdict'[t] <=> \A c \in op[t].ids : Inside(op[t].root, c)
<1>1. /\ TypeOK /\ op[t] \in WalkOps /\ op[t].name = "walk" /\ Way(op[t])
  BY OpTypes DEF WalkHop, Inv, Ways, Walker
<1>2. PICK root \in Cage, ids \in SUBSET Cage, todo \in SUBSET Cage, id \in Cage, cur \in Cage :
        /\ root = op[t].root /\ ids = op[t].ids /\ todo = op[t].todo /\ id = op[t].id
        /\ cur = op[t].cur
  BY <1>1 DEF WalkOps
<1>3. PICK p \in Cage \cup {NoParent} : p = parent[cur]
  BY <1>1 DEF TypeOK
<1>4. /\ p = NoParent => ~Inside(root, id)
      /\ p # NoParent /\ p = root => Inside(root, id)
  BY <1>1, <1>2, <1>3, Hop DEF Inv
<1>5. id \in ids /\ \A c \in ids \ (todo \cup {id}) : Inside(root, c)
  BY <1>1, <1>2 DEF Way
<1>6. ASSUME NEW ok \in BOOLEAN, Answered(t, ok)
      PROVE  verdict'[t] = ok /\ verdict' = [verdict EXCEPT ![t] = ok] /\ op' = [op EXCEPT ![t] = Idle]
  BY <1>1, <1>6 DEF Answered, TypeOK
<1>7. CASE p = NoParent /\ Answered(t, FALSE)
  BY <1>2, <1>4, <1>5, <1>6, <1>7
<1>8. CASE p # NoParent /\ p = root /\ Advance(t, root, ids, todo, op[t].sure)
  <2>1. ASSUME NEW c \in todo,
               op' = [op EXCEPT ![t] = Walking(root, ids, todo \ {c}, c, c, op[t].sure)]
        PROVE  FALSE
    BY <1>1, <2>1 DEF Walking, TypeOK
  <2>2. todo = {} /\ Answered(t, TRUE)
    BY <1>8, <2>1 DEF Advance
  <2>3. \A c \in ids : Inside(root, c)
    BY <1>4, <1>5, <1>8, <2>2
  <2> QED BY <1>2, <1>6, <2>2, <2>3
<1>9. CASE /\ p # NoParent /\ p # root
           /\ op' = [op EXCEPT ![t] = Walking(root, ids, todo, id, Climb(t, p), op[t].sure)]
  BY <1>1, <1>9 DEF Walking, TypeOK
<1> QED BY <1>2, <1>3, <1>7, <1>8, <1>9 DEF WalkHop

\* A walk over living cages that ends gives the verdict of the bitset check.
LEMMA NextVerdict ==
  ASSUME ~Orphans, Inv, Next, NEW t \in Thread,
         op[t].name = "walk", op'[t].name # "walk", op[t].sure
  PROVE  verdict'[t] = InSubtreeBits(op[t].root, op[t].ids)
<1>1. /\ TypeOK /\ op[t] \in WalkOps /\ Way(op[t])
  BY OpTypes DEF Inv, Ways, Walker
<1>2. WalkHop(t)
  <2>1. ASSUME NEW u \in Thread, u # t, Begin(u) \/ Proceed(u) PROVE op'[t] = op[t]
    BY <1>1, <2>1 DEF Begin, Proceed, ForkLink, ForkRank, ForkDepth, ForkCopy, ExitUnlink,
       ExitClear, WalkStart, WalkHop, Advance, Answered, TypeOK
  <2>2. ~Begin(t)
    <3>1. op[t] # Idle
      BY DEF Idle
    <3>2. ASSUME NEW q \in Questions PROVE ~WalkStart(t, q[1], q[2])
      BY <3>1, Zenon DEF WalkStart
    <3> QED BY <3>1, <3>2 DEF Begin, ForkLink, ExitUnlink
  <2> QED BY <2>1, <2>2 DEF Next, Proceed, ForkRank, ForkDepth, ForkCopy, ExitClear
<1>3. \A c \in op[t].ids : Inside(op[t].root, c) <=> op[t].root \in ancestors[c]
  BY <1>1 DEF Way, WalkOps, Coming, Line, Alive, Inside, Inv, Tree, Linked
<1>4. verdict'[t] \in BOOLEAN /\ (verdict'[t] <=> \A c \in op[t].ids : Inside(op[t].root, c))
  BY <1>2, Exact
<1> QED BY <1>3, <1>4 DEF InSubtreeBits

\* Every variable keeps its type, orphans or not: a walk never leaves the table.
THEOREM LineageTypes == Spec => []TypeOK
<1>1. Init => TypeOK
  BY InitInv DEF Inv
<1> QED BY <1>1, NextType, PTL DEF Spec

\* While no cage outlives its parent, a walk over living cages ends with the
\* verdict of the bitset check, for any interleaving of forks, exits and walks
\* and with ids used again.
THEOREM Agreement == ~Orphans /\ Spec => WalkMatchesBits
<1> DEFINE Verdicts == \A t \in Thread :
             op[t].name = "walk" /\ op'[t].name # "walk" /\ op[t].sure =>
               verdict'[t] = InSubtreeBits(op[t].root, op[t].ids)
<1>1. Init => Inv
  BY InitInv
<1>2. ~Orphans /\ Inv /\ [Next]_vars => Inv'
  BY NextInv
<1>3. ~Orphans /\ Inv /\ [Next]_vars => [Verdicts]_vars
  BY NextVerdict
<1>4. ~Orphans => [](~Orphans)
  OBVIOUS
<1> QED BY <1>1, <1>2, <1>3, <1>4, PTL DEF Spec, WalkMatchesBits

-----------------------------------------------------------------------------
(* The stored depth                                                        *)

\* A fork carries its parent's depth plus one, whatever happens in between.
Ranks ==
  /\ \A t \in Thread : op[t].name = "fork" =>
       /\ op[t].at = "store" => op[t].d = depth[op[t].parent] + 1
       /\ op[t].at = "copy" => depth[op[t].child] = depth[op[t].parent] + 1
  /\ \A c \in Cage : Alive(c) =>
       IsFiniteSet(ancestors[c]) /\ depth[c] = Cardinality(ancestors[c]) - 1

\* The root has depth 0 and one ancestor, itself.
LEMMA InitRanks == Init => Ranks
<1> SUFFICES ASSUME Init PROVE Ranks
  OBVIOUS
<1>1. IsFiniteSet({Root}) /\ Cardinality({Root}) = 1
  BY FS_Singleton
<1> QED BY <1>1 DEF Init, Ranks, Alive, Idle

\* The ranks are inductive, given the invariant.
LEMMA NextRanks == ~Orphans /\ Inv /\ Ranks /\ [Next]_vars => Ranks'
<1> SUFFICES ASSUME ~Orphans, Inv, Ranks, [Next]_vars PROVE Ranks'
  OBVIOUS
<1> USE DEF Inv
<1>1. CASE UNCHANGED vars
  BY <1>1 DEF vars, Ranks, Alive
<1>2. ASSUME NEW t \in Thread, op'[t].name # "fork", \A u \in Thread : u # t => op'[u] = op[u],
             depth' = depth, \A c \in Cage : Alive(c)' => Alive(c) /\ ancestors'[c] = ancestors[c]
      PROVE  Ranks'
  BY <1>2 DEF Ranks
<1>3. ASSUME NEW t \in Thread, NEW q \in Questions, WalkStart(t, q[1], q[2]) PROVE Ranks'
  <2>1. op'[t].name # "fork" /\ \A u \in Thread : u # t => op'[u] = op[u]
    BY <1>3 DEF WalkStart, Advance, Answered, Idle, Walking, TypeOK
  <2> QED BY <1>2, <1>3, <2>1 DEF WalkStart, Alive
<1>4. ASSUME NEW t \in Thread, WalkHop(t) PROVE Ranks'
  <2>1. op'[t].name # "fork" /\ \A u \in Thread : u # t => op'[u] = op[u]
    BY <1>4 DEF WalkHop, Advance, Answered, Idle, Walking, TypeOK
  <2> QED BY <1>2, <1>4, <2>1 DEF WalkHop, Alive
<1>5. ASSUME NEW t \in Thread, NEW c \in Cage, ExitUnlink(t, c) PROVE Ranks'
  BY <1>2, <1>5 DEF ExitUnlink, Exiting, Alive, TypeOK
<1>6. ASSUME NEW t \in Thread, ExitClear(t) PROVE Ranks'
  <2>1. PICK c \in Cage : c = op[t].cage
    BY <1>6, OpTypes DEF ExitClear, ExitOps
  <2> QED BY <1>2, <1>6, <2>1 DEF ExitClear, Idle, Alive, TypeOK
<1>7. ASSUME NEW t \in Thread, NEW p \in Cage, NEW c \in Cage, ForkLink(t, p, c) PROVE Ranks'
  <2>1. op'[t].name = "fork" /\ op'[t].at = "rank" /\ \A u \in Thread : u # t => op'[u] = op[u]
    BY <1>7 DEF ForkLink, Forking, TypeOK
  <2>2. UNCHANGED <<depth, ancestors>> /\ \A d \in Cage : Alive(d)' => Alive(d)
    BY <1>7 DEF ForkLink, Alive, TypeOK
  <2> QED BY <2>1, <2>2 DEF Ranks
<1>8. ASSUME NEW t \in Thread, ForkRank(t) PROVE Ranks'
  <2>1. /\ op'[t].name = "fork" /\ op'[t].at = "store"
        /\ op'[t].d = depth[op[t].parent] + 1 /\ op'[t].parent = op[t].parent
        /\ \A u \in Thread : u # t => op'[u] = op[u]
    BY <1>8 DEF ForkRank, Rank, Forking, TypeOK
  <2> QED BY <1>8, <2>1 DEF ForkRank, Ranks, Alive
<1>9. ASSUME NEW t \in Thread, ForkDepth(t) PROVE Ranks'
  <2>1. PICK c \in Cage, p \in Cage : c = op[t].child /\ p = op[t].parent
    BY <1>9, OpTypes DEF ForkDepth, ForkOps
  <2>2. Alive(p) /\ ~Alive(c)
    BY <1>9, <2>1 DEF ForkDepth, Pending, Alive
  <2>3. /\ op'[t].name = "fork" /\ op'[t].at = "copy" /\ op'[t].child = c /\ op'[t].parent = p
        /\ depth'[c] = depth[p] + 1
        /\ \A d \in Cage : d # c => depth'[d] = depth[d]
        /\ \A u \in Thread : u # t => op'[u] = op[u]
    BY <1>9, <2>1 DEF ForkDepth, Forking, Ranks, TypeOK
  <2>4. \A u \in Thread \ {t} : op[u].name = "fork" =>
          /\ op[u].parent \in Cage /\ op[u].parent # c
          /\ op[u].child \in Cage /\ op[u].child # c
    BY <1>9, <2>1, <2>2, OpTypes DEF ForkDepth, Pending, ForkOps
  <2>5. \A d \in Cage : Alive(d)' => Alive(d) /\ d # c /\ ancestors'[d] = ancestors[d]
    BY <1>9, <2>2 DEF ForkDepth, Alive
  <2> QED BY <2>2, <2>3, <2>4, <2>5 DEF Ranks
<1>10. ASSUME NEW t \in Thread, ForkCopy(t) PROVE Ranks'
  <2>1. PICK c \in Cage, p \in Cage : c = op[t].child /\ p = op[t].parent
    BY <1>10, OpTypes DEF ForkCopy, ForkOps
  <2>2. Alive(p) /\ ~Alive(c)
    BY <1>10, <2>1 DEF ForkCopy, Pending, Alive
  <2>3. /\ op'[t].name # "fork" /\ \A u \in Thread : u # t => op'[u] = op[u]
        /\ depth' = depth /\ depth[c] = depth[p] + 1
        /\ ancestors'[c] = ancestors[p] \cup {c}
        /\ \A d \in Cage : d # c => ancestors'[d] = ancestors[d] /\ (Alive(d)' => Alive(d))
    BY <1>10, <2>1 DEF ForkCopy, Offspring, Idle, Ranks, Alive, TypeOK
  <2>4. c \notin ancestors[p]
    BY <2>2 DEF Tree, Linked
  <2>5. /\ IsFiniteSet(ancestors'[c])
        /\ Cardinality(ancestors'[c]) = Cardinality(ancestors[p]) + 1
    <3>1. IsFiniteSet(ancestors[p])
      BY <2>2 DEF Ranks
    <3>2. /\ IsFiniteSet(ancestors[p] \cup {c})
          /\ Cardinality(ancestors[p] \cup {c}) = Cardinality(ancestors[p]) + 1
      BY <2>4, <3>1, FS_AddElement
    <3> QED BY <2>3, <3>2
  <2>6. /\ Cardinality(ancestors[p]) \in Nat /\ depth[p] = Cardinality(ancestors[p]) - 1
    BY <2>2, FS_CardinalityType DEF Ranks
  <2>7. depth'[c] = Cardinality(ancestors'[c]) - 1
    BY <2>3, <2>5, <2>6
  <2> QED BY <2>3, <2>5, <2>7 DEF Ranks
<1> QED BY <1>1, <1>3, <1>4, <1>5, <1>6, <1>7, <1>8, <1>9, <1>10 DEF Next, Begin, Proceed

\* While no cage outlives its parent, the stored depth of a living cage is its
\* number of proper ancestors, although fork reads the parent's depth and
\* stores the child's under different locks and exit never resets one.
THEOREM RankTheorem == ~Orphans /\ Spec => []DepthIsRank
<1>1. Init => Inv /\ Ranks
  BY InitInv, InitRanks
<1>2. ~Orphans /\ Inv /\ Ranks /\ [Next]_vars => (Inv /\ Ranks)'
  BY NextInv, NextRanks
<1>3. Ranks => DepthIsRank
  BY DEF Ranks, DepthIsRank
<1>4. ~Orphans => [](~Orphans)
  OBVIOUS
<1> QED BY <1>1, <1>2, <1>3, <1>4, PTL DEF Spec

-----------------------------------------------------------------------------
(* What the pointers reach                                                 *)

\* The set of a living cage is closed under parent pointers, and is part of
\* every set that has the cage and is closed: it is what the pointers reach.
UpClosed(S) == \A x \in S : parent[x] \in S \cup {NoParent}

Reached ==
  \A c \in Cage : Alive(c) =>
    /\ UpClosed(ancestors[c])
    /\ \A S \in SUBSET Cage : c \in S /\ UpClosed(S) => ancestors[c] \subseteq S

\* The living members of a closed set are a closed set.
LEMMA LivingClosed ==
  ASSUME TypeOK, Tree, NEW S \in SUBSET Cage,
         \A x \in S : Alive(x) => parent[x] \in S \cup {NoParent}
  PROVE  UpClosed({x \in S : Alive(x)})
<1>1. ASSUME NEW x \in S, Alive(x), parent[x] # NoParent PROVE parent[x] \in S /\ Alive(parent[x])
  BY <1>1 DEF Tree, Child
<1> QED BY <1>1 DEF UpClosed

\* Pointers that change are those of cages that do not live, or of the leaf that
\* exits; neither is in the way of the closed sets of the other cages.
LEMMA NextReached == ~Orphans /\ Inv /\ Reached /\ [Next]_vars => Reached'
<1> SUFFICES ASSUME ~Orphans, Inv, Reached, [Next]_vars PROVE Reached'
  OBVIOUS
<1> USE DEF Inv
<1>1. ASSUME UNCHANGED <<parent, ancestors, life>> PROVE Reached'
  BY <1>1 DEF Reached, UpClosed, Alive
<1>2. CASE UNCHANGED vars
  BY <1>1, <1>2 DEF vars
<1>3. ASSUME NEW t \in Thread, ForkRank(t) \/ ForkDepth(t) \/ WalkHop(t) PROVE Reached'
  BY <1>1, <1>3 DEF ForkRank, ForkDepth, WalkHop
<1>4. ASSUME NEW t \in Thread, NEW q \in Questions, WalkStart(t, q[1], q[2]) PROVE Reached'
  BY <1>1, <1>4 DEF WalkStart
<1>5. ASSUME NEW t \in Thread, NEW c \in Cage,
             ExitUnlink(t, c) \/ \E p \in Cage : ForkLink(t, p, c)
      PROVE  Reached'
  <2>1. /\ ~Alive(c)' /\ ancestors' = ancestors
        /\ \A d \in Cage : d # c => parent'[d] = parent[d] /\ Alive(d)' = Alive(d)
        /\ \A d \in Cage : Alive(d) => parent[d] # c
    <3>1. CASE ExitUnlink(t, c)
      BY <3>1 DEF ExitUnlink, Alive, TypeOK
    <3>2. ASSUME NEW p \in Cage, ForkLink(t, p, c)
          PROVE  /\ ~Alive(c) /\ ~Alive(c)' /\ ancestors' = ancestors
                 /\ \A d \in Cage : d # c => parent'[d] = parent[d] /\ Alive(d)' = Alive(d)
      BY <3>2 DEF ForkLink, Alive, TypeOK
    <3>3. ~Alive(c) => \A d \in Cage : Alive(d) => parent[d] # c
      BY LineageOK DEF Tree, Child
    <3> QED BY <1>5, <3>1, <3>2, <3>3
  <2>2. ASSUME NEW d \in Cage, Alive(d)', NEW S \in SUBSET Cage, d \in S, UpClosed(S)'
        PROVE  ancestors'[d] \subseteq S
    <3> DEFINE T == {x \in S \ {c} : Alive(x)}
    <3>1. \A x \in S \ {c} : Alive(x) => parent[x] \in (S \ {c}) \cup {NoParent}
      BY <2>1, <2>2 DEF UpClosed
    <3>2. UpClosed(T) /\ T \in SUBSET Cage
      BY <3>1, LivingClosed
    <3>3. d \in T /\ Alive(d)
      BY <2>1, <2>2
    <3>4. ancestors[d] \subseteq T
      <4> HIDE DEF T
      <4> QED BY <3>2, <3>3 DEF Reached
    <3> QED BY <2>1, <3>4
  <2>3. ASSUME NEW d \in Cage, Alive(d)' PROVE UpClosed(ancestors[d])'
    <3>1. Alive(d) /\ d # c
      BY <2>1, <2>3
    <3>2. Linked(d) /\ UpClosed(ancestors[d]) /\ ancestors[d] \subseteq Cage
      BY <3>1 DEF Tree, Reached, TypeOK
    <3>3. c \notin ancestors[d]
      BY <2>1, <3>1, <3>2 DEF Linked
    <3> QED BY <2>1, <3>2, <3>3 DEF UpClosed
  <2> QED BY <2>2, <2>3 DEF Reached
<1>6. ASSUME NEW t \in Thread, ForkCopy(t) PROVE Reached'
  <2>1. PICK c \in Cage, p \in Cage : c = op[t].child /\ p = op[t].parent
    BY <1>6, OpTypes DEF ForkCopy, ForkOps
  <2>2. Alive(p) /\ parent[c] = p
    BY <1>6, <2>1 DEF ForkCopy, Pending
  <2>3. /\ parent' = parent /\ ancestors'[c] = ancestors[p] \cup {c}
        /\ \A d \in Cage : d # c => ancestors'[d] = ancestors[d] /\ Alive(d)' = Alive(d)
    BY <1>6, <2>1 DEF ForkCopy, Offspring, Alive, TypeOK
  <2>4. ASSUME NEW d \in Cage, Alive(d)', NEW S \in SUBSET Cage, d \in S, UpClosed(S)'
        PROVE  ancestors'[d] \subseteq S
    <3>1. UpClosed(S)
      BY <2>3, <2>4 DEF UpClosed
    <3>2. CASE d # c
      BY <2>3, <2>4, <3>1, <3>2 DEF Reached
    <3>3. CASE d = c
      <4>1. p \in S
        BY <2>2, <2>4, <3>1, <3>3, LineageOK DEF UpClosed
      <4> QED BY <2>2, <2>3, <2>4, <3>1, <3>3, <4>1 DEF Reached
    <3> QED BY <3>2, <3>3
  <2>5. ASSUME NEW d \in Cage, Alive(d)' PROVE UpClosed(ancestors[d])'
    <3>1. CASE d # c
      BY <2>3, <2>5, <3>1 DEF Reached, UpClosed
    <3>2. CASE d = c
      <4>1. UpClosed(ancestors[p]) /\ p \in ancestors[p]
        BY <2>2 DEF Reached, Tree, Linked
      <4> QED BY <2>2, <2>3, <3>2, <4>1 DEF UpClosed
    <3> QED BY <3>1, <3>2
  <2> QED BY <2>4, <2>5 DEF Reached
<1>7. ASSUME NEW t \in Thread, ExitClear(t) PROVE Reached'
  <2>1. PICK c \in Cage : c = op[t].cage
    BY <1>7, OpTypes DEF ExitClear, ExitOps
  <2>2. /\ parent' = parent
        /\ \A d \in Cage : Alive(d)' => Alive(d) /\ ancestors'[d] = ancestors[d]
    BY <1>7, <2>1 DEF ExitClear, Alive, TypeOK
  <2> QED BY <2>2 DEF Reached, UpClosed
<1> QED BY <1>2, <1>3, <1>4, <1>5, <1>6, <1>7 DEF Next, Begin, Proceed

\* In a state of the invariant the set of a living cage is what is reached from it.
LEMMA BitsUpward ==
  ASSUME Inv, Reached, NEW c \in Cage, Alive(c)
  PROVE  ancestors[c] = Upward(c)
<1>1. ancestors[c] \in SUBSET Cage /\ c \in ancestors[c]
  BY DEF Inv, TypeOK, Tree, Linked
<1>2. \A x \in ancestors[c] : parent[x] \in ancestors[c] \cup {NoParent}
  BY DEF Reached, UpClosed
<1>3. \A S \in SUBSET Cage :
        c \in S /\ (\A x \in S : parent[x] \in S \cup {NoParent}) => ancestors[c] \subseteq S
  BY DEF Reached, UpClosed
<1> QED BY <1>1, <1>2, <1>3 DEF Upward

\* While no cage outlives its parent, a living cage's bits are exactly the cages
\* its parent pointers lead to, although fork and exit update the two under
\* different locks and ids are used again.
THEOREM BitsTheorem == ~Orphans /\ Spec => []BitsAreAncestors
<1>1. Init => Inv /\ Reached
  <2> SUFFICES ASSUME Init PROVE Reached
    BY InitInv
  <2> QED BY LineageOK DEF Init, Reached, UpClosed, Alive
<1>2. ~Orphans /\ Inv /\ Reached /\ [Next]_vars => (Inv /\ Reached)'
  BY NextInv, NextReached
<1>3. Inv /\ Reached => BitsAreAncestors
  BY BitsUpward DEF BitsAreAncestors
<1>4. ~Orphans => [](~Orphans)
  OBVIOUS
<1> QED BY <1>1, <1>2, <1>3, <1>4, PTL DEF Spec

-----------------------------------------------------------------------------
(* Forks, exits and walks take effect at one moment                        *)

\* The states of the abstract tree.
Up == [c \in Cage |-> IF Alive(c) THEN ancestors[c] ELSE {}]
Asked == [t \in Thread |-> IF op[t].name = "walk"
                             THEN [root |-> op[t].root, ids |-> op[t].ids]
                             ELSE [ids |-> {}]]

\* Who lives in the abstract tree, and with which set.
LEMMA UpLives ==
  ASSUME Inv
  PROVE  \A c \in Cage : /\ Up[c] # {} <=> Alive(c)
                         /\ Alive(c) => Up[c] = ancestors[c]
  BY DEF Inv, Tree, Linked, Up

\* A thread waits for a check exactly while it walks.
LEMMA AskedWalks ==
  ASSUME NEW t \in Thread
  PROVE  /\ op[t].name # "walk" => Asked[t] = [ids |-> {}]
         /\ op[t].name = "walk" => /\ Asked[t] # [ids |-> {}]
                                   /\ Asked[t].root = op[t].root /\ Asked[t].ids = op[t].ids
<1>1. ASSUME NEW r, NEW s PROVE [root |-> r, ids |-> s] # [ids |-> {}]
  <2>1. "root" \in DOMAIN [root |-> r, ids |-> s]
    OBVIOUS
  <2>2. "root" \notin DOMAIN [ids |-> {}]
    OBVIOUS
  <2> QED BY <2>1, <2>2
<1> QED BY <1>1 DEF Asked

\* Every step is a step of the abstract tree, or none.
LEMMA NextTreeSpec ==
  ASSUME ~Orphans, Inv, [Next]_vars
  PROVE  [AtomicTree!Next]_(AtomicTree!vars)
<1> USE DEF Inv
<1>1. ASSUME Up' = Up, Asked' = Asked, verdict' = verdict
      PROVE  UNCHANGED AtomicTree!vars
  BY <1>1 DEF AtomicTree!vars, Up, Asked
<1>2. CASE UNCHANGED vars
  BY <1>1, <1>2 DEF vars, Up, Asked, Alive
<1>3. ASSUME NEW t \in Thread, op[t].name # "walk", op'[t].name # "walk",
             \A u \in Thread : u # t => op'[u] = op[u]
      PROVE  Asked' = Asked
  BY <1>3 DEF Asked
<1>4. ASSUME NEW t \in Thread, NEW p \in Cage, NEW c \in Cage, ForkLink(t, p, c)
      PROVE  UNCHANGED AtomicTree!vars
  <2>1. op[t].name # "walk" /\ op'[t].name # "walk" /\ \A u \in Thread : u # t => op'[u] = op[u]
    BY <1>4 DEF ForkLink, Forking, Idle, TypeOK
  <2>2. Up' = Up
    BY <1>4 DEF ForkLink, Up, Alive, TypeOK
  <2> QED BY <1>1, <1>3, <1>4, <2>1, <2>2 DEF ForkLink
<1>5. ASSUME NEW t \in Thread, ForkRank(t) \/ ForkDepth(t) PROVE UNCHANGED AtomicTree!vars
  <2>1. op[t].name # "walk" /\ op'[t].name # "walk" /\ \A u \in Thread : u # t => op'[u] = op[u]
    BY <1>5 DEF ForkRank, ForkDepth, Forking, TypeOK
  <2>2. Up' = Up /\ verdict' = verdict
    BY <1>5 DEF ForkRank, ForkDepth, Up, Alive
  <2> QED BY <1>1, <1>3, <2>1, <2>2
<1>6. ASSUME NEW t \in Thread, ForkCopy(t) PROVE AtomicTree!Next
  <2>1. PICK c \in Cage, p \in Cage : c = op[t].child /\ p = op[t].parent
    BY <1>6, OpTypes DEF ForkCopy, ForkOps
  <2>2. Alive(p) /\ ~Alive(c)
    BY <1>6, <2>1 DEF ForkCopy, Pending, Alive
  <2>3. op[t].name # "walk" /\ op'[t].name # "walk" /\ \A u \in Thread : u # t => op'[u] = op[u]
    BY <1>6 DEF ForkCopy, Idle, TypeOK
  <2>4. Up' = [Up EXCEPT ![c] = Up[p] \cup {c}]
    BY <1>6, <2>1, <2>2 DEF ForkCopy, Offspring, Up, Alive, TypeOK
  <2>5. Asked' = Asked /\ verdict' = verdict
    BY <1>3, <1>6, <2>3 DEF ForkCopy
  <2>6. AtomicTree!Fork(p, c)
    BY <2>2, <2>4, <2>5, UpLives DEF AtomicTree!Fork, AtomicTree!Lives, Up, Asked
  <2> QED BY <2>6 DEF AtomicTree!Next
<1>7. ASSUME NEW t \in Thread, NEW c \in Cage, ExitUnlink(t, c) PROVE AtomicTree!Next
  <2>1. op[t].name # "walk" /\ op'[t].name # "walk" /\ \A u \in Thread : u # t => op'[u] = op[u]
    BY <1>7 DEF ExitUnlink, Exiting, Idle, TypeOK
  <2>2. Asked' = Asked /\ verdict' = verdict
    BY <1>3, <1>7, <2>1 DEF ExitUnlink
  <2>3. Alive(c) /\ c # Root /\ \A d \in Cage : Alive(d) => parent[d] # c
    BY <1>7 DEF ExitUnlink
  <2>4. ASSUME NEW d \in Cage, c \in Up[d] PROVE d = c
    <3>1. Alive(d) /\ c \in ancestors[d] /\ Linked(d) /\ ancestors[d] \subseteq Cage
      BY <2>4 DEF Up, Tree, TypeOK
    <3> QED BY <2>3, <3>1 DEF Linked
  <2>5. Up' = [Up EXCEPT ![c] = {}]
    BY <1>7 DEF ExitUnlink, Up, Alive, TypeOK
  <2>6. AtomicTree!Exit(c)
    BY <2>2, <2>3, <2>4, <2>5, UpLives DEF AtomicTree!Exit, AtomicTree!Lives, Up, Asked
  <2> QED BY <2>6 DEF AtomicTree!Next
<1>8. ASSUME NEW t \in Thread, ExitClear(t) PROVE UNCHANGED AtomicTree!vars
  <2>1. op[t].name # "walk" /\ op'[t].name # "walk" /\ \A u \in Thread : u # t => op'[u] = op[u]
    BY <1>8 DEF ExitClear, Idle, TypeOK
  <2>2. PICK c \in Cage : c = op[t].cage
    BY <1>8, OpTypes DEF ExitClear, ExitOps
  <2>3. ~Alive(c)
    BY <1>8, <2>2 DEF ExitClear, Pending, Alive
  <2>4. Up' = Up
    BY <1>8, <2>2, <2>3 DEF ExitClear, Up, Alive, TypeOK
  <2> QED BY <1>1, <1>3, <1>8, <2>1, <2>4 DEF ExitClear
<1>9. ASSUME NEW t \in Thread, NEW q \in Questions, WalkStart(t, q[1], q[2])
      PROVE  AtomicTree!Next
  <2>1. PICK root \in Cage, ids \in SUBSET Cage : root = q[1] /\ ids = q[2]
    BY LineageOK
  <2>2. PICK sure \in BOOLEAN : sure = \A c \in ids : Alive(c)
    OBVIOUS
  <2>3. Advance(t, root, ids, ids \ {root}, sure) /\ op[t] = Idle
    BY <1>9, <2>1, <2>2 DEF WalkStart
  <2>4. Up' = Up /\ Asked[t] = [ids |-> {}]
    BY <1>9, <2>3, AskedWalks DEF WalkStart, Up, Alive, Idle
  <2>5. CASE Answered(t, TRUE)
    <3>1. Asked' = Asked
      BY <1>3, <2>3, <2>5 DEF Answered, Idle, TypeOK
    <3>2. AtomicTree!AnswerSelf(t)
      BY <2>4, <2>5, <3>1 DEF AtomicTree!AnswerSelf, AtomicTree!NoCheck, Answered, Up, Asked
    <3> QED BY <3>2 DEF AtomicTree!Next
  <2>6. ASSUME NEW c \in ids, UNCHANGED verdict, NEW todo,
               op' = [op EXCEPT ![t] = Walking(root, ids, todo, c, c, sure)]
        PROVE  AtomicTree!Next
    <3>1. op'[t].name = "walk" /\ op'[t].root = root /\ op'[t].ids = ids
            /\ \A u \in Thread : u # t => op'[u] = op[u]
      BY <2>6 DEF Walking, TypeOK
    <3>2. Asked' = [Asked EXCEPT ![t] = [root |-> root, ids |-> ids]]
      BY <3>1 DEF Asked
    <3>3. AtomicTree!Ask(t, root, ids)
      BY <2>4, <2>6, <3>2 DEF AtomicTree!Ask, AtomicTree!NoCheck, Up, Asked
    <3> QED BY <3>3 DEF AtomicTree!Next
  <2> QED BY <2>3, <2>5, <2>6 DEF Advance
<1>10. ASSUME NEW t \in Thread, WalkHop(t)
       PROVE  AtomicTree!Next \/ UNCHANGED AtomicTree!vars
  <2>1. op[t].name = "walk" /\ op[t] \in WalkOps /\ Up' = Up
    BY <1>10, OpTypes DEF WalkHop, Up, Alive
  <2>2. CASE op'[t].name = "walk"
    <3>1. op'[t].root = op[t].root /\ op'[t].ids = op[t].ids /\ verdict' = verdict
            /\ \A u \in Thread : u # t => op'[u] = op[u]
      BY <1>10, <2>2 DEF WalkHop, Advance, Answered, Walking, Idle, TypeOK
    <3>2. Asked' = Asked
      BY <2>1, <2>2, <3>1 DEF Asked
    <3> QED BY <1>1, <2>1, <3>1, <3>2
  <2>3. CASE op'[t].name # "walk"
    <3>1. PICK ok \in BOOLEAN :
            /\ ok = verdict'[t] /\ verdict' = [verdict EXCEPT ![t] = ok]
            /\ op' = [op EXCEPT ![t] = Idle]
            /\ ok <=> \A c \in op[t].ids : Inside(op[t].root, c)
      BY <1>10, <2>3, Exact
    <3>2. Asked' = [Asked EXCEPT ![t] = [ids |-> {}]]
      BY <2>1, <3>1 DEF Asked, Idle, TypeOK
    <3>3. (\A c \in op[t].ids : Up[c] # {}) => (ok <=> \A c \in op[t].ids : op[t].root \in Up[c])
      <4>1. \A c \in op[t].ids : Up[c] # {} => (Inside(op[t].root, c) <=> op[t].root \in Up[c])
        BY <2>1 DEF Up, Coming, Line, Alive, WalkOps, Inside, Tree, Linked
      <4> QED BY <3>1, <4>1
    <3>4. Asked[t] # [ids |-> {}] /\ Asked[t].root = op[t].root /\ Asked[t].ids = op[t].ids
      BY <2>1, AskedWalks
    <3>5. AtomicTree!Answer(t)
      BY <2>1, <3>1, <3>2, <3>3, <3>4
         DEF AtomicTree!Answer, AtomicTree!NoCheck, AtomicTree!Lives, Up, Asked
    <3> QED BY <3>5 DEF AtomicTree!Next
  <2> QED BY <2>2, <2>3
<1> QED BY <1>2, <1>4, <1>5, <1>6, <1>7, <1>8, <1>9, <1>10 DEF Next, Begin, Proceed

\* While no cage outlives its parent, the lineage implements the tree of module
\* ForkTree: forks, exits and walks take effect at one moment each, however the
\* regions their locks cover interleave.
THEOREM TreeTheorem == ~Orphans /\ Spec => TreeSpec
<1>1. Init => Inv /\ AtomicTree!Init
  <2> SUFFICES ASSUME Init PROVE AtomicTree!Init
    BY InitInv
  <2> QED BY LineageOK DEF Init, AtomicTree!Init, AtomicTree!NoCheck, Alive, Idle
<1>2. ~Orphans /\ Inv /\ [Next]_vars => Inv' /\ [AtomicTree!Next]_(AtomicTree!vars)
  BY NextInv, NextTreeSpec
<1>3. ~Orphans => [](~Orphans)
  OBVIOUS
<1> QED BY <1>1, <1>2, <1>3, PTL DEF Spec, TreeSpec, AtomicTree!Spec
=============================================================================
