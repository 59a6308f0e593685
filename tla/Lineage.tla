------------------------------ MODULE Lineage ------------------------------
(***************************************************************************)
(* Cage lineage (Option 2a): who descends from whom, kept twice.  `parent' *)
(* holds parent pointers, which in_subtree_walk follows; `ancestors' holds *)
(* for every cage the set of its ancestors, which in_subtree_bits looks    *)
(* up.  Each has an RwLock of its own, and so has `depth': fork and exit   *)
(* take the locks one after the other, so other threads see them half      *)
(* done.  One step is the region one lock covers; a walk is one step per   *)
(* hop and keeps the parent lock until it has its verdict.                 *)
(*                                                                         *)
(* The code accepts any fork and exit at any time.  Here cages live as     *)
(* processes do: a cage forks while it lives, a child id is one no living  *)
(* cage has.  Orphans and Reuse say how much further callers may go.       *)
(***************************************************************************)
EXTENDS Integers, FiniteSets

CONSTANTS
  Thread,     \* threads that fork, exit and check
  Cage,       \* cage ids (0 .. MAX_CAGES-1)
  Root,       \* cage 0, which is there from the start
  NoParent,   \* u64::MAX
  Questions,  \* the <<root, ids>> pairs that are checked
  Orphans,    \* a cage may exit before its children
  Reuse,      \* the id of an exited cage may be forked again
  MaxDepth    \* bound: no cage this deep forks

ASSUME LineageOK ==
  /\ Root \in Cage /\ NoParent \notin Cage
  /\ Questions \subseteq Cage \X SUBSET Cage
  /\ Orphans \in BOOLEAN /\ Reuse \in BOOLEAN /\ MaxDepth \in Nat

VARIABLES
  parent, depth, ancestors,
  op,        \* op[t]: the operation t is in the middle of
  verdict,   \* verdict[t]: what t's last walk answered
  life       \* history: how far the life of each cage has got

vars == <<parent, depth, ancestors, op, verdict, life>>

Life == {"fresh", "forking", "alive", "exiting", "exited"}

Idle == [name |-> "idle"]
\* fork: next to read the parent's depth, to store the child's, to copy the set.
Forking(p, c, at, d) == [name |-> "fork", parent |-> p, child |-> c, at |-> at, d |-> d]
Exiting(c) == [name |-> "exit", cage |-> c]
\* A walk: the ids it was asked about, those still to do, and where it stands
\* on the way up from one of them.  `sure': all of them lived when it began.
Walking(root, ids, todo, id, cur, sure) ==
  [name |-> "walk", root |-> root, ids |-> ids, todo |-> todo, id |-> id, cur |-> cur,
   sure |-> sure]

Alive(c) == life[c] = "alive"

\* Fault: a walk that takes the lock anew for every hop.
WalkerNone == {}

\* The threads that hold the parent lock shared.
Walker == {t \in Thread : op[t].name = "walk"}

\* c is in the middle of a fork of its own.
Forks(c) == \E t \in Thread : op[t].name = "fork" /\ op[t].parent = c

-----------------------------------------------------------------------------
(* fork                                                                    *)

\* `self.parent.write()': the walkers hold that lock shared.
ForkLink(t, p, c) ==
  /\ op[t] = Idle /\ Walker = {}
  /\ Alive(p) /\ depth[p] < MaxDepth
  /\ life[c] = "fresh" \/ (Reuse /\ life[c] = "exited")
  /\ parent' = [parent EXCEPT ![c] = p]
  /\ life' = [life EXCEPT ![c] = "forking"]
  /\ op' = [op EXCEPT ![t] = Forking(p, c, "rank", 0)]
  /\ UNCHANGED <<depth, ancestors, verdict>>

\* Fault: a child is as deep as its parent.
RankFlat(p) == depth[p]

Rank(p) == depth[p] + 1

ForkRank(t) ==
  /\ op[t].name = "fork" /\ op[t].at = "rank"
  /\ op' = [op EXCEPT ![t] = Forking(op[t].parent, op[t].child, "store", Rank(op[t].parent))]
  /\ UNCHANGED <<parent, depth, ancestors, verdict, life>>

ForkDepth(t) ==
  /\ op[t].name = "fork" /\ op[t].at = "store"
  /\ depth' = [depth EXCEPT ![op[t].child] = op[t].d]
  /\ op' = [op EXCEPT ![t] = Forking(op[t].parent, op[t].child, "copy", 0)]
  /\ UNCHANGED <<parent, ancestors, verdict, life>>

\* Fault: the copied set is not extended with the child itself.
OffspringPlain(p, c) == ancestors[p]

Offspring(p, c) == ancestors[p] \cup {c}

\* The copy and the child's own bit are made under one write lock.
ForkCopy(t) ==
  /\ op[t].name = "fork" /\ op[t].at = "copy"
  /\ ancestors' = [ancestors EXCEPT ![op[t].child] = Offspring(op[t].parent, op[t].child)]
  /\ life' = [life EXCEPT ![op[t].child] = "alive"]
  /\ op' = [op EXCEPT ![t] = Idle]
  /\ UNCHANGED <<parent, depth, verdict>>

-----------------------------------------------------------------------------
(* exit                                                                    *)

\* Only the cage's own entries are reset: neither its depth nor the pointers
\* and sets of its children.
ExitUnlink(t, c) ==
  /\ op[t] = Idle /\ Walker = {}
  /\ Alive(c) /\ c # Root /\ ~Forks(c)
  /\ Orphans \/ \A d \in Cage : Alive(d) => parent[d] # c
  /\ parent' = [parent EXCEPT ![c] = NoParent]
  /\ life' = [life EXCEPT ![c] = "exiting"]
  /\ op' = [op EXCEPT ![t] = Exiting(c)]
  /\ UNCHANGED <<depth, ancestors, verdict>>

ExitClear(t) ==
  /\ op[t].name = "exit"
  /\ ancestors' = [ancestors EXCEPT ![op[t].cage] = {}]
  /\ life' = [life EXCEPT ![op[t].cage] = "exited"]
  /\ op' = [op EXCEPT ![t] = Idle]
  /\ UNCHANGED <<parent, depth, verdict>>

-----------------------------------------------------------------------------
(* all_in_subtree_walk and all_in_subtree_bits; the unbatched checks ask   *)
(* about one id                                                            *)

\* The verdict of all_in_subtree_bits, under its one read lock.
InSubtreeBits(root, ids) == \A c \in ids : root \in ancestors[c]

Answered(t, ok) ==
  /\ op' = [op EXCEPT ![t] = Idle]
  /\ verdict' = [verdict EXCEPT ![t] = ok]

\* Goes on with one of the ids still to do, in whatever order; true at the end.
Advance(t, root, ids, todo, sure) ==
  \/ todo = {} /\ Answered(t, TRUE)
  \/ \E c \in todo :
       /\ op' = [op EXCEPT ![t] = Walking(root, ids, todo \ {c}, c, c, sure)]
       /\ UNCHANGED verdict

\* Takes the parent lock shared.  Ids equal to the root need no walk.
WalkStart(t, root, ids) ==
  /\ op[t] = Idle
  /\ Advance(t, root, ids, ids \ {root}, \A c \in ids : Alive(c))
  /\ UNCHANGED <<parent, depth, ancestors, life>>

\* Fault: the walk stays where it is.
ClimbNot(t, p) == op[t].cur

\* Fault: the walk takes a second hop without looking where the first one led.
ClimbTwice(t, p) == parent[p]

Climb(t, p) == p

\* One hop: false at the top of the tree, true at the root asked about.
WalkHop(t) ==
  /\ op[t].name = "walk"
  /\ LET w == op[t]
         p == parent[w.cur]
     IN  \/ p = NoParent /\ Answered(t, FALSE)
         \/ p # NoParent /\ p = w.root /\ Advance(t, w.root, w.ids, w.todo, w.sure)
         \/ /\ p # NoParent /\ p # w.root
            /\ op' = [op EXCEPT ![t] =
                        Walking(w.root, w.ids, w.todo, w.id, Climb(t, p), w.sure)]
            /\ UNCHANGED verdict
  /\ UNCHANGED <<parent, depth, ancestors, life>>

-----------------------------------------------------------------------------
(* The specification                                                       *)

\* Lineage::new: every row is empty but that of cage 0.
Init ==
  /\ parent = [c \in Cage |-> NoParent]
  /\ depth = [c \in Cage |-> 0]
  /\ ancestors = [c \in Cage |-> IF c = Root THEN {Root} ELSE {}]
  /\ op = [t \in Thread |-> Idle]
  /\ verdict = [t \in Thread |-> FALSE]
  /\ life = [c \in Cage |-> IF c = Root THEN "alive" ELSE "fresh"]

Proceed(t) == ForkRank(t) \/ ForkDepth(t) \/ ForkCopy(t) \/ ExitClear(t) \/ WalkHop(t)

Begin(t) ==
  \/ \E p, c \in Cage : ForkLink(t, p, c)
  \/ \E c \in Cage : ExitUnlink(t, c)
  \/ \E q \in Questions : WalkStart(t, q[1], q[2])

Next == \E t \in Thread : Begin(t) \/ Proceed(t)

Spec == Init /\ [][Next]_vars

\* Past its first lock an operation only waits for regions of bounded length:
\* nothing holds the depth or the ancestors lock while it waits for another.
FairSpec == Spec /\ \A t \in Thread : WF_vars(Proceed(t))

-----------------------------------------------------------------------------
(* Properties                                                              *)

ForkOps == [name : {"fork"}, parent : Cage, child : Cage, at : {"rank", "store", "copy"}, d : Nat]
ExitOps == [name : {"exit"}, cage : Cage]
WalkOps == [name : {"walk"}, root : Cage, ids : SUBSET Cage, todo : SUBSET Cage,
            id : Cage, cur : Cage, sure : BOOLEAN]
Ops     == {Idle} \cup ForkOps \cup ExitOps \cup WalkOps

\* Every variable has its type; in particular a walk never stands outside the
\* table, where parent[cur] would be out of bounds.
TypeOK ==
  /\ parent \in [Cage -> Cage \cup {NoParent}]
  /\ depth \in [Cage -> Nat]
  /\ ancestors \in [Cage -> SUBSET Cage]
  /\ op \in [Thread -> Ops]
  /\ verdict \in [Thread -> BOOLEAN]
  /\ life \in [Cage -> Life]

\* What is reached from c by parent pointers, c included: the least set with c in
\* it that has the parent of each of its members.
Upward(c) ==
  {a \in Cage : \A S \in SUBSET Cage :
     c \in S /\ (\A x \in S : parent[x] \in S \cup {NoParent}) => a \in S}

\* "ancestors[c] has bit a set iff a is c or an ancestor of c", for every cage
\* that has been forked and has not exited: the two representations agree
\* although fork and exit update them under different locks.
BitsAreAncestors == \A c \in Cage : Alive(c) => ancestors[c] = Upward(c)

\* The depth stored for a living cage is its number of proper ancestors, also
\* when its id was used before at another depth, which exit does not reset.
DepthIsRank == \A c \in Cage : Alive(c) => depth[c] = Cardinality(ancestors[c]) - 1

\* A walk over living cages ends with the verdict of the bitset check at that
\* moment, whatever forks and exits other threads have half done: the policies
\* SubtreeWalk and SubtreeBits decide alike.
WalkMatchesBits ==
  [][\A t \in Thread :
       op[t].name = "walk" /\ op'[t].name # "walk" /\ op[t].sure =>
         verdict'[t] = InSubtreeBits(op[t].root, op[t].ids)]_vars

\* Where no cage outlives its parent, forks, exits and walks take effect at one
\* moment each, however their locked regions interleave: module ForkTree.  A fork
\* does when it sets the child's bits, an exit when it unlinks the cage.
AtomicTree == INSTANCE ForkTree WITH
  up    <- [c \in Cage |-> IF Alive(c) THEN ancestors[c] ELSE {}],
  asked <- [t \in Thread |-> IF op[t].name = "walk"
                               THEN [root |-> op[t].root, ids |-> op[t].ids]
                               ELSE [ids |-> {}]]
TreeSpec == AtomicTree!Spec

\* Every walk returns.  It holds the parent lock, so one that does not return
\* stops every later fork and exit as well.
WalkReturns == \A t \in Thread : op[t].name = "walk" ~> op[t].name # "walk"
=============================================================================
