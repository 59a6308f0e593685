------------------------------ MODULE ForkTree ------------------------------
(***************************************************************************)
(* What the cage lineage promises where no cage outlives its parent: a     *)
(* tree that forks and exits change in one step, and a check that is       *)
(* answered by the tree as it is at one moment.                            *)
(***************************************************************************)

CONSTANTS Thread, Cage, Root

VARIABLES
  up,       \* up[c]: c and its ancestors while c lives, and nothing otherwise
  asked,    \* asked[t]: the check t is waiting for
  verdict   \* verdict[t]: what t's last check answered

vars == <<up, asked, verdict>>

NoCheck  == [ids |-> {}]
Lives(c) == up[c] # {}

Init ==
  /\ up = [c \in Cage |-> IF c = Root THEN {Root} ELSE {}]
  /\ asked = [t \in Thread |-> NoCheck]
  /\ verdict = [t \in Thread |-> FALSE]

Fork(p, c) ==
  /\ Lives(p) /\ ~Lives(c)
  /\ up' = [up EXCEPT ![c] = up[p] \cup {c}]
  /\ UNCHANGED <<asked, verdict>>

\* Only a leaf of the tree exits.
Exit(c) ==
  /\ Lives(c) /\ c # Root
  /\ \A d \in Cage : c \in up[d] => d = c
  /\ up' = [up EXCEPT ![c] = {}]
  /\ UNCHANGED <<asked, verdict>>

\* Is every one of ids inside the subtree of root?
Ask(t, root, ids) ==
  /\ asked[t] = NoCheck
  /\ asked' = [asked EXCEPT ![t] = [root |-> root, ids |-> ids]]
  /\ UNCHANGED <<up, verdict>>

\* Exact about ids that live; about others any answer will do.
Answer(t) ==
  /\ asked[t] # NoCheck
  /\ \E ok \in BOOLEAN :
       /\ (\A c \in asked[t].ids : Lives(c)) =>
             ok = (\A c \in asked[t].ids : asked[t].root \in up[c])
       /\ verdict' = [verdict EXCEPT ![t] = ok]
  /\ asked' = [asked EXCEPT ![t] = NoCheck]
  /\ UNCHANGED up

\* A cage is inside its own subtree, and no tree is needed to say so.
AnswerSelf(t) ==
  /\ asked[t] = NoCheck
  /\ verdict' = [verdict EXCEPT ![t] = TRUE]
  /\ UNCHANGED <<up, asked>>

Next ==
  \/ \E p, c \in Cage : Fork(p, c)
  \/ \E c \in Cage : Exit(c)
  \/ \E t \in Thread :
       \/ \E root \in Cage, ids \in SUBSET Cage : Ask(t, root, ids)
       \/ Answer(t) \/ AnswerSelf(t)

Spec == Init /\ [][Next]_vars
=============================================================================
