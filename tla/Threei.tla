------------------------------- MODULE Threei -------------------------------
(***************************************************************************)
(* make_syscall over a cage tree that changes: the subtree policies of     *)
(* Dispatch composed with the forks and exits of Lineage.  The verdict on  *)
(* a call is given under the lineage's locks, one after the other where a  *)
(* filter asks about one id at a time, and acted on when they are released *)
(* again.  Meanwhile other threads fork and exit any cage, the caller      *)
(* included, and use ids again.                                            *)
(***************************************************************************)
EXTENDS Lineage, Sequences

CONSTANTS
  Requests,   \* the calls that are made
  Ncheck,     \* NCHECK, and the number of ids the filter asks about
  Hows        \* the subtree policies: "walk", "bits", and the filter with either

Batched == {"walk", "bits"}
Filter  == {"filter_walk", "filter_bits"}

\* The target and the first NCHECK argument cage ids.
Ids(r) == {r.target} \cup {r.args[i] : i \in 1 .. Ncheck}

\* The lineage is asked about the ids of the calls, some or all of them at once.
ASSUME ThreeiOK ==
  /\ Ncheck \in Nat /\ Hows \subseteq Batched \cup Filter
  /\ \A r \in Requests : /\ r.self \in Cage /\ r.target \in Cage
                         /\ r.args \in Seq(Cage) /\ Len(r.args) >= Ncheck
                         /\ \A ids \in SUBSET Ids(r) : <<r.self, ids>> \in Questions

VARIABLES
  how,    \* the policy in force
  call,   \* call[t]: the call t is inside, and the questions its verdict waits for
  gone    \* history: gone[t]: the ids whose cage has exited since t's call began

lineage == <<parent, depth, ancestors, op, verdict, life>>
tvars   == <<vars, how, call, gone>>

NoCall    == [pc |-> "none"]
InCall(t) == call[t] # NoCall
At(t, pc) == call[t].pc = pc

\* History: all ids of r live inside the caller's subtree.
Within(r) == \A c \in Ids(r) : Alive(c) /\ r.self \in Upward(c)

-----------------------------------------------------------------------------
(* The verdict                                                             *)

\* Fault: the last argument cage id is left out.
OneByOneShort(r) == [i \in 1 .. Ncheck |-> {IF i = 1 THEN r.target ELSE r.args[i - 1]}]

\* The questions of the filter, in the order its instructions ask them.
OneByOne(r) == [i \in 1 .. Ncheck + 1 |-> {IF i = 1 THEN r.target ELSE r.args[i - 1]}]

Questioned(r) == IF how \in Batched THEN <<Ids(r)>> ELSE OneByOne(r)

\* Fault: the target's subtree instead of the caller's.
SubtreeOfTarget(r) == r.target

\* Whose subtree the ids must be in.
SubtreeOf(r) == r.self

\* Fault: the same question again.
RuledAgain(c, ok) == IF ok THEN c ELSE [c EXCEPT !.pc = "refused", !.todo = <<>>]

\* Fault: no end of the questions.
RuledOn(c, ok) ==
  IF ok THEN [c EXCEPT !.todo = Tail(c.todo)] ELSE [c EXCEPT !.pc = "refused", !.todo = <<>>]

\* The call c once its first question is answered.
Ruled(c, ok) ==
  IF ok /\ Len(c.todo) > 1
    THEN [c EXCEPT !.todo = Tail(c.todo)]
    ELSE [c EXCEPT !.pc = IF ok THEN "leaf" ELSE "refused", !.todo = <<>>]

\* A caller is a cage that lives; from here on it need not.
Make(t, r) ==
  /\ op[t] = Idle /\ ~InCall(t) /\ Alive(r.self)
  /\ call' = [call EXCEPT ![t] =
                [pc |-> "judge", r |-> r, todo |-> Questioned(r), within |-> Within(r)]]
  /\ gone' = [gone EXCEPT ![t] = {c \in Cage : life[c] = "exiting"}]
  /\ UNCHANGED <<lineage, how>>

\* A walk keeps the parent lock from its start to its answer ...
Heed(t) ==
  call' = [call EXCEPT ![t] =
             IF op'[t].name = "walk" THEN call[t] ELSE Ruled(call[t], verdict'[t])]

AskWalk(t) ==
  /\ At(t, "judge") /\ how \in {"walk", "filter_walk"}
  /\ \/ WalkStart(t, SubtreeOf(call[t].r), Head(call[t].todo))
     \/ WalkHop(t)
  /\ Heed(t)
  /\ UNCHANGED <<how, gone>>

\* ... and the bitsets are read in one region.
AskBits(t) ==
  /\ At(t, "judge") /\ how \in {"bits", "filter_bits"}
  /\ call' = [call EXCEPT ![t] =
       Ruled(call[t], InSubtreeBits(SubtreeOf(call[t].r), Head(call[t].todo)))]
  /\ UNCHANGED <<lineage, how, gone>>

-----------------------------------------------------------------------------
(* What is done with it, with all locks released                           *)

\* The leaf acts on the ids, or the caller is told EACCES.
Finish(t) ==
  /\ At(t, "leaf") \/ At(t, "refused")
  /\ call' = [call EXCEPT ![t] = NoCall]
  /\ gone' = [gone EXCEPT ![t] = {}]
  /\ UNCHANGED <<lineage, how>>

-----------------------------------------------------------------------------
(* Forks and exits, on threads that are not inside a call                  *)

Fork(t, p, c) == ~InCall(t) /\ ForkLink(t, p, c) /\ UNCHANGED <<how, call, gone>>

Exit(t, c) ==
  /\ ~InCall(t) /\ ExitUnlink(t, c)
  /\ gone' = [u \in Thread |-> IF InCall(u) THEN gone[u] \cup {c} ELSE {}]
  /\ UNCHANGED <<how, call>>

GoOn(t) ==
  /\ ForkRank(t) \/ ForkDepth(t) \/ ForkCopy(t) \/ ExitClear(t)
  /\ UNCHANGED <<how, call, gone>>

-----------------------------------------------------------------------------
(* The specification                                                       *)

ThreeiInit ==
  /\ Init
  /\ how \in Hows
  /\ call = [t \in Thread |-> NoCall]
  /\ gone = [t \in Thread |-> {}]

Step(t) == AskWalk(t) \/ AskBits(t) \/ Finish(t) \/ GoOn(t)

ThreeiNext ==
  \E t \in Thread :
    \/ \E r \in Requests : Make(t, r)
    \/ \E p, c \in Cage : Fork(t, p, c)
    \/ \E c \in Cage : Exit(t, c)
    \/ Step(t)

\* A thread inside an operation is a runnable OS thread, and no lock is held
\* while another is waited for.
ThreeiSpec == ThreeiInit /\ [][ThreeiNext]_tvars /\ \A t \in Thread : WF_tvars(Step(t))

-----------------------------------------------------------------------------
(* Properties                                                              *)

Calls == [pc : {"judge", "leaf", "refused"}, r : Requests, todo : Seq(SUBSET Cage),
          within : BOOLEAN]

\* Every variable has its type, and a call has questions left until its verdict.
CallTypeOK ==
  /\ how \in Hows
  /\ call \in [Thread -> {NoCall} \cup Calls]
  /\ \A t \in Thread : InCall(t) => (At(t, "judge") <=> call[t].todo # <<>>)
  /\ gone \in [Thread -> SUBSET Cage]

\* What is left of the verdict when the leaf acts on it: every id that still is
\* the cage the policy was asked about (it lives and has not exited since the
\* call was made) is inside the caller's subtree, under all four policies and
\* whatever was forked, or has exited, between the verdict and the leaf.
LeafInside ==
  \A t \in Thread : At(t, "leaf") =>
    \A c \in Ids(call[t].r) :
      Alive(c) /\ c \notin gone[t] => call[t].r.self \in Upward(c)

\* A call is refused only if an id was outside the caller's subtree, or not
\* living, when the call was made, or has exited since: no half-done fork or
\* exit of another cage costs a caller its access to its descendants.
DescendantsServed ==
  \A t \in Thread : At(t, "refused") /\ call[t].within => Ids(call[t].r) \cap gone[t] # {}

\* Every call gets its verdict and returns, although forks and exits go on.
CallsReturn == \A t \in Thread : InCall(t) ~> ~InCall(t)
=============================================================================
