--------------------------- MODULE DispatchProofs ---------------------------
(***************************************************************************)
(* Proofs about Dispatch, for any number of threads, grates, cages and     *)
(* policies.                                                               *)
(***************************************************************************)
EXTENDS Dispatch, TLAPS

(***************************************************************************)
(* The shape of a stack, which the type needs to be inductive: every frame *)
(* but the innermost is inside a grate of the chain.                       *)
(***************************************************************************)
FrameOK(f) ==
  /\ f.pc = "grate" => f.h.kind = "grate" /\ f.h.grate \in Grate
  /\ f.pc = "dispatch" => f.h \in Handler

Shape ==
  \A t \in Thread : \A i \in 1 .. Len(stack[t]) :
    /\ FrameOK(stack[t][i])
    /\ i < Len(stack[t]) => stack[t][i].pc = "grate"

Typed == TypeOK /\ Shape

-----------------------------------------------------------------------------
(* The three ways a stack changes                                          *)

\* The innermost frame is a frame.
LEMMA TopType ==
  ASSUME Typed, NEW t \in Thread, stack[t] # <<>>
  PROVE  /\ Top(t) \in Frame
         /\ FrameOK(Top(t))
         /\ Len(stack[t]) \in Nat \ {0}
         /\ stack[t] \in Seq(Frame)
  BY DEF Typed, TypeOK, Shape, Top

\* The innermost frame is replaced.
LEMMA SetTopStack ==
  ASSUME Typed, NEW t \in Thread, stack[t] # <<>>, NEW f \in Frame, SetTop(t, f)
  PROVE  /\ stack' \in [Thread -> Seq(Frame)]
         /\ Len(stack'[t]) = Len(stack[t])
         /\ \A i \in 1 .. Len(stack[t]) :
              stack'[t][i] = IF i = Len(stack[t]) THEN f ELSE stack[t][i]
         /\ \A u \in Thread \ {t} : stack'[u] = stack[u]
<1> DEFINE s == stack[t]
<1> DEFINE r == [s EXCEPT ![Len(s)] = f]
<1>1. s \in Seq(Frame) /\ Len(s) \in Nat \ {0}
  BY TopType
<1>2. r \in Seq(Frame) /\ Len(r) = Len(s)
        /\ \A i \in 1 .. Len(s) : r[i] = IF i = Len(s) THEN f ELSE s[i]
  BY <1>1
<1>3. stack' = [stack EXCEPT ![t] = r]
  BY DEF SetTop
<1> HIDE DEF r
<1>4. stack'[t] = r /\ \A u \in Thread \ {t} : stack'[u] = stack[u]
  BY <1>3 DEF Typed, TypeOK
<1> QED BY <1>2, <1>3, <1>4 DEF Typed, TypeOK

\* A frame is pushed.
LEMMA PushStack ==
  ASSUME Typed, NEW t \in Thread, NEW f \in Frame, Push(t, f)
  PROVE  /\ stack' \in [Thread -> Seq(Frame)]
         /\ Len(stack[t]) \in Nat
         /\ Len(stack'[t]) = Len(stack[t]) + 1
         /\ \A i \in 1 .. Len(stack[t]) : stack'[t][i] = stack[t][i]
         /\ stack'[t][Len(stack[t]) + 1] = f
         /\ \A u \in Thread \ {t} : stack'[u] = stack[u]
<1> DEFINE s == stack[t]
<1> DEFINE r == Append(s, f)
<1>1. s \in Seq(Frame) /\ Len(s) \in Nat
  BY DEF Typed, TypeOK
<1>2. r \in Seq(Frame) /\ Len(r) = Len(s) + 1 /\ r[Len(s) + 1] = f
        /\ \A i \in 1 .. Len(s) : r[i] = s[i]
  BY <1>1
<1>3. stack' = [stack EXCEPT ![t] = r]
  BY DEF Push
<1> HIDE DEF r
<1>4. stack'[t] = r /\ \A u \in Thread \ {t} : stack'[u] = stack[u]
  BY <1>3 DEF Typed, TypeOK
<1> QED BY <1>1, <1>2, <1>3, <1>4 DEF Typed, TypeOK

\* What is pushed: a frame of the given caller that is not inside a grate.
Fresh(f, self) ==
  /\ f \in Frame /\ FrameOK(f)
  /\ f.self = self /\ f.pc \in {"kind", "lookup"} /\ f.kind = "none"

LEMMA NewFrameFresh ==
  ASSUME NEW pc \in {"kind", "lookup"}, NEW self \in Id, NEW target \in Id, NEW args \in Args
  PROVE  Fresh(NewFrame(pc, self, target, args), self)
<1> DEFINE f == NewFrame(pc, self, target, args)
<1>1. f \in Frame
  BY DEF NewFrame, Frame, Kind, GrantsKind, Ret
<1>2. f.self = self /\ f.pc \in {"kind", "lookup"} /\ f.kind = "none"
  BY DEF NewFrame
<1> QED BY <1>1, <1>2 DEF Fresh, FrameOK, NewFrame

\* The innermost frame returns into the one below it.
LEMMA ReturnStack ==
  ASSUME Typed, NEW t \in Thread, Len(stack[t]) > 1, NEW f \in Frame, Unwind(t, f)
  PROVE  /\ stack' \in [Thread -> Seq(Frame)]
         /\ Len(stack'[t]) = Len(stack[t]) - 1
         /\ \A i \in 1 .. Len(stack[t]) - 1 :
              stack'[t][i] = IF i = Len(stack[t]) - 1 THEN f ELSE stack[t][i]
         /\ \A u \in Thread \ {t} : stack'[u] = stack[u]
<1> DEFINE s == stack[t]
<1> DEFINE q == SubSeq(s, 1, Len(s) - 1)
<1> DEFINE r == [q EXCEPT ![Len(s) - 1] = f]
<1>1. s \in Seq(Frame) /\ Len(s) \in Nat
  BY DEF Typed, TypeOK
<1>2. q \in Seq(Frame) /\ Len(q) = Len(s) - 1 /\ \A i \in 1 .. Len(s) - 1 : q[i] = s[i]
  BY <1>1
<1>3. r \in Seq(Frame) /\ Len(r) = Len(s) - 1
        /\ \A i \in 1 .. Len(s) - 1 : r[i] = IF i = Len(s) - 1 THEN f ELSE s[i]
  <2> HIDE DEF q
  <2> QED BY <1>1, <1>2
<1>4. stack' = [stack EXCEPT ![t] = r]
  BY DEF Unwind
<1> HIDE DEF r
<1>5. stack'[t] = r /\ \A u \in Thread \ {t} : stack'[u] = stack[u]
  BY <1>4 DEF Typed, TypeOK
<1> QED BY <1>3, <1>4, <1>5 DEF Typed, TypeOK

-----------------------------------------------------------------------------
(* What the steps of a call do to its frame                                *)

\* A step of the policy hook, of the lookup or of the leaf replaces a frame that
\* is outside of every grate by one that is.
Hook(t) == \/ LoadKind(t) \/ LoadNcheck(t) \/ Passes(t) \/ Refused(t)
           \/ Lookup(t) \/ RunLeaf(t)

HookFrame(t, f) ==
  /\ f.pc # "grate" /\ f.self = Top(t).self
  /\ f.pc = "dispatch" => f.h = routes[f.self]
  /\ f.kind \in {"none", policyKind, Top(t).kind}

\* What the steps from the hook to the leaf have in common: they replace the
\* innermost frame and touch neither configuration nor grates.
LEMMA HookStep ==
  ASSUME Typed, NEW t \in Thread, Hook(t)
  PROVE  /\ stack[t] # <<>> /\ Top(t).pc # "grate"
         /\ InCall /\ UNCHANGED grates
         /\ denied' \in Nat /\ (seen' = seen \/ Forget(t))
         /\ \E f \in Frame : FrameOK(f) /\ HookFrame(t, f) /\ SetTop(t, f)
<1>1. stack[t] # <<>> /\ Top(t).pc # "grate"
  BY DEF Hook, LoadKind, LoadNcheck, Passes, Refused, Lookup, RunLeaf, At
<1>2. Top(t) \in Frame /\ FrameOK(Top(t)) /\ denied \in Nat /\ policyKind \in Kind /\ ncheck \in Nat
  BY <1>1, TopType DEF Typed, TypeOK
<1>3. InCall /\ UNCHANGED grates
  BY DEF Hook, LoadKind, LoadNcheck, Passes, Refused, Lookup, RunLeaf
<1>4. denied' \in Nat /\ (seen' = seen \/ Forget(t))
  BY <1>2 DEF Hook, LoadKind, LoadNcheck, Passes, Refused, Lookup, RunLeaf, Verdict
<1>5. \E f \in Frame : FrameOK(f) /\ HookFrame(t, f) /\ SetTop(t, f)
  <2> DEFINE Good(f) == f \in Frame /\ FrameOK(f) /\ HookFrame(t, f)
  <2>1. CASE LoadKind(t)
    <3> DEFINE f == [Top(t) EXCEPT !.pc = "lookup", !.ret = "none", !.kind = "none", !.n = 0]
    <3> DEFINE g == [Top(t) EXCEPT !.pc = "ncheck", !.kind = policyKind]
    <3>1. Good(f) /\ Good(g)
      BY <1>2 DEF Frame, FrameOK, HookFrame, Kind
    <3>2. SetTop(t, f) \/ SetTop(t, g)
      BY <2>1 DEF LoadKind, Verdict
    <3> HIDE DEF f, g
    <3> QED BY <3>1, <3>2
  <2>2. CASE LoadNcheck(t)
    <3> DEFINE f == [Top(t) EXCEPT !.pc = "judge", !.n = ncheck]
    <3>1. Good(f)
      BY <1>2 DEF Frame, FrameOK, HookFrame
    <3>2. SetTop(t, f)
      BY <2>2 DEF LoadNcheck
    <3> HIDE DEF f
    <3> QED BY <3>1, <3>2
  <2>3. CASE Passes(t)
    <3> DEFINE f == [Top(t) EXCEPT !.pc = "lookup", !.ret = "none", !.kind = "none", !.n = 0]
    <3>1. Good(f)
      BY <1>2 DEF Frame, FrameOK, HookFrame, Kind
    <3>2. SetTop(t, f)
      BY <2>3 DEF Passes, Verdict
    <3> HIDE DEF f
    <3> QED BY <3>1, <3>2
  <2>4. CASE Refused(t)
    <3> DEFINE f == [Top(t) EXCEPT !.pc = "return", !.ret = "EACCES_hook", !.kind = "none", !.n = 0]
    <3>1. Good(f)
      BY <1>2 DEF Frame, FrameOK, HookFrame, Kind, Ret
    <3>2. SetTop(t, f)
      BY <2>4 DEF Refused, Verdict
    <3> HIDE DEF f
    <3> QED BY <3>1, <3>2
  <2>5. CASE Lookup(t)
    <3> DEFINE h == routes[Top(t).self]
    <3> DEFINE f == [Top(t) EXCEPT !.pc = "return", !.ret = "ENOSYS"]
    <3> DEFINE g == [Top(t) EXCEPT !.pc = "dispatch", !.h = h]
    <3>1. h \in Handler \cup {NoHandler}
      BY <1>2 DEF Frame, Typed, TypeOK
    <3>2. Good(f)
      BY <1>2 DEF Frame, FrameOK, HookFrame, Ret
    <3>3. g.self = Top(t).self /\ g.h = h /\ g.pc = "dispatch" /\ g.kind = Top(t).kind
      BY <1>2 DEF Frame
    <3>4. h # NoHandler => g \in Frame /\ FrameOK(g)
      <4> HIDE DEF h
      <4> QED BY <1>2, <3>1 DEF Frame, FrameOK
    <3>5. h # NoHandler => Good(g)
      BY <3>3, <3>4 DEF HookFrame
    <3>6. IF h = NoHandler THEN SetTop(t, f) ELSE SetTop(t, g)
      BY <2>5 DEF Lookup, Return
    <3> HIDE DEF f, g, h
    <3> QED BY <3>2, <3>5, <3>6
  <2>6. CASE RunLeaf(t)
    <3> DEFINE f == [Top(t) EXCEPT !.pc = "return", !.ret = "ok"]
    <3>1. Good(f)
      BY <1>2 DEF Frame, FrameOK, HookFrame, Ret
    <3>2. SetTop(t, f)
      BY <2>6 DEF RunLeaf, Return
    <3> HIDE DEF f
    <3> QED BY <3>1, <3>2
  <2> QED BY <2>1, <2>2, <2>3, <2>4, <2>5, <2>6 DEF Hook
<1> QED BY <1>1, <1>3, <1>4, <1>5

\* What a frame keeps from its Lookup until it returns.
Keeps(f, e) == f.self = e.self /\ f.h = e.h /\ f.kind = e.kind

\* Entering a grate, seen from the stack and from the bookkeeping.
LEMMA EnterGrateStep ==
  ASSUME Typed, NEW t \in Thread, EnterGrate(t)
  PROVE  \E f \in Frame :
           LET g == Top(t).h.grate IN
           /\ stack[t] # <<>> /\ Top(t).pc = "dispatch" /\ g \in Grate
           /\ f.pc = "grate" /\ Keeps(f, Top(t)) /\ FrameOK(f) /\ SetTop(t, f)
           /\ ~EnterPanics(t, g) /\ UNCHANGED <<chain, slots>>
           /\ pool' = IF chain[t] = PerCall THEN [pool EXCEPT ![t] = pool[t] \ {g}] ELSE pool
           /\ borrowed' = [borrowed EXCEPT ![t] = borrowed[t] \cup {g}]
<1> DEFINE g == Top(t).h.grate
<1> DEFINE f == [Top(t) EXCEPT !.pc = "grate"]
<1>1. /\ stack[t] # <<>> /\ Top(t).pc = "dispatch" /\ Top(t).h.kind = "grate"
      /\ SetTop(t, f)
      /\ ~EnterPanics(t, g) /\ UNCHANGED <<chain, slots>>
      /\ pool' = IF chain[t] = PerCall THEN [pool EXCEPT ![t] = pool[t] \ {g}] ELSE pool
      /\ borrowed' = [borrowed EXCEPT ![t] = borrowed[t] \cup {g}]
  BY DEF EnterGrate, At, Goto
<1>2. g \in Grate
  BY <1>1 DEF EnterPanics, Typed, TypeOK
<1>3. f \in Frame /\ f.pc = "grate" /\ Keeps(f, Top(t)) /\ FrameOK(f)
  BY <1>1, <1>2, TopType DEF Frame, FrameOK, Keeps
<1> HIDE DEF f
<1> QED BY <1>1, <1>2, <1>3

\* A refusal by a grate's own handler, likewise.
LEMMA GrateDeniesStep ==
  ASSUME Typed, NEW t \in Thread, GrateDenies(t)
  PROVE  \E f \in Frame :
           /\ stack[t] # <<>> /\ Top(t).pc = "grate" /\ Top(t).h.grate \in Grate
           /\ f.pc = "return" /\ f.ret = "EACCES_grate" /\ Keeps(f, Top(t)) /\ FrameOK(f)
           /\ SetTop(t, f) /\ LeaveGrate(t, Top(t).h.grate)
<1> DEFINE f == [Top(t) EXCEPT !.pc = "return", !.ret = "EACCES_grate"]
<1>1. /\ stack[t] # <<>> /\ Top(t).pc = "grate" /\ SetTop(t, f)
      /\ LeaveGrate(t, Top(t).h.grate)
  BY DEF GrateDenies, At, Return
<1>2. /\ f \in Frame /\ f.pc = "return" /\ f.ret = "EACCES_grate" /\ Keeps(f, Top(t))
      /\ FrameOK(f) /\ Top(t).h.grate \in Grate
  BY <1>1, TopType DEF Frame, FrameOK, Keeps, Ret
<1> HIDE DEF f
<1> QED BY <1>1, <1>2

\* The return from a forwarded call, likewise.
LEMMA GrateReturnsStep ==
  ASSUME Typed, NEW t \in Thread, GrateReturns(t)
  PROVE  \E f \in Frame :
           LET e == stack[t][Len(stack[t]) - 1] IN
           /\ Len(stack[t]) > 1 /\ stack[t] # <<>> /\ Top(t).pc = "return"
           /\ e \in Frame /\ e.pc = "grate" /\ e.h.grate \in Grate
           /\ f.pc = "return" /\ f.ret = Top(t).ret /\ Keeps(f, e) /\ FrameOK(f)
           /\ Unwind(t, f) /\ LeaveGrate(t, e.h.grate)
<1> DEFINE e == stack[t][Len(stack[t]) - 1]
<1> DEFINE f == [e EXCEPT !.pc = "return", !.ret = GrateResult(Top(t).ret)]
<1>1. /\ stack[t] # <<>> /\ Top(t).pc = "return" /\ Len(stack[t]) > 1
      /\ Unwind(t, f) /\ LeaveGrate(t, e.h.grate)
  BY DEF GrateReturns, At
<1>2. e \in Frame /\ e.pc = "grate" /\ FrameOK(e) /\ Top(t).ret \in Ret \cup {"none"}
  <2>1. /\ Len(stack[t]) - 1 \in 1 .. Len(stack[t])
        /\ Len(stack[t]) - 1 < Len(stack[t])
        /\ stack[t] \in Seq(Frame) /\ Top(t) \in Frame
    BY <1>1, TopType
  <2>2. e \in Frame
    BY <2>1
  <2>3. e.pc = "grate" /\ FrameOK(e)
    BY <2>1 DEF Typed, Shape
  <2> QED BY <2>1, <2>2, <2>3 DEF Frame
<1>3. /\ f \in Frame /\ f.pc = "return" /\ f.ret = Top(t).ret /\ Keeps(f, e) /\ FrameOK(f)
      /\ e.h.grate \in Grate
  <2> HIDE DEF e
  <2> QED BY <1>2 DEF Frame, FrameOK, Keeps, GrateResult
<1> HIDE DEF f
<1> QED BY <1>1, <1>2, <1>3

\* A grate's own call names the grate and repeats the caller's arguments.
LEMMA GrateForwardsStep ==
  ASSUME Typed, NEW t \in Thread, GrateForwards(t)
  PROVE  LET g == Top(t).h.grate IN
         /\ stack[t] # <<>> /\ Top(t).pc = "grate" /\ g \in Grate
         /\ g \in Id /\ Top(t).args \in Args
         /\ Enter(t, g, g, Top(t).args) /\ UNCHANGED grates
         /\ \E f : Fresh(f, g) /\ Push(t, f)
<1> DEFINE g == Top(t).h.grate
<1>1. /\ stack[t] # <<>> /\ Top(t).pc = "grate" /\ UNCHANGED grates
      /\ Enter(t, g, g, Top(t).args)
  BY DEF GrateForwards, At
<1>2. g \in Grate /\ g \in Id /\ Top(t).args \in Args
  BY <1>1, TopType, ConstantsOK DEF FrameOK, Frame, Id, Grate, GrateId, ChainOf
<1> HIDE DEF g
<1>3. \E f : Fresh(f, g) /\ Push(t, f)
  BY <1>1, <1>2, NewFrameFresh DEF Enter
<1> QED BY <1>1, <1>2, <1>3 DEF g

\* A call issued by a cage, in either form, likewise.
Calls(t) == \/ \E r \in Requests : Call(t, r)
            \/ \E c \in Current : CallNarrow(t, c)

LEMMA CallStep ==
  ASSUME NEW t \in Thread, Calls(t)
  PROVE  /\ stack[t] = <<>> /\ Issued
         /\ \E f, c : c \in Cage /\ Fresh(f, c) /\ Push(t, f)
<1>1. ASSUME NEW r \in Requests, Call(t, r)
      PROVE  \E f, c : c \in Cage /\ Fresh(f, c) /\ Push(t, f)
  <2>1. r.self \in Cage /\ r.self \in Id /\ r.target \in Id /\ r.args \in Args
    BY ConstantsOK DEF Request, Id
  <2> QED BY <1>1, <2>1, NewFrameFresh DEF Call, Enter
<1>2. ASSUME NEW c \in Current, CallNarrow(t, c)
      PROVE  \E f, d : d \in Cage /\ Fresh(f, d) /\ Push(t, f)
  <2> DEFINE zeros == [i \in 1 .. NArgs |-> Unpinned]
  <2>1. c \in Cage /\ c \in Id /\ zeros \in Args
    BY ConstantsOK DEF Id, Args
  <2>2. Push(t, NewFrame("lookup", c, c, zeros))
    BY <1>2 DEF CallNarrow
  <2> HIDE DEF zeros
  <2> QED BY <2>1, <2>2, NewFrameFresh
<1> QED BY <1>1, <1>2 DEF Calls, Call, CallNarrow, MayCall

-----------------------------------------------------------------------------
(* The type invariant                                                      *)

\* Replacing the innermost frame keeps the shape of the stack,
LEMMA SetTopShape ==
  ASSUME Typed, NEW t \in Thread, stack[t] # <<>>, NEW f \in Frame, FrameOK(f), SetTop(t, f)
  PROVE  stack' \in [Thread -> Seq(Frame)] /\ Shape'
<1>1. Len(stack[t]) \in Nat /\ \A u \in Thread : Len(stack'[u]) = Len(stack[u])
  BY TopType, SetTopStack
<1>2. stack' \in [Thread -> Seq(Frame)]
  BY SetTopStack
<1>3. ASSUME NEW u \in Thread, NEW i \in 1 .. Len(stack[u])
      PROVE  /\ FrameOK(stack'[u][i])
             /\ i < Len(stack[u]) => stack'[u][i].pc = "grate"
  <2>1. FrameOK(stack[u][i]) /\ (i < Len(stack[u]) => stack[u][i].pc = "grate")
    BY DEF Typed, Shape
  <2>2. CASE u = t /\ i = Len(stack[t])
    <3>1. stack'[u][i] = f
      BY <2>2, SetTopStack
    <3> QED BY <1>1, <2>2, <3>1
  <2>3. CASE ~(u = t /\ i = Len(stack[t]))
    <3>1. stack'[u][i] = stack[u][i]
      BY <2>3, SetTopStack
    <3> QED BY <2>1, <3>1
  <2> QED BY <2>2, <2>3
<1> QED BY <1>1, <1>2, <1>3 DEF Shape, FrameOK

\* so does pushing one onto a frame that is inside a grate,
LEMMA PushShape ==
  ASSUME Typed, NEW t \in Thread, NEW f \in Frame, FrameOK(f), Push(t, f),
         stack[t] # <<>> => Top(t).pc = "grate"
  PROVE  stack' \in [Thread -> Seq(Frame)] /\ Shape'
<1> DEFINE n == Len(stack[t])
<1>1. n \in Nat /\ (n # 0 => stack[t][n].pc = "grate")
  BY DEF Typed, TypeOK, Top
<1>2. \A i \in 1 .. n + 1 : FrameOK(stack'[t][i]) /\ (i < n + 1 => stack'[t][i].pc = "grate")
  BY <1>1, PushStack DEF Typed, Shape, FrameOK
<1>3. \A u \in Thread : \A i \in 1 .. Len(stack'[u]) :
        FrameOK(stack'[u][i]) /\ (i < Len(stack'[u]) => stack'[u][i].pc = "grate")
  BY <1>2, PushStack DEF Typed, Shape
<1> QED BY <1>3, PushStack DEF Shape, FrameOK

\* and so does unwinding one.
LEMMA ReturnShape ==
  ASSUME Typed, NEW t \in Thread, Len(stack[t]) > 1, NEW f \in Frame, FrameOK(f), Unwind(t, f)
  PROVE  stack' \in [Thread -> Seq(Frame)] /\ Shape'
<1> DEFINE n == Len(stack[t])
<1>1. n \in Nat
  BY DEF Typed, TypeOK
<1>2. /\ stack' \in [Thread -> Seq(Frame)]
      /\ Len(stack'[t]) = n - 1
      /\ \A i \in 1 .. n - 1 : stack'[t][i] = IF i = n - 1 THEN f ELSE stack[t][i]
      /\ \A u \in Thread \ {t} : stack'[u] = stack[u]
  BY ReturnStack
<1>3. ASSUME NEW i \in 1 .. n - 1
      PROVE  FrameOK(stack'[t][i]) /\ (i < n - 1 => stack'[t][i].pc = "grate")
  <2>1. FrameOK(stack[t][i]) /\ stack[t][i].pc = "grate"
    BY <1>1 DEF Typed, Shape
  <2>2. stack'[t][i] = IF i = n - 1 THEN f ELSE stack[t][i]
    BY <1>2
  <2>3. CASE i = n - 1
    BY <2>2, <2>3
  <2>4. CASE i # n - 1
    BY <2>1, <2>2, <2>4
  <2> QED BY <2>3, <2>4
<1>4. \A u \in Thread \ {t} : \A i \in 1 .. Len(stack'[u]) :
        FrameOK(stack'[u][i]) /\ (i < Len(stack'[u]) => stack'[u][i].pc = "grate")
  BY <1>2 DEF Typed, Shape
<1> HIDE DEF n
<1>5. \A u \in Thread : \A i \in 1 .. Len(stack'[u]) :
        FrameOK(stack'[u][i]) /\ (i < Len(stack'[u]) => stack'[u][i].pc = "grate")
  BY <1>2, <1>3, <1>4
<1> QED BY <1>2, <1>5 DEF Shape, FrameOK

\* The initial state has its types.
LEMMA InitTyped == Init => Typed
<1> SUFFICES ASSUME Init PROVE Typed
  OBVIOUS
<1>1. stack \in [Thread -> Seq(Frame)] /\ Shape
  BY DEF Init, Shape
<1>2. seen \in [Thread -> [policies : SUBSET Policy, nchecks : SUBSET Nat]]
  BY DEF Init, NothingSeen
<1> QED BY <1>1, <1>2 DEF Init, Typed, TypeOK, Kind

\* set_policy, set_ncheck and register_* keep the types,
LEMMA ConfigureTyped ==
  ASSUME Typed, Configure
  PROVE  Typed'
<1> USE DEF Typed, Quiet, grates
<1>1. ASSUME stack' = stack PROVE Shape'
  BY <1>1 DEF Shape
<1>2. ASSUME NEW i \in Installer, NEW p \in Policies, SetPolicy(i, p)
      PROVE  Typed'
  <2>1. p \in Policy /\ (p.kind = "bpf" => p.prog \in Program)
    BY ConstantsOK DEF Policy
  <2>2. CASE p.kind = "bpf"
    <3>1. InstallFilter(i, p)
      BY <1>2, <2>2 DEF SetPolicy
    <3>2. bpfProg' \in Program \cup {NoProgram}
      BY <2>1, <2>2, <3>1 DEF InstallFilter, TypeOK
    <3>3. [kind |-> "bpf", prog |-> bpfProg'] \in Policy
      BY <3>2 DEF Policy, Kind
    <3> QED BY <1>1, <2>1, <2>2, <3>1, <3>2, <3>3 DEF InstallFilter, TypeOK, SeePolicy, Kind
  <2>3. CASE p.kind # "bpf"
    <3>1. SetKind(i, p) /\ p \in Policy /\ p.kind \in Kind
      BY <1>2, <2>1, <2>3 DEF SetPolicy, Policy
    <3>2. seen' \in [Thread -> [policies : SUBSET Policy, nchecks : SUBSET Nat]]
      BY <3>1 DEF SetKind, SeePolicy, TypeOK
    <3> QED BY <1>1, <3>1, <3>2 DEF SetKind, TypeOK
  <2> QED BY <2>2, <2>3
<1>3. ASSUME NEW n \in Nchecks, SetNcheck(n)
      PROVE  Typed'
  <2>1. (orderly /\ Disciplined') \in BOOLEAN
    BY DEF Disciplined, Typed, TypeOK
  <2> QED BY <1>1, <1>3, <2>1, ConstantsOK DEF SetNcheck, TypeOK, SeeNcheck
<1>4. ASSUME NEW o \in Offers, Register(o[1], o[2])
      PROVE  Typed'
  <2>1. o[1] \in Id /\ o[2] \in Handler
    BY ConstantsOK
  <2>2. (orderly /\ Disciplined') \in BOOLEAN
    BY DEF Disciplined
  <2> QED BY <1>1, <1>4, <2>1, <2>2 DEF Register, TypeOK, config
<1> QED BY <1>2, <1>3, <1>4 DEF Configure

\* so do the steps from the hook to the leaf,
LEMMA HookTyped ==
  ASSUME Typed, NEW t \in Thread, Hook(t)
  PROVE  Typed'
<1>1. /\ stack[t] # <<>> /\ InCall /\ UNCHANGED grates /\ denied' \in Nat
      /\ seen' = seen \/ Forget(t)
  BY HookStep
<1>2. PICK f \in Frame : FrameOK(f) /\ SetTop(t, f)
  BY HookStep
<1>3. stack' \in [Thread -> Seq(Frame)] /\ Shape'
  BY <1>1, <1>2, SetTopShape
<1>4. seen' \in [Thread -> [policies : SUBSET Policy, nchecks : SUBSET Nat]]
  <2>1. NothingSeen \in [policies : SUBSET Policy, nchecks : SUBSET Nat]
    BY DEF NothingSeen
  <2> QED BY <1>1, <2>1 DEF Forget, Typed, TypeOK
<1> QED BY <1>1, <1>3, <1>4 DEF Typed, TypeOK, InCall, config, grates

\* so do the steps into, inside and out of a grate,
LEMMA GrateTyped ==
  ASSUME Typed, NEW t \in Thread,
         EnterGrate(t) \/ GrateDenies(t) \/ GrateForwards(t) \/ GrateReturns(t)
  PROVE  Typed'
<1>1. CASE EnterGrate(t)
  <2> DEFINE g == Top(t).h.grate
  <2>1. PICK f \in Frame :
           /\ stack[t] # <<>> /\ g \in Grate /\ FrameOK(f) /\ SetTop(t, f)
           /\ pool' = IF chain[t] = PerCall THEN [pool EXCEPT ![t] = pool[t] \ {g}] ELSE pool
           /\ borrowed' = [borrowed EXCEPT ![t] = borrowed[t] \cup {g}]
    BY <1>1, EnterGrateStep
  <2>2. stack' \in [Thread -> Seq(Frame)] /\ Shape'
    BY <2>1, SetTopShape
  <2> HIDE DEF g
  <2>3. pool' \in [Thread -> SUBSET Grate] /\ borrowed' \in [Thread -> SUBSET Grate]
    BY <2>1 DEF Typed, TypeOK
  <2> QED BY <1>1, <2>2, <2>3 DEF EnterGrate, Typed, TypeOK, InCall, config
<1>2. ASSUME NEW g \in Grate, LeaveGrate(t, g)
      PROVE  /\ pool' \in [Thread -> SUBSET Grate]
             /\ borrowed' \in [Thread -> SUBSET Grate]
             /\ UNCHANGED <<chain, slots>>
  BY <1>2 DEF LeaveGrate, Typed, TypeOK
<1>3. CASE GrateDenies(t)
  <2>1. PICK f \in Frame : /\ stack[t] # <<>> /\ Top(t).h.grate \in Grate /\ FrameOK(f)
                           /\ SetTop(t, f) /\ LeaveGrate(t, Top(t).h.grate)
    BY <1>3, GrateDeniesStep
  <2>2. stack' \in [Thread -> Seq(Frame)] /\ Shape'
    BY <2>1, SetTopShape
  <2> QED BY <1>2, <1>3, <2>1, <2>2 DEF GrateDenies, Typed, TypeOK, InCall, config
<1>4. CASE GrateForwards(t)
  <2>1. stack' \in [Thread -> Seq(Frame)] /\ Shape'
    BY <1>4, GrateForwardsStep, PushShape DEF Fresh
  <2>2. seen' \in [Thread -> [policies : SUBSET Policy, nchecks : SUBSET Nat]]
    BY <1>4 DEF GrateForwards, Enter, CurrentPolicy, Policy, Typed, TypeOK
  <2> QED BY <1>4, <2>1, <2>2 DEF GrateForwards, Typed, TypeOK, InCall, config, grates
<1>5. CASE GrateReturns(t)
  <2> DEFINE g == stack[t][Len(stack[t]) - 1].h.grate
  <2>1. PICK f \in Frame : /\ Len(stack[t]) > 1 /\ g \in Grate /\ FrameOK(f)
                           /\ Unwind(t, f) /\ LeaveGrate(t, g)
    BY <1>5, GrateReturnsStep
  <2>2. stack' \in [Thread -> Seq(Frame)] /\ Shape'
    BY <2>1, ReturnShape
  <2> HIDE DEF g
  <2> QED BY <1>2, <1>5, <2>1, <2>2 DEF GrateReturns, Typed, TypeOK, InCall, config
<1> QED BY <1>1, <1>3, <1>4, <1>5

\* and so do the steps of a thread outside of grates.
LEMMA CallerTyped ==
  ASSUME Typed, NEW t \in Thread,
         \/ \E m \in Modes, n \in Lengths : BuildChain(t, m, n)
         \/ Teardown(t) \/ Calls(t)
         \/ Answer(t) \/ PolicyAborts(t) \/ EnterAborts(t)
  PROVE  Typed'
<1>1. ASSUME NEW m \in Modes, NEW n \in Lengths, BuildChain(t, m, n)
      PROVE  Typed'
  <2>1. ChainOf(n) \subseteq Grate
    BY ConstantsOK DEF ChainOf, Grate
  <2> QED BY <1>1, <2>1, ConstantsOK DEF BuildChain, Typed, TypeOK, Shape, config
<1>2. CASE Teardown(t)
  BY <1>2 DEF Teardown, Typed, TypeOK, Shape, config
<1>3. CASE Calls(t)
  <2>1. stack' \in [Thread -> Seq(Frame)] /\ Shape'
    BY <1>3, CallStep, PushShape DEF Fresh
  <2>2. seen' \in [Thread -> [policies : SUBSET Policy, nchecks : SUBSET Nat]]
    <3>1. [policies |-> {CurrentPolicy}, nchecks |-> {ncheck}]
            \in [policies : SUBSET Policy, nchecks : SUBSET Nat]
      BY DEF CurrentPolicy, Policy, Typed, TypeOK
    <3>2. (\E r \in Requests : Call(t, r)) \/ seen' = seen
      BY <1>3 DEF Calls, CallNarrow
    <3> QED BY <3>1, <3>2 DEF Call, Enter, Typed, TypeOK
  <2>3. Issued
    BY <1>3, CallStep
  <2>4. (orderly /\ Disciplined') \in BOOLEAN
    BY DEF Disciplined
  <2> QED BY <2>1, <2>2, <2>3, <2>4 DEF Issued, Typed, TypeOK, config, grates
<1>4. CASE Answer(t)
  <2>1. Top(t).ret \in Ret \cup {"none"}
    BY <1>4, TopType DEF Answer, At, Frame
  <2>2. stack' = [stack EXCEPT ![t] = <<>>] /\ <<>> \in Seq(Frame)
    BY <1>4 DEF Answer
  <2>3. stack' \in [Thread -> Seq(Frame)] /\ Shape'
    <3>1. stack' \in [Thread -> Seq(Frame)] /\ Len(stack'[t]) = 0
            /\ \A u \in Thread \ {t} : stack'[u] = stack[u]
      BY <2>2 DEF Typed, TypeOK
    <3> QED BY <3>1 DEF Typed, Shape, FrameOK
  <2> QED BY <1>4, <2>1, <2>3 DEF Answer, Typed, TypeOK, config, grates
<1>5. CASE PolicyAborts(t) \/ EnterAborts(t)
  BY <1>5 DEF PolicyAborts, EnterAborts, Abort, Typed, TypeOK, Shape, config, grates
<1> QED BY <1>1, <1>2, <1>3, <1>4, <1>5

\* Types and shape are inductive.
LEMMA NextTyped == Typed /\ [Next]_vars => Typed'
<1> SUFFICES ASSUME Typed, [Next]_vars PROVE Typed'
  OBVIOUS
<1>1. CASE UNCHANGED vars
  BY <1>1 DEF vars, config, grates, Typed, TypeOK, Shape
<1>2. CASE Next
  BY <1>2, ConfigureTyped, HookTyped, GrateTyped, CallerTyped DEF Next, Step, Hook, Calls
<1> QED BY <1>1, <1>2

\* Every variable keeps its type, and stacks their shape: the threads' calls,
\* the register_* functions and set_policy may interleave in any way.
THEOREM TypeSafety == Spec => []Typed
<1> QED BY InitTyped, NextTyped, PTL DEF Spec

\* TypeOK on its own.
THEOREM TypeCorrect == Spec => []TypeOK
<1>1. Typed => TypeOK
  BY DEF Typed
<1> QED BY <1>1, TypeSafety, PTL

-----------------------------------------------------------------------------
(* The trampoline's bookkeeping                                            *)

\* Only one thread's chain and stack change in a step.
LEMMA OthersAccounted ==
  ASSUME VmctxAccounted, NEW t \in Thread, Accounted(t)',
         \A u \in Thread \ {t} : stack'[u] = stack[u],
         \A u \in Thread \ {t} : chain'[u] = chain[u] /\ slots'[u] = slots[u] /\ pool'[u] = pool[u]
                                   /\ borrowed'[u] = borrowed[u]
  PROVE  VmctxAccounted'
<1>1. ASSUME NEW u \in Thread \ {t} PROVE Accounted(u)'
  <2>1. Inside(u)' = Inside(u)
    BY DEF Inside
  <2>2. Entered(u)' = Entered(u)
    BY <2>1 DEF Entered
  <2> QED BY <2>1, <2>2 DEF VmctxAccounted, Accounted
<1> QED BY <1>1 DEF VmctxAccounted

\* Outside of grates the bookkeeping is left alone.
LEMMA OutsideAccounted ==
  ASSUME Typed, VmctxAccounted, NEW t \in Thread, stack[t] # <<>>, NEW f \in Frame,
         SetTop(t, f), Top(t).pc # "grate", f.pc # "grate", UNCHANGED grates
  PROVE  VmctxAccounted'
<1>1. /\ Len(stack[t]) \in Nat \ {0}
      /\ Len(stack'[t]) = Len(stack[t])
      /\ \A i \in 1 .. Len(stack[t]) :
           stack'[t][i] = IF i = Len(stack[t]) THEN f ELSE stack[t][i]
      /\ \A u \in Thread \ {t} : stack'[u] = stack[u]
  BY SetTopStack, TopType
<1>2. /\ Inside(t)' = Inside(t)
      /\ \A i \in Inside(t) : stack'[t][i] = stack[t][i]
  BY <1>1 DEF Inside, Top
<1>3. Entered(t)' = Entered(t)
  BY <1>2 DEF Entered
<1>4. Accounted(t)'
  BY <1>2, <1>3 DEF VmctxAccounted, Accounted, grates
<1> QED BY <1>1, <1>4, OthersAccounted DEF grates

\* What enters a grate takes its vmctx and borrows its Store.
LEMMA EnterGrateAccounted ==
  ASSUME Typed, VmctxAccounted, NEW t \in Thread, EnterGrate(t)
  PROVE  VmctxAccounted'
<1> DEFINE n == Len(stack[t])
<1> DEFINE g == Top(t).h.grate
<1>1. PICK f \in Frame :
         /\ stack[t] # <<>> /\ Top(t).pc = "dispatch" /\ g \in Grate
         /\ f.pc = "grate" /\ f.h.grate = g /\ SetTop(t, f)
         /\ ~EnterPanics(t, g) /\ UNCHANGED <<chain, slots>>
         /\ pool' = IF chain[t] = PerCall THEN [pool EXCEPT ![t] = pool[t] \ {g}] ELSE pool
         /\ borrowed' = [borrowed EXCEPT ![t] = borrowed[t] \cup {g}]
  BY EnterGrateStep DEF Keeps
<1>2. n \in Nat \ {0} /\ Top(t) = stack[t][n]
  BY <1>1, TopType DEF Top
<1> HIDE DEF g
<1>4. /\ Len(stack'[t]) = n
      /\ \A i \in 1 .. n : stack'[t][i] = IF i = n THEN f ELSE stack[t][i]
      /\ \A u \in Thread \ {t} : stack'[u] = stack[u]
  BY <1>1, SetTopStack
<1> HIDE DEF n
<1>5. Inside(t)' = Inside(t) \cup {n} /\ n \notin Inside(t) /\ n \in 1 .. n
  BY <1>1, <1>2, <1>4 DEF Inside, n
<1>6. \A i \in Inside(t) : stack'[t][i] = stack[t][i] /\ i # n
  BY <1>4, <1>5 DEF Inside, n
<1>7. stack'[t][n].h.grate = g
  BY <1>1, <1>4, <1>5
<1>8. Entered(t)' = Entered(t) \cup {g}
  BY <1>5, <1>6, <1>7 DEF Entered
<1>9. g \notin Entered(t) /\ g \in slots[t] /\ chain[t] # NoChain
  BY <1>1 DEF EnterPanics, VmctxAccounted, Accounted, Typed, TypeOK
<1>10. \A i, j \in Inside(t)' : stack'[t][i].h.grate = stack'[t][j].h.grate => i = j
  BY <1>5, <1>6, <1>7, <1>9 DEF VmctxAccounted, Accounted, Entered
<1>11. /\ borrowed'[t] = borrowed[t] \cup {g}
       /\ pool'[t] = IF chain[t] = PerCall THEN pool[t] \ {g} ELSE pool[t]
       /\ chain[t] \in {PerCall, Cached, NoChain} /\ slots' = slots
       /\ \A u \in Thread \ {t} : chain'[u] = chain[u] /\ slots'[u] = slots[u] /\ pool'[u] = pool[u]
                                    /\ borrowed'[u] = borrowed[u]
  BY <1>1 DEF Typed, TypeOK
<1>12. Accounted(t)'
  BY <1>1, <1>8, <1>9, <1>10, <1>11, ConstantsOK DEF VmctxAccounted, Accounted, PerCall, Cached
<1> QED BY <1>4, <1>11, <1>12, OthersAccounted

\* On the way out: the frame that was inside the grate is the last that was.
LEMMA LeaveGrateAccounted ==
  ASSUME Typed, VmctxAccounted, NEW t \in Thread, NEW d \in Inside(t),
         LeaveGrate(t, stack[t][d].h.grate),
         Inside(t)' = Inside(t) \ {d},
         \A i \in Inside(t)' : stack'[t][i] = stack[t][i],
         \A u \in Thread \ {t} : stack'[u] = stack[u]
  PROVE  VmctxAccounted'
<1> DEFINE g == stack[t][d].h.grate
<1>1. Entered(t)' = Entered(t) \ {g}
  BY DEF Entered, VmctxAccounted, Accounted
<1>2. \A i, j \in Inside(t)' : stack'[t][i].h.grate = stack'[t][j].h.grate => i = j
  BY DEF VmctxAccounted, Accounted
<1>3. g \in Grate
  BY DEF Typed, Shape, FrameOK, Inside
<1> HIDE DEF g
<1>4. /\ chain' = chain /\ slots' = slots
      /\ borrowed'[t] = borrowed[t] \ {g}
      /\ pool'[t] = IF chain[t] = PerCall THEN pool[t] \cup {g} ELSE pool[t]
      /\ chain[t] \in {PerCall, Cached, NoChain}
      /\ \A u \in Thread \ {t} : chain'[u] = chain[u] /\ slots'[u] = slots[u] /\ pool'[u] = pool[u]
                                   /\ borrowed'[u] = borrowed[u]
  BY DEF LeaveGrate, Typed, TypeOK, g
<1>5. g \in Entered(t)
  BY DEF Entered, g
<1>6. Accounted(t)'
  BY <1>1, <1>2, <1>3, <1>4, <1>5, ConstantsOK DEF VmctxAccounted, Accounted, PerCall, Cached
<1> QED BY <1>4, <1>6, OthersAccounted

\* A refusal gives both back.
LEMMA GrateDeniesAccounted ==
  ASSUME Typed, VmctxAccounted, NEW t \in Thread, GrateDenies(t)
  PROVE  VmctxAccounted'
<1> DEFINE n == Len(stack[t])
<1>1. PICK f \in Frame : /\ stack[t] # <<>> /\ Top(t).pc = "grate" /\ f.pc = "return"
                         /\ SetTop(t, f) /\ LeaveGrate(t, Top(t).h.grate)
  BY GrateDeniesStep
<1>2. n \in Nat \ {0} /\ Top(t) = stack[t][n]
  BY <1>1, TopType DEF Top
<1>3. /\ Len(stack'[t]) = n
      /\ \A i \in 1 .. n : stack'[t][i] = IF i = n THEN f ELSE stack[t][i]
      /\ \A u \in Thread \ {t} : stack'[u] = stack[u]
  BY <1>1, SetTopStack
<1>4. n \in Inside(t) /\ Inside(t)' = Inside(t) \ {n}
  BY <1>1, <1>2, <1>3 DEF Inside
<1>5. \A i \in Inside(t)' : stack'[t][i] = stack[t][i]
  BY <1>3, <1>4 DEF Inside
<1> QED BY <1>1, <1>2, <1>3, <1>4, <1>5, LeaveGrateAccounted

\* So does the return from a forwarded call.
LEMMA GrateReturnsAccounted ==
  ASSUME Typed, VmctxAccounted, NEW t \in Thread, GrateReturns(t)
  PROVE  VmctxAccounted'
<1> DEFINE n == Len(stack[t])
<1> DEFINE e == stack[t][n - 1]
<1>1. PICK f \in Frame : /\ n > 1 /\ stack[t] # <<>> /\ Top(t).pc = "return" /\ e.pc = "grate"
                         /\ f.pc = "return" /\ Unwind(t, f) /\ LeaveGrate(t, e.h.grate)
  BY GrateReturnsStep
<1>2. n \in Nat \ {0} /\ Top(t) = stack[t][n]
  BY <1>1, TopType DEF Top
<1>4. /\ Len(stack'[t]) = n - 1
      /\ \A i \in 1 .. n - 1 : stack'[t][i] = IF i = n - 1 THEN f ELSE stack[t][i]
      /\ \A u \in Thread \ {t} : stack'[u] = stack[u]
  BY <1>1, ReturnStack
<1>5. n - 1 \in Inside(t) /\ Inside(t)' = Inside(t) \ {n - 1}
  <2>1. n \notin Inside(t) /\ n - 1 \in Inside(t) /\ n - 1 \notin Inside(t)'
    BY <1>1, <1>2, <1>4 DEF Inside
  <2>2. ASSUME NEW i \in 1 .. n - 2
        PROVE  i \in Inside(t) <=> i \in Inside(t)'
    <3>1. i \in 1 .. n /\ i \in 1 .. n - 1 /\ i # n - 1
      BY <1>2
    <3>2. stack'[t][i] = stack[t][i]
      BY <1>4, <3>1
    <3> QED BY <1>4, <3>1, <3>2 DEF Inside
  <2>3. Inside(t) \subseteq 1 .. n /\ Inside(t)' \subseteq 1 .. n - 1
    BY <1>4 DEF Inside
  <2> HIDE DEF n
  <2> QED BY <1>2, <2>1, <2>2, <2>3
<1>6. \A i \in Inside(t)' : stack'[t][i] = stack[t][i]
  BY <1>4, <1>5 DEF Inside
<1> QED BY <1>1, <1>4, <1>5, <1>6, LeaveGrateAccounted

\* A new frame is inside no grate.
LEMMA PushAccounted ==
  ASSUME Typed, VmctxAccounted, NEW t \in Thread, NEW f \in Frame, f.pc # "grate",
         Push(t, f), UNCHANGED grates
  PROVE  VmctxAccounted'
<1> DEFINE n == Len(stack[t])
<1>1. /\ n \in Nat
      /\ Len(stack'[t]) = n + 1
      /\ \A i \in 1 .. n : stack'[t][i] = stack[t][i]
      /\ stack'[t][n + 1] = f
      /\ \A u \in Thread \ {t} : stack'[u] = stack[u]
  BY PushStack
<1>2. Inside(t)' = Inside(t) /\ \A i \in Inside(t) : stack'[t][i] = stack[t][i]
  BY <1>1 DEF Inside
<1>3. Entered(t)' = Entered(t)
  BY <1>2 DEF Entered
<1>4. Accounted(t)'
  BY <1>2, <1>3 DEF VmctxAccounted, Accounted, grates
<1> QED BY <1>1, <1>4, OthersAccounted DEF grates

\* The steps from the hook to the leaf are outside of grates.
LEMMA HookAccounted ==
  ASSUME Typed, VmctxAccounted, NEW t \in Thread, Hook(t)
  PROVE  VmctxAccounted'
  BY HookStep, OutsideAccounted DEF HookFrame

\* The bookkeeping is inductive, given the types.
LEMMA NextAccounted == Typed /\ VmctxAccounted /\ [Next]_vars => VmctxAccounted'
<1> SUFFICES ASSUME Typed, VmctxAccounted, [Next]_vars PROVE VmctxAccounted'
  OBVIOUS
<1>1. ASSUME stack' = stack, UNCHANGED grates PROVE VmctxAccounted'
  <2>1. ASSUME NEW t \in Thread PROVE Accounted(t)'
    <3>1. Inside(t)' = Inside(t)
      BY <1>1 DEF Inside
    <3>2. Entered(t)' = Entered(t)
      BY <1>1, <3>1 DEF Entered
    <3> QED BY <1>1, <3>1, <3>2 DEF VmctxAccounted, Accounted, grates
  <2> QED BY <2>1 DEF VmctxAccounted
<1>2. CASE UNCHANGED vars
  BY <1>1, <1>2 DEF vars
<1>3. CASE Configure
  BY <1>1, <1>3 DEF Configure, SetPolicy, InstallFilter, SetKind, SetNcheck, Register, Quiet
<1>4. ASSUME NEW t \in Thread, PolicyAborts(t) \/ EnterAborts(t) PROVE VmctxAccounted'
  BY <1>1, <1>4 DEF PolicyAborts, EnterAborts, Abort
<1>5. ASSUME NEW t \in Thread, GrateForwards(t) PROVE VmctxAccounted'
  BY <1>5, GrateForwardsStep, PushAccounted DEF Fresh
<1>6. ASSUME NEW t \in Thread, Calls(t) PROVE VmctxAccounted'
  BY <1>6, CallStep, PushAccounted DEF Fresh, Issued
<1>7. ASSUME NEW t \in Thread, Len(stack[t]) = 1, Top(t).pc = "return", UNCHANGED grates,
             stack' = [stack EXCEPT ![t] = <<>>]
      PROVE  VmctxAccounted'
  <2>1. stack'[t] = <<>> /\ \A u \in Thread \ {t} : stack'[u] = stack[u]
    BY <1>7 DEF Typed, TypeOK
  <2>2. Inside(t) = {} /\ Inside(t)' = {}
    BY <1>7, <2>1 DEF Inside, Top
  <2>3. Entered(t)' = Entered(t)
    BY <2>2 DEF Entered
  <2>4. Accounted(t)'
    BY <1>7, <2>2, <2>3 DEF VmctxAccounted, Accounted, grates
  <2> QED BY <1>7, <2>1, <2>4, OthersAccounted DEF grates
<1>8. ASSUME NEW t \in Thread, Answer(t) PROVE VmctxAccounted'
  BY <1>7, <1>8 DEF Answer, At
<1>9. ASSUME NEW t \in Thread, stack[t] = <<>>, stack' = stack,
             NEW m \in {PerCall, Cached, NoChain}, chain' = [chain EXCEPT ![t] = m],
             NEW S, m = NoChain => S = {}, slots' = [slots EXCEPT ![t] = S],
             pool' = [pool EXCEPT ![t] = S],
             borrowed' = [borrowed EXCEPT ![t] = {}]
      PROVE  VmctxAccounted'
  <2>1. Inside(t)' = {} /\ Entered(t)' = {}
    BY <1>9 DEF Inside, Entered
  <2>2. chain'[t] = m /\ slots'[t] = S /\ pool'[t] = S /\ borrowed'[t] = {}
    BY <1>9 DEF Typed, TypeOK
  <2>3. S \ {} = S
    OBVIOUS
  <2>5. Accounted(t)'
    BY <1>9, <2>1, <2>2, <2>3, ConstantsOK DEF Accounted
  <2>4. \A u \in Thread \ {t} : chain'[u] = chain[u] /\ slots'[u] = slots[u] /\ pool'[u] = pool[u]
                                  /\ borrowed'[u] = borrowed[u] /\ stack'[u] = stack[u]
    BY <1>9 DEF Typed, TypeOK
  <2> QED BY <2>4, <2>5, OthersAccounted
<1>10. ASSUME NEW t \in Thread, NEW m \in Modes, NEW n \in Lengths, BuildChain(t, m, n)
       PROVE  VmctxAccounted'
  <2>1. m \in {PerCall, Cached} /\ m # NoChain
    BY ConstantsOK
  <2> QED BY <1>9, <1>10, <2>1 DEF BuildChain
<1>11. ASSUME NEW t \in Thread, Teardown(t) PROVE VmctxAccounted'
  BY <1>9, <1>11 DEF Teardown
<1>12. CASE Next
  <2>1. ASSUME NEW t \in Thread, Step(t) PROVE VmctxAccounted'
    BY <2>1, <1>4, <1>5, <1>8, HookAccounted, EnterGrateAccounted, GrateDeniesAccounted,
       GrateReturnsAccounted DEF Step, Hook
  <2> QED BY <1>3, <1>6, <1>10, <1>11, <1>12, <2>1 DEF Next, Calls
<1> QED BY <1>2, <1>12

\* No thread has a chain at the start.
LEMMA InitAccounted == Init => VmctxAccounted
<1> SUFFICES ASSUME Init, NEW t \in Thread PROVE Accounted(t)
  BY DEF VmctxAccounted
<1>1. Inside(t) = {} /\ Entered(t) = {}
  BY DEF Init, Inside, Entered
<1> QED BY <1>1, ConstantsOK DEF Init, Accounted

\* The vmctx pool and the Store borrows always agree with the grates each
\* thread is inside, for chains of any length and either trampoline mode.
THEOREM Accounting == Spec => []VmctxAccounted
<1>1. Init => Typed /\ VmctxAccounted
  BY InitTyped, InitAccounted
<1>2. (Typed /\ VmctxAccounted) /\ [Next]_vars => (Typed /\ VmctxAccounted)'
  BY NextTyped, NextAccounted
<1> QED BY <1>1, <1>2, PTL DEF Spec

-----------------------------------------------------------------------------
(* Aborts                                                                  *)

\* Whoever may ask for the filter finds one.
FilterThere ==
  /\ policyKind = "bpf" => bpfProg # NoProgram
  /\ \A i \in Installer : installing[i] # NoProgram => bpfProg # NoProgram
  /\ \A t \in Thread : \A i \in 1 .. Len(stack[t]) :
       stack[t][i].kind = "bpf" => bpfProg # NoProgram

\* Up t's stack each call is issued by a later grate of t's chain than the ones
\* before it.
Ascending(t) ==
  \A i \in 1 .. Len(stack[t]) :
    /\ stack[t][i].self \in Cage \cup slots[t]
    /\ stack[t][i].pc \in {"dispatch", "grate"} => Leads(t, stack[t][i].self, stack[t][i].h)
    /\ \A j \in 1 .. Len(stack[t]) :
         i < j => stack[t][j].self \in Grate /\ stack[t][i].h.grate <= stack[t][j].self

Discipline == orderly => Disciplined /\ \A t \in Thread : Ascending(t)

\* A chain is built and torn down outside of calls.
SlotsKept == \A t \in Thread : stack[t] # <<>> => slots'[t] = slots[t]

\* How the stack of a thread can change in a step, for the two invariants above.
LEMMA StackSteps ==
  ASSUME Typed, Next
  PROVE  \/ stack' = stack /\ SlotsKept
         \/ \E t \in Thread, f \in Frame :
              /\ stack[t] # <<>> /\ SetTop(t, f) /\ InCall /\ slots' = slots
              /\ HookFrame(t, f) \/ (Keeps(f, Top(t)) /\ Top(t).pc \in {"dispatch", "grate"})
         \/ \E t \in Thread, f \in Frame :
              /\ stack[t] # <<>> /\ Top(t).pc = "grate"
              /\ Fresh(f, Top(t).h.grate) /\ Push(t, f) /\ InCall /\ slots' = slots
         \/ \E t \in Thread, f \in Frame :
              /\ Len(stack[t]) > 1 /\ stack[t][Len(stack[t]) - 1].pc = "grate"
              /\ Keeps(f, stack[t][Len(stack[t]) - 1])
              /\ Unwind(t, f) /\ InCall /\ slots' = slots
         \/ \E t \in Thread : Calls(t)
         \/ \E t \in Thread : Answer(t)
<1>1. ASSUME Configure
      PROVE  stack' = stack /\ SlotsKept
  BY <1>1 DEF Configure, SetPolicy, InstallFilter, SetKind, SetNcheck, Register, Quiet, grates,
     SlotsKept
<1>2. ASSUME NEW t \in Thread,
             (\E m \in Modes, n \in Lengths : BuildChain(t, m, n)) \/ Teardown(t)
               \/ PolicyAborts(t) \/ EnterAborts(t)
      PROVE  stack' = stack /\ SlotsKept
  BY <1>2 DEF BuildChain, Teardown, PolicyAborts, EnterAborts, Abort, SlotsKept, grates, Typed, TypeOK
<1>3. ASSUME NEW t \in Thread, Hook(t)
      PROVE  \E f \in Frame : stack[t] # <<>> /\ HookFrame(t, f) /\ SetTop(t, f)
                                /\ InCall /\ slots' = slots
  BY <1>3, HookStep DEF grates
<1>4. ASSUME NEW t \in Thread, EnterGrate(t) \/ GrateDenies(t)
      PROVE  \E f \in Frame : stack[t] # <<>> /\ Keeps(f, Top(t)) /\ SetTop(t, f)
                                /\ Top(t).pc \in {"dispatch", "grate"} /\ InCall /\ slots' = slots
  BY <1>4, EnterGrateStep, GrateDeniesStep DEF EnterGrate, GrateDenies, LeaveGrate
<1>5. ASSUME NEW t \in Thread, GrateForwards(t)
      PROVE  \E f \in Frame :
               /\ stack[t] # <<>> /\ Top(t).pc = "grate"
               /\ Fresh(f, Top(t).h.grate) /\ Push(t, f) /\ InCall /\ slots' = slots
  BY <1>5, GrateForwardsStep DEF GrateForwards, grates, Fresh
<1>6. ASSUME NEW t \in Thread, GrateReturns(t)
      PROVE  \E f \in Frame :
               /\ Len(stack[t]) > 1 /\ stack[t][Len(stack[t]) - 1].pc = "grate"
               /\ Keeps(f, stack[t][Len(stack[t]) - 1])
               /\ Unwind(t, f) /\ InCall /\ slots' = slots
  BY <1>6, GrateReturnsStep DEF GrateReturns, LeaveGrate
<1> QED BY <1>1, <1>2, <1>3, <1>4, <1>5, <1>6 DEF Next, Step, Hook, Calls

\* Only set_policy and set_ncheck change the configuration.
LEMMA ConfigSteps ==
  ASSUME Next
  PROVE  \/ UNCHANGED config
         \/ \E i \in Installer, p \in Policies : SetPolicy(i, p)
         \/ \E n \in Nchecks : SetNcheck(n)
<1>1. ASSUME NEW t \in Thread, Step(t) PROVE UNCHANGED config
  BY <1>1 DEF Step, LoadKind, LoadNcheck, Passes, Refused, PolicyAborts, Lookup, RunLeaf, EnterGrate,
     EnterAborts, GrateDenies, GrateForwards, GrateReturns, Answer, InCall, Abort
<1>2. ASSUME NEW t \in Thread,
             \/ \E m \in Modes, n \in Lengths : BuildChain(t, m, n)
             \/ Teardown(t) \/ Calls(t)
      PROVE  UNCHANGED config
  BY <1>2, CallStep DEF BuildChain, Teardown, Issued
<1> QED BY <1>1, <1>2 DEF Next, Calls, Configure, Register

\* The program is there before the kind is, and never goes away.
LEMMA FilterStays ==
  ASSUME Typed, FilterThere, Next, bpfProg' = NoProgram
  PROVE  /\ policyKind # "bpf" /\ policyKind' # "bpf"
         /\ \A i \in Installer : installing'[i] = NoProgram
         /\ \A t \in Thread : \A i \in 1 .. Len(stack[t]) : stack[t][i].kind # "bpf"
<1>1. ASSUME bpfProg = NoProgram, policyKind' # "bpf", installing' = installing
      PROVE  /\ policyKind # "bpf" /\ policyKind' # "bpf"
             /\ \A i \in Installer : installing'[i] = NoProgram
             /\ \A t \in Thread : \A i \in 1 .. Len(stack[t]) : stack[t][i].kind # "bpf"
  BY <1>1 DEF FilterThere
<1>2. CASE UNCHANGED config
  BY <1>1, <1>2 DEF config, FilterThere
<1>3. ASSUME NEW i \in Installer, NEW p \in Policies, SetPolicy(i, p)
      PROVE  bpfProg = NoProgram /\ policyKind' # "bpf" /\ installing' = installing
  <2>1. p.kind = "bpf" => p.prog # NoProgram
    BY ConstantsOK
  <2>2. p.kind # "bpf"
    BY <1>3, <2>1 DEF SetPolicy, InstallFilter, FilterThere
  <2> QED BY <1>3, <2>2 DEF SetPolicy, SetKind
<1>4. ASSUME NEW n \in Nchecks, SetNcheck(n)
      PROVE  bpfProg = NoProgram /\ policyKind' # "bpf" /\ installing' = installing
  BY <1>4 DEF SetNcheck, FilterThere
<1> QED BY <1>1, <1>2, <1>3, <1>4, ConfigSteps

\* The filter's presence is inductive, given the types.
LEMMA NextFilter == Typed /\ FilterThere /\ [Next]_vars => FilterThere'
<1> SUFFICES ASSUME Typed, FilterThere, [Next]_vars, bpfProg' = NoProgram PROVE FilterThere'
  BY DEF FilterThere
<1>1. CASE UNCHANGED vars
  BY <1>1 DEF vars, config, FilterThere
<1>2. CASE Next
  <2>1. /\ policyKind # "bpf" /\ policyKind' # "bpf"
        /\ \A i \in Installer : installing'[i] = NoProgram
        /\ \A t \in Thread : \A i \in 1 .. Len(stack[t]) : stack[t][i].kind # "bpf"
    BY <1>2, FilterStays
  <2> SUFFICES \A t \in Thread : \A i \in 1 .. Len(stack'[t]) : stack'[t][i].kind # "bpf"
    BY <2>1 DEF FilterThere
  <2>2. CASE stack' = stack
    BY <2>1, <2>2
  <2>3. ASSUME NEW t \in Thread, NEW f \in Frame, stack[t] # <<>>, SetTop(t, f),
               HookFrame(t, f) \/ Keeps(f, Top(t))
        PROVE  \A u \in Thread : \A i \in 1 .. Len(stack'[u]) : stack'[u][i].kind # "bpf"
    <3>1. f.kind # "bpf"
      BY <2>1, <2>3, TopType DEF HookFrame, Keeps, Top
    <3> QED BY <2>1, <2>3, <3>1, SetTopStack, TopType
  <2>4. ASSUME NEW t \in Thread, NEW f \in Frame, f.kind = "none", Push(t, f)
        PROVE  \A u \in Thread : \A i \in 1 .. Len(stack'[u]) : stack'[u][i].kind # "bpf"
    BY <2>1, <2>4, PushStack
  <2>5. ASSUME NEW t \in Thread, NEW f \in Frame, Len(stack[t]) > 1,
               Keeps(f, stack[t][Len(stack[t]) - 1]), Unwind(t, f)
        PROVE  \A u \in Thread : \A i \in 1 .. Len(stack'[u]) : stack'[u][i].kind # "bpf"
    <3>1. Len(stack[t]) \in Nat
      BY DEF Typed, TypeOK
    <3>2. f.kind # "bpf"
      BY <2>1, <2>5, <3>1 DEF Keeps
    <3>3. /\ Len(stack'[t]) = Len(stack[t]) - 1
          /\ \A i \in 1 .. Len(stack[t]) - 1 :
               stack'[t][i] = IF i = Len(stack[t]) - 1 THEN f ELSE stack[t][i]
          /\ \A u \in Thread \ {t} : stack'[u] = stack[u]
      BY <2>5, ReturnStack
    <3>4. \A i \in 1 .. Len(stack'[t]) : stack'[t][i].kind # "bpf"
      <4>1. \A i \in 1 .. Len(stack[t]) - 1 : i \in 1 .. Len(stack[t])
        BY <3>1
      <4>2. \A i \in 1 .. Len(stack[t]) - 1 : stack[t][i].kind # "bpf"
        BY <2>1, <4>1
      <4> QED BY <3>2, <3>3, <4>2
    <3> QED BY <2>1, <3>3, <3>4
  <2>6. ASSUME NEW t \in Thread, Answer(t)
        PROVE  \A u \in Thread : \A i \in 1 .. Len(stack'[u]) : stack'[u][i].kind # "bpf"
    <3>1. Len(stack'[t]) = 0 /\ \A u \in Thread \ {t} : stack'[u] = stack[u]
      BY <2>6 DEF Answer, Typed, TypeOK
    <3> QED BY <2>1, <3>1
  <2> QED BY <1>2, <2>2, <2>3, <2>4, <2>5, <2>6, StackSteps, CallStep DEF Fresh
<1> QED BY <1>1, <1>2

\* A thread's own steps keep its stack ascending.
LEMMA SetTopAscending ==
  ASSUME Typed, NEW t \in Thread, Ascending(t), stack[t] # <<>>, NEW f \in Frame, SetTop(t, f),
         slots' = slots, f.self = Top(t).self,
         f.pc \in {"dispatch", "grate"} => Leads(t, f.self, f.h)
  PROVE  Ascending(t)'
<1> DEFINE n == Len(stack[t])
<1>1. /\ n \in Nat \ {0}
      /\ Len(stack'[t]) = n
      /\ \A i \in 1 .. n : stack'[t][i] = IF i = n THEN f ELSE stack[t][i]
  BY SetTopStack, TopType
<1>2. f.self = stack[t][n].self
  BY DEF Top
<1> HIDE DEF n
<1>3. \A i \in 1 .. n : stack'[t][i].self = stack[t][i].self
  BY <1>1, <1>2
<1>4. \A i \in 1 .. n : i # n => stack'[t][i] = stack[t][i]
  BY <1>1
<1> USE DEF n
<1>5. \A i \in 1 .. n : stack'[t][i].pc \in {"dispatch", "grate"}
                          => Leads(t, stack'[t][i].self, stack'[t][i].h)
  BY <1>1 DEF Ascending
<1>6. ASSUME NEW i \in 1 .. n, NEW j \in 1 .. n, i < j
      PROVE  stack'[t][j].self \in Grate /\ stack'[t][i].h.grate <= stack'[t][j].self
  <2>1. i # n
    BY <1>1, <1>6
  <2> QED BY <1>3, <1>4, <1>6, <2>1 DEF Ascending
<1>7. \A i \in 1 .. n : stack'[t][i].self \in Cage \cup slots[t]
  BY <1>3 DEF Ascending
<1> QED BY <1>1, <1>5, <1>6, <1>7 DEF Ascending, Leads

\* The same for a pushed frame, issued by the grate of the frame below it,
LEMMA PushAscending ==
  ASSUME Typed, NEW t \in Thread, Ascending(t), NEW f \in Frame, NEW self, Fresh(f, self),
         Push(t, f), slots' = slots,
         \/ stack[t] = <<>> /\ self \in Cage
         \/ stack[t] # <<>> /\ Top(t).pc = "grate" /\ self = Top(t).h.grate
  PROVE  Ascending(t)'
<1> DEFINE n == Len(stack[t])
<1>1. /\ n \in Nat
      /\ Len(stack'[t]) = n + 1
      /\ \A i \in 1 .. n : stack'[t][i] = stack[t][i]
      /\ stack'[t][n + 1] = f
  BY PushStack
<1>2. stack'[t][n + 1].pc \in {"kind", "lookup"} /\ stack'[t][n + 1].self = self
  BY <1>1 DEF Fresh
<1>3. ASSUME NEW i \in 1 .. n + 1
      PROVE  stack'[t][i].pc \in {"dispatch", "grate"}
               => Leads(t, stack'[t][i].self, stack'[t][i].h)
  BY <1>1, <1>2 DEF Ascending
<1>4. ASSUME NEW i \in 1 .. n
      PROVE  self \in Grate /\ stack[t][i].h.grate <= self
  <2>1. n > 0 /\ n \in 1 .. n /\ stack[t] # <<>>
    BY <1>1
  <2>2. Top(t) = stack[t][n] /\ stack[t][n].pc = "grate" /\ self = stack[t][n].h.grate
    BY <2>1 DEF Top
  <2>3. FrameOK(stack[t][i]) /\ (i < n => stack[t][i].pc = "grate")
    BY DEF Typed, Shape
  <2>4. stack[t][i].h.grate \in Grate /\ stack[t][n].h.grate \in Grate
    BY <2>1, <2>2, <2>3, <1>1 DEF FrameOK, Typed, Shape
  <2>5. Grate \subseteq Int /\ Grate \subseteq GrateId
    BY ConstantsOK DEF Grate, GrateId, ChainOf
  <2> DEFINE a == stack[t][i].h.grate
  <2> DEFINE b == stack[t][n].self
  <2>6. a \in Int /\ self \in Int /\ self \in Grate
    BY <2>2, <2>4, <2>5
  <2>7. i # n => b \in Grate /\ b \in Int /\ a <= b
    <3>1. i # n => i < n
      BY <1>1
    <3> HIDE DEF n
    <3>2. i # n => b \in Grate /\ a <= b
      BY <2>1, <3>1 DEF Ascending, n
    <3> QED BY <2>5, <3>2
  <2>8. i # n => b < self
    <3>1. Leads(t, b, stack[t][n].h) /\ stack[t][n].h.kind = "grate"
      BY <2>1, <2>2 DEF Ascending, Typed, Shape, FrameOK
    <3> QED BY <2>2, <2>5, <2>7, <3>1 DEF Leads
  <2>9. i = n => a = self
    BY <2>2
  <2> HIDE DEF a, b
  <2>10. a <= self
    BY <2>6, <2>7, <2>8, <2>9
  <2> QED BY <2>6, <2>10 DEF a
<1>5. ASSUME NEW i \in 1 .. n + 1, NEW j \in 1 .. n + 1, i < j
      PROVE  stack'[t][j].self \in Grate /\ stack'[t][i].h.grate <= stack'[t][j].self
  <2>1. i \in 1 .. n /\ stack'[t][i] = stack[t][i]
    BY <1>1, <1>5
  <2>2. CASE j = n + 1
    BY <1>2, <1>4, <2>1, <2>2
  <2>3. CASE j # n + 1
    <3>1. j \in 1 .. n /\ stack'[t][j] = stack[t][j]
      BY <1>1, <2>3
    <3> QED BY <1>5, <2>1, <3>1 DEF Ascending
  <2> QED BY <2>2, <2>3
<1>6. self \in Cage \cup slots[t]
  <2>1. CASE stack[t] # <<>>
    <3>1. n \in 1 .. n /\ stack[t][n].pc = "grate" /\ self = stack[t][n].h.grate
      BY <1>1, <2>1 DEF Top
    <3>2. Leads(t, stack[t][n].self, stack[t][n].h) /\ stack[t][n].h.kind = "grate"
      BY <3>1 DEF Ascending, Typed, Shape, FrameOK
    <3> QED BY <3>1, <3>2 DEF Leads
  <2> QED BY <2>1
<1>7. \A i \in 1 .. n + 1 : stack'[t][i].self \in Cage \cup slots[t]
  <2>1. \A i \in 1 .. n : stack'[t][i].self \in Cage \cup slots[t]
    BY <1>1 DEF Ascending
  <2> HIDE DEF n
  <2>2. \A i \in 1 .. n + 1 : i \in 1 .. n \/ i = n + 1
    BY <1>1
  <2> QED BY <1>2, <1>6, <2>1, <2>2
<1> QED BY <1>1, <1>3, <1>5, <1>7 DEF Ascending, Leads

\* and for an unwound one.
LEMMA ReturnAscending ==
  ASSUME Typed, NEW t \in Thread, Ascending(t), Len(stack[t]) > 1, NEW f \in Frame, Unwind(t, f),
         slots' = slots, Keeps(f, stack[t][Len(stack[t]) - 1]), stack[t][Len(stack[t]) - 1].pc = "grate"
  PROVE  Ascending(t)'
<1> DEFINE n == Len(stack[t]) - 1
<1>1. /\ n \in Nat \ {0} /\ n \in 1 .. n
      /\ Len(stack'[t]) = n
      /\ \A i \in 1 .. n : stack'[t][i] = IF i = n THEN f ELSE stack[t][i]
      /\ 1 .. n \subseteq 1 .. Len(stack[t])
  <2>1. Len(stack[t]) \in Nat
    BY DEF Typed, TypeOK
  <2>2. /\ Len(stack'[t]) = n
        /\ \A i \in 1 .. n : stack'[t][i] = IF i = n THEN f ELSE stack[t][i]
    BY ReturnStack
  <2>3. n \in Nat \ {0}
    <3>1. \A k \in Nat : k > 1 => k - 1 \in Nat \ {0}
      OBVIOUS
    <3> QED BY <2>1, <3>1
  <2>4. n \in 1 .. n /\ \A i \in 1 .. n : i \in 1 .. Len(stack[t])
    BY <2>1, <2>3
  <2> QED BY <2>2, <2>3, <2>4
<1>2. f.self = stack[t][n].self /\ f.h = stack[t][n].h /\ stack[t][n].pc = "grate"
  BY DEF Keeps
<1> HIDE DEF n
<1>3. \A i \in 1 .. n : stack'[t][i].self = stack[t][i].self /\ stack'[t][i].h = stack[t][i].h
  BY <1>1, <1>2
<1>4. \A i \in 1 .. n : i # n => stack'[t][i].pc = stack[t][i].pc
  BY <1>1
<1>5. ASSUME NEW i \in 1 .. n
      PROVE  stack'[t][i].pc \in {"dispatch", "grate"}
               => Leads(t, stack'[t][i].self, stack'[t][i].h)
  BY <1>1, <1>2, <1>3, <1>4 DEF Ascending
<1>6. ASSUME NEW i \in 1 .. n, NEW j \in 1 .. n, i < j
      PROVE  stack'[t][j].self \in Grate /\ stack'[t][i].h.grate <= stack'[t][j].self
  BY <1>1, <1>3, <1>6 DEF Ascending
<1>7. \A i \in 1 .. n : stack'[t][i].self \in Cage \cup slots[t]
  BY <1>1, <1>3 DEF Ascending
<1> QED BY <1>1, <1>5, <1>6, <1>7 DEF Ascending, Leads

\* A step keeps the discipline or breaches it.
LEMMA WiringSteps ==
  ASSUME Typed, Discipline, Next, orderly'
  PROVE  orderly /\ Disciplined'
<1>1. ASSUME orderly' = orderly, ncheck' = ncheck, routes' = routes,
             \A t \in Thread : stack'[t] # <<>> => stack[t] # <<>> /\ slots'[t] = slots[t]
      PROVE  orderly /\ Disciplined'
  BY <1>1 DEF Discipline, Disciplined, Wired, Leads
<1>2. ASSUME NEW t \in Thread, Step(t) PROVE orderly /\ Disciplined'
  <2>1. orderly' = orderly /\ ncheck' = ncheck /\ routes' = routes /\ slots' = slots
    BY <1>2 DEF Step, LoadKind, LoadNcheck, Passes, Refused, PolicyAborts, Lookup, RunLeaf,
       EnterGrate, EnterAborts, GrateDenies, GrateForwards, GrateReturns, LeaveGrate, Answer,
       InCall, Abort, config, grates
  <2>2. stack[t] # <<>> \/ stack' = stack
    BY <1>2 DEF Step, LoadKind, LoadNcheck, Passes, Refused, PolicyAborts, Lookup, RunLeaf,
       EnterGrate, EnterAborts, GrateDenies, GrateForwards, GrateReturns, Answer, At, Abort
  <2>3. \A u \in Thread \ {t} : stack'[u] = stack[u]
    <3>1. CASE Hook(t) \/ EnterGrate(t) \/ GrateDenies(t)
      BY <3>1, HookStep, EnterGrateStep, GrateDeniesStep, SetTopStack
    <3>2. CASE GrateForwards(t)
      BY <3>2, GrateForwardsStep, PushStack DEF Fresh
    <3>3. CASE GrateReturns(t)
      BY <3>3, GrateReturnsStep, ReturnStack
    <3>4. CASE Answer(t) \/ PolicyAborts(t) \/ EnterAborts(t)
      BY <3>4 DEF Answer, PolicyAborts, EnterAborts, Abort, Typed, TypeOK
    <3> QED BY <1>2, <3>1, <3>2, <3>3, <3>4 DEF Step, Hook
  <2> QED BY <1>1, <2>1, <2>2, <2>3
<1>3. ASSUME NEW t \in Thread,
             (\E m \in Modes, n \in Lengths : BuildChain(t, m, n)) \/ Teardown(t)
      PROVE  orderly /\ Disciplined'
  BY <1>1, <1>3 DEF BuildChain, Teardown, config, Typed, TypeOK
<1>4. ASSUME NEW i \in Installer, NEW p \in Policies, SetPolicy(i, p)
      PROVE  orderly /\ Disciplined'
  BY <1>1, <1>4 DEF SetPolicy, InstallFilter, SetKind, Quiet, grates
<1>5. ASSUME NEW n \in Nchecks, SetNcheck(n)
      PROVE  orderly /\ Disciplined'
  BY <1>5 DEF SetNcheck
<1>6. ASSUME NEW o \in Offers, Register(o[1], o[2])
      PROVE  orderly /\ Disciplined'
  BY <1>6 DEF Register
<1>7. ASSUME NEW t \in Thread, Calls(t)
      PROVE  orderly /\ Disciplined'
  BY <1>7, CallStep DEF Issued
<1>8. CASE Configure
  BY <1>4, <1>5, <1>6, <1>8 DEF Configure
<1> QED BY <1>2, <1>3, <1>7, <1>8 DEF Next, Calls

\* While all callers keep the discipline, stacks ascend.
LEMMA StackDiscipline ==
  ASSUME Typed, Discipline, Next, orderly
  PROVE  \A t \in Thread : Ascending(t)'
<1> DEFINE Goal == \A t \in Thread : Ascending(t)'
<1>1. \A t \in Thread : Ascending(t)
  BY DEF Discipline
<1>2. ASSUME NEW u \in Thread, Ascending(u)', slots' = slots,
             \A v \in Thread \ {u} : stack'[v] = stack[v]
      PROVE  Goal
  BY <1>1, <1>2 DEF Ascending, Leads
<1>3. CASE stack' = stack /\ SlotsKept
  <2>1. ASSUME NEW t \in Thread, stack[t] = <<>> PROVE Ascending(t)'
    BY <1>3, <2>1 DEF Ascending
  <2>2. ASSUME NEW t \in Thread, stack[t] # <<>> PROVE Ascending(t)'
    <3>1. stack'[t] = stack[t] /\ slots'[t] = slots[t]
      BY <1>3, <2>2 DEF SlotsKept
    <3> QED BY <1>1, <3>1 DEF Ascending, Leads
  <2> QED BY <2>1, <2>2
<1>4. ASSUME NEW t \in Thread, NEW f \in Frame, stack[t] # <<>>, SetTop(t, f), slots' = slots,
             HookFrame(t, f) \/ (Keeps(f, Top(t)) /\ Top(t).pc \in {"dispatch", "grate"})
      PROVE  Goal
  <2>1. f.self = Top(t).self
    BY <1>4 DEF HookFrame, Keeps
  <2>2. f.pc \in {"dispatch", "grate"} => Leads(t, f.self, f.h)
    <3>1. CASE HookFrame(t, f)
      <4>1. Top(t).self \in Cage \cup slots[t]
        BY <1>1, <1>4, TopType DEF Ascending, Top
      <4>2. Wired(t)
        BY <1>4 DEF Discipline, Disciplined
      <4> QED BY <3>1, <4>1, <4>2 DEF HookFrame, Wired
    <3>2. CASE Keeps(f, Top(t)) /\ Top(t).pc \in {"dispatch", "grate"}
      <4>1. Leads(t, Top(t).self, Top(t).h)
        BY <1>1, <1>4, <3>2, TopType DEF Ascending, Top
      <4> QED BY <3>2, <4>1 DEF Keeps
    <3> QED BY <1>4, <3>1, <3>2
  <2>3. Ascending(t)'
    BY <1>1, <1>4, <2>1, <2>2, SetTopAscending
  <2> QED BY <1>2, <1>4, <2>3, SetTopStack
<1>5. ASSUME NEW t \in Thread, NEW f \in Frame, NEW self, Fresh(f, self), Push(t, f),
             slots' = slots,
             \/ stack[t] = <<>> /\ self \in Cage
             \/ stack[t] # <<>> /\ Top(t).pc = "grate" /\ self = Top(t).h.grate
      PROVE  Goal
  <2>1. Ascending(t)'
    BY <1>1, <1>5, PushAscending
  <2> QED BY <1>2, <1>5, <2>1, PushStack
<1>6. ASSUME NEW t \in Thread, NEW f \in Frame, Len(stack[t]) > 1,
             stack[t][Len(stack[t]) - 1].pc = "grate",
             Keeps(f, stack[t][Len(stack[t]) - 1]), Unwind(t, f), slots' = slots
      PROVE  Goal
  <2>1. Ascending(t)'
    BY <1>1, <1>6, ReturnAscending
  <2> QED BY <1>2, <1>6, <2>1, ReturnStack
<1>7. ASSUME NEW t \in Thread, Answer(t) PROVE Goal
  <2>1. stack'[t] = <<>> /\ \A v \in Thread \ {t} : stack'[v] = stack[v]
    BY <1>7 DEF Answer, Typed, TypeOK
  <2>2. Ascending(t)'
    BY <2>1 DEF Ascending
  <2>3. slots' = slots
    BY <1>7 DEF Answer, grates
  <2> QED BY <1>2, <2>1, <2>2, <2>3
<1>8. ASSUME NEW t \in Thread, Calls(t) PROVE Goal
  BY <1>5, <1>8, CallStep DEF Issued, grates, Fresh
<1> QED BY <1>3, <1>4, <1>5, <1>6, <1>7, <1>8, StackSteps

\* The discipline is inductive, given the types.
LEMMA NextDiscipline == Typed /\ Discipline /\ [Next]_vars => Discipline'
<1> SUFFICES ASSUME Typed, Discipline, [Next]_vars, orderly' PROVE Discipline'
  BY DEF Discipline
<1>1. CASE UNCHANGED vars
  <2>1. stack' = stack /\ UNCHANGED <<ncheck, routes, slots, orderly>>
    BY <1>1 DEF vars, config, grates
  <2> QED BY <2>1 DEF Discipline, Disciplined, Wired, Ascending, Leads
<1>2. CASE Next
  <2>1. orderly /\ Disciplined'
    BY <1>2, WiringSteps
  <2>2. \A t \in Thread : Ascending(t)'
    BY <1>2, <2>1, StackDiscipline
  <2> QED BY <2>1, <2>2 DEF Discipline
<1> QED BY <1>1, <1>2

\* With the discipline kept, no panic below make_syscall is reachable.
LEMMA NoPanic ==
  ASSUME Typed, VmctxAccounted, FilterThere, Discipline, orderly, NEW t \in Thread
  PROVE  ~PolicyAborts(t) /\ ~EnterAborts(t)
<1>1. ASSUME PolicyAborts(t) PROVE FALSE
  <2>1. ncheck <= NArgs /\ ncheck \in Nat /\ NArgs \in Nat
    BY <1>1, ConstantsOK DEF Discipline, Disciplined, Typed, TypeOK, PolicyAborts, PolicyPanics, At
  <2>2. stack[t] # <<>> /\ Top(t).kind = "bpf" /\ bpfProg = NoProgram
    BY <1>1, <2>1 DEF PolicyAborts, PolicyPanics, At
  <2> QED BY <2>2, TopType DEF FilterThere, Top
<1>2. ASSUME EnterAborts(t) PROVE FALSE
  <2> DEFINE n == Len(stack[t])
  <2> DEFINE g == Top(t).h.grate
  <2>1. stack[t] # <<>> /\ Top(t).pc = "dispatch" /\ Top(t).h.kind = "grate" /\ EnterPanics(t, g)
    BY <1>2 DEF EnterAborts, At
  <2>2. n \in Nat \ {0} /\ n \in 1 .. n /\ Top(t) = stack[t][n]
    BY <2>1, TopType DEF Top
  <2>3. Leads(t, Top(t).self, Top(t).h)
    BY <2>1, <2>2 DEF Discipline, Ascending
  <2>4. g \in slots[t] /\ g \in Grate /\ chain[t] # NoChain
    BY <2>1, <2>3 DEF Leads, VmctxAccounted, Accounted, Typed, TypeOK
  <2>5. ASSUME NEW i \in Inside(t) PROVE stack[t][i].h.grate # g
    <3>1. i \in 1 .. n /\ i < n
      BY <2>1, <2>2 DEF Inside
    <3>2. Top(t).self \in Grate /\ stack[t][i].h.grate <= Top(t).self
      BY <2>2, <3>1 DEF Discipline, Ascending
    <3>3. stack[t][i].h.grate \in Grate
      BY <3>1 DEF Inside, Typed, Shape, FrameOK
    <3>4. Grate \subseteq Int /\ Grate \subseteq GrateId
      BY ConstantsOK DEF Grate, GrateId, ChainOf
    <3>5. Top(t).self < g
      BY <2>1, <2>3, <3>2, <3>4 DEF Leads
    <3> HIDE DEF g
    <3> QED BY <2>4, <3>2, <3>3, <3>4, <3>5
  <2>6. g \notin Entered(t)
    BY <2>5 DEF Entered
  <2> HIDE DEF g
  <2>7. chain[t] = PerCall => g \in pool[t]
    BY <2>4, <2>6 DEF VmctxAccounted, Accounted
  <2>8. g \notin borrowed[t]
    BY <2>6 DEF VmctxAccounted, Accounted
  <2> QED BY <2>1, <2>3, <2>4, <2>7, <2>8 DEF EnterPanics
<1> QED BY <1>1, <1>2

AbortInv == /\ Typed /\ VmctxAccounted
            /\ FilterThere /\ Discipline /\ AbortMeansMisuse

\* The strengthening of AbortMeansMisuse holds initially ...
LEMMA InitAbort == Init => AbortInv
<1> SUFFICES ASSUME Init PROVE AbortInv
  OBVIOUS
<1>1. FilterThere /\ AbortMeansMisuse
  BY DEF Init, FilterThere, AbortMeansMisuse
<1>2. Discipline
  BY DEF Init, Discipline, Disciplined, Ascending
<1> QED BY <1>1, <1>2, InitTyped, InitAccounted DEF AbortInv

\* ... and is inductive.
LEMMA NextAbort == AbortInv /\ [Next]_vars => AbortInv'
<1> SUFFICES ASSUME AbortInv, [Next]_vars PROVE AbortMeansMisuse'
  BY NextTyped, NextAccounted, NextFilter, NextDiscipline DEF AbortInv
<1>1. CASE UNCHANGED vars
  BY <1>1 DEF vars, AbortInv, AbortMeansMisuse
<1>2. ASSUME Next, aborted', orderly' PROVE FALSE
  <2>1. orderly /\ ~aborted
    BY <1>2, WiringSteps DEF AbortInv, AbortMeansMisuse
  <2>2. \A t \in Thread : ~PolicyAborts(t) /\ ~EnterAborts(t)
    BY <2>1, NoPanic DEF AbortInv
  <2>3. ASSUME NEW t \in Thread, Step(t) PROVE aborted' = aborted
    BY <2>2, <2>3 DEF Step, LoadKind, LoadNcheck, Passes, Refused, Lookup, RunLeaf, EnterGrate,
       GrateDenies, GrateForwards, GrateReturns, Answer, InCall
  <2>4. ASSUME NEW t \in Thread,
               \/ \E m \in Modes, n \in Lengths : BuildChain(t, m, n)
               \/ Teardown(t) \/ Calls(t)
        PROVE  aborted' = aborted
    BY <2>4, CallStep DEF BuildChain, Teardown, Issued
  <2>5. CASE Configure
    BY <2>1, <2>5, <1>2 DEF Configure, SetPolicy, InstallFilter, SetKind, SetNcheck, Register, Quiet
  <2> QED BY <1>2, <2>1, <2>3, <2>4, <2>5 DEF Next, Calls
<1> QED BY <1>1, <1>2 DEF AbortMeansMisuse

\* However set_policy, set_ncheck, the register_* functions and the calls of any
\* number of threads interleave, the process aborts only if someone broke the
\* discipline: no chain of grates, of whatever length, runs out of a vmctx or
\* borrows a Store twice, and no filter is looked for before it is there.
THEOREM AbortSafety == Spec => []AbortMeansMisuse
<1>1. AbortInv => AbortMeansMisuse
  BY DEF AbortInv
<1> QED BY InitAbort, NextAbort, <1>1, PTL DEF Spec
=============================================================================
