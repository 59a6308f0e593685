-------------------------- MODULE DispatchVerdicts --------------------------
(***************************************************************************)
(* What is decided about a call, and who is told.                          *)
(*                                                                         *)
(* First, the verdict of the policy hook is the verdict of a policy of its *)
(* time, although policy_ok reads POLICY_KIND, NCHECK and BPF_PROG one     *)
(* after the other.  The history variable `seen' supplies the witnesses:   *)
(* what a call in progress has loaded so far was in force when it was      *)
(* loaded, and `seen' only grows until the verdict.                        *)
(*                                                                         *)
(* Second, a call has one outcome, which reaches its caller and the count  *)
(* of denials alike, through any number of grates: Dispatch implements     *)
(* SyscallService, and Threei::denied counts the refusals by the hook that *)
(* callers have been or are about to be told of.  Both follow from one     *)
(* summary of a step, which only sees how far the call of each thread is.  *)
(***************************************************************************)
EXTENDS DispatchProofs, FiniteSetTheorems

\* The policy of kind k a reader would evaluate now.
PolicyOf(k) == [kind |-> k, prog |-> IF k = "bpf" THEN bpfProg ELSE NoProgram]

Witnessed(t) ==
  Undecided(t) =>
    /\ CurrentPolicy \in seen[t].policies
    /\ ncheck \in seen[t].nchecks
    /\ Top(t).pc \in {"ncheck", "judge"} => PolicyOf(Top(t).kind) \in seen[t].policies
    /\ Top(t).pc = "judge" => Top(t).n \in seen[t].nchecks /\ Top(t).n <= NArgs

Witnesses == \A t \in Thread : Witnessed(t)

\* A step that leaves the configuration and the other threads alone.
LEMMA OthersWitnessed ==
  ASSUME Witnesses, NEW t \in Thread, Witnessed(t)', UNCHANGED config,
         \A u \in Thread \ {t} : stack'[u] = stack[u] /\ seen'[u] = seen[u]
  PROVE  Witnesses'
<1>1. ASSUME NEW u \in Thread \ {t} PROVE Witnessed(u)'
  <2>1. Top(u)' = Top(u) /\ Undecided(u)' = Undecided(u)
    BY DEF Top, Undecided
  <2> QED BY <2>1 DEF Witnesses, Witnessed, PolicyOf, CurrentPolicy, config
<1> QED BY <1>1 DEF Witnesses

\* The innermost frame after it was replaced.
LEMMA TopOfSetTop ==
  ASSUME Typed, NEW t \in Thread, stack[t] # <<>>, NEW f \in Frame, SetTop(t, f)
  PROVE  Top(t)' = f /\ stack'[t] # <<>> /\ \A u \in Thread \ {t} : stack'[u] = stack[u]
<1>1. /\ Len(stack[t]) \in Nat \ {0} /\ Len(stack'[t]) = Len(stack[t])
      /\ stack'[t][Len(stack[t])] = f
      /\ \A u \in Thread \ {t} : stack'[u] = stack[u]
  BY TopType, SetTopStack
<1> QED BY <1>1 DEF Top

\* The configuration changes under calls in progress.
LEMMA ConfigureWitnessed ==
  ASSUME Typed, Witnesses, Configure
  PROVE  Witnesses'
<1>1. stack' = stack
  BY DEF Configure, SetPolicy, InstallFilter, SetKind, SetNcheck, Register, Quiet
<1>2. \A t \in Thread : Top(t)' = Top(t) /\ Undecided(t)' = Undecided(t)
  BY <1>1 DEF Top, Undecided
<1>3. ASSUME NEW i \in Installer, NEW p \in Policies, SetPolicy(i, p)
      PROVE  Witnesses'
  <2>1. p \in Policy /\ (p.kind = "bpf" <=> p.prog # NoProgram)
    BY ConstantsOK
  <2>2. ncheck' = ncheck
    BY <1>3 DEF SetPolicy, InstallFilter, SetKind
  <2>3. CASE p.kind = "bpf"
    <3>1. /\ SeePolicy([kind |-> "bpf", prog |-> bpfProg'])
          /\ bpfProg' = bpfProg \/ policyKind' = policyKind
          /\ policyKind' \in {policyKind, "bpf"}
      BY <1>3, <2>3 DEF SetPolicy, InstallFilter
    <3>2. ASSUME NEW t \in Thread, Undecided(t)
          PROVE  /\ [kind |-> "bpf", prog |-> bpfProg'] \in seen'[t].policies
                 /\ seen[t].policies \subseteq seen'[t].policies
                 /\ seen'[t].nchecks = seen[t].nchecks
      BY <3>1, <3>2 DEF SeePolicy, Typed, TypeOK
    <3>3. ASSUME NEW t \in Thread, Undecided(t)
          PROVE  CurrentPolicy' \in seen'[t].policies
      BY <3>1, <3>2, <3>3 DEF CurrentPolicy, Witnesses, Witnessed
    <3>4. ASSUME NEW t \in Thread, Undecided(t), Top(t).pc \in {"ncheck", "judge"}
          PROVE  PolicyOf(Top(t).kind)' \in seen'[t].policies
      BY <1>2, <3>2, <3>4 DEF PolicyOf, Witnesses, Witnessed
    <3> QED BY <1>2, <2>2, <3>2, <3>3, <3>4 DEF Witnesses, Witnessed
  <2>4. CASE p.kind # "bpf"
    <3>1. SeePolicy(p) /\ policyKind' = p.kind /\ bpfProg' = bpfProg
      BY <1>3, <2>4 DEF SetPolicy, SetKind
    <3>2. ASSUME NEW t \in Thread, Undecided(t)
          PROVE  /\ p \in seen'[t].policies
                 /\ seen[t].policies \subseteq seen'[t].policies
                 /\ seen'[t].nchecks = seen[t].nchecks
      BY <3>1, <3>2 DEF SeePolicy, Typed, TypeOK
    <3>3. CurrentPolicy' = p
      BY <2>1, <2>4, <3>1 DEF CurrentPolicy, Policy
    <3>4. \A t \in Thread : PolicyOf(Top(t).kind)' = PolicyOf(Top(t).kind)
      BY <1>2, <3>1 DEF PolicyOf
    <3> QED BY <1>2, <2>2, <3>2, <3>3, <3>4 DEF Witnesses, Witnessed
  <2> QED BY <2>3, <2>4
<1>4. ASSUME NEW n \in Nchecks, SetNcheck(n)
      PROVE  Witnesses'
  <2>1. ASSUME NEW t \in Thread, Undecided(t)
        PROVE  n \in seen'[t].nchecks /\ seen[t].nchecks \subseteq seen'[t].nchecks
                 /\ seen'[t].policies = seen[t].policies
    BY <1>4, <2>1 DEF SetNcheck, SeeNcheck, Typed, TypeOK
  <2>2. ncheck' = n /\ policyKind' = policyKind /\ bpfProg' = bpfProg
    BY <1>4 DEF SetNcheck
  <2> QED BY <1>2, <2>1, <2>2 DEF Witnesses, Witnessed, PolicyOf, CurrentPolicy
<1>5. ASSUME NEW o \in Offers, Register(o[1], o[2])
      PROVE  Witnesses'
  <2>1. UNCHANGED <<config, seen>>
    BY <1>5 DEF Register
  <2> QED BY <1>2, <2>1 DEF Witnesses, Witnessed, PolicyOf, CurrentPolicy, config
<1> QED BY <1>3, <1>4, <1>5 DEF Configure

\* The lookup and the leaf come after the verdict.
LEMMA LookupDecided ==
  ASSUME Typed, NEW t \in Thread, Lookup(t) \/ RunLeaf(t)
  PROVE  ~Undecided(t)'
<1>1. stack[t] # <<>>
  BY DEF Lookup, RunLeaf, At
<1>2. Top(t) \in Frame
  BY <1>1, TopType
<1> DEFINE h == routes[Top(t).self]
<1> DEFINE f == [Top(t) EXCEPT !.pc = "return", !.ret = "ENOSYS"]
<1> DEFINE g == [Top(t) EXCEPT !.pc = "dispatch", !.h = h]
<1> DEFINE e == [Top(t) EXCEPT !.pc = "return", !.ret = "ok"]
<1>3. /\ f \in Frame /\ f.pc = "return"
      /\ e \in Frame /\ e.pc = "return"
  BY <1>2 DEF Frame, Ret
<1>4. g \in Frame /\ g.pc = "dispatch"
  <2>1. h \in Handler \cup {NoHandler}
    BY <1>2 DEF Frame, Typed, TypeOK
  <2> HIDE DEF h
  <2> QED BY <1>2, <2>1 DEF Frame
<1>5. SetTop(t, f) \/ SetTop(t, g) \/ SetTop(t, e)
  BY DEF Lookup, RunLeaf, Return
<1> HIDE DEF f, g, e
<1> QED BY <1>1, <1>3, <1>4, <1>5, TopOfSetTop DEF Undecided

\* The steps of policy_ok itself.
LEMMA HookWitnessed ==
  ASSUME Typed, Witnesses, NEW t \in Thread, Hook(t)
  PROVE  Witnesses'
<1>1. /\ stack[t] # <<>> /\ UNCHANGED config
      /\ Top(t) \in Frame /\ ncheck \in Nat /\ Witnessed(t)
  BY HookStep, TopType DEF InCall, Witnesses, Typed, TypeOK
<1>2. ASSUME NEW f \in Frame, SetTop(t, f), seen' = seen,
             Witnessed(t)'
      PROVE  Witnesses'
  BY <1>1, <1>2, TopOfSetTop, OthersWitnessed
<1>3. ASSUME NEW f \in Frame, SetTop(t, f), f.pc \notin {"kind", "ncheck", "judge"},
             seen' = seen \/ Forget(t)
      PROVE  Witnesses'
  <2>1. ~Undecided(t)'
    BY <1>1, <1>3, TopOfSetTop DEF Undecided
  <2>2. Witnessed(t)'
    BY <2>1 DEF Witnessed
  <2>3. \A u \in Thread \ {t} : seen'[u] = seen[u]
    BY <1>3 DEF Forget, Typed, TypeOK
  <2> QED BY <1>1, <1>3, <2>2, <2>3, TopOfSetTop, OthersWitnessed
<1>4. CASE LoadKind(t)
  <2> DEFINE f == [Top(t) EXCEPT !.pc = "lookup", !.ret = "none", !.kind = "none", !.n = 0]
  <2> DEFINE g == [Top(t) EXCEPT !.pc = "ncheck", !.kind = policyKind]
  <2>1. f \in Frame /\ f.pc = "lookup"
    BY <1>1 DEF Frame, Kind
  <2>2. g \in Frame /\ g.pc = "ncheck" /\ g.kind = policyKind
    BY <1>1 DEF Frame, Typed, TypeOK
  <2>3. (SetTop(t, f) /\ Forget(t)) \/ (SetTop(t, g) /\ seen' = seen)
    BY <1>4 DEF LoadKind, Verdict
  <2>4. Undecided(t)
    BY <1>4 DEF LoadKind, At, Undecided
  <2> HIDE DEF f, g
  <2>5. CASE SetTop(t, g) /\ seen' = seen
    <3>1. Top(t)' = g
      BY <1>1, <2>2, <2>5, TopOfSetTop
    <3>2. PolicyOf(policyKind) = CurrentPolicy
      BY DEF PolicyOf, CurrentPolicy
    <3>3. Witnessed(t)'
      BY <1>1, <2>2, <2>4, <2>5, <3>1, <3>2 DEF Witnessed, PolicyOf, CurrentPolicy, config
    <3> QED BY <1>2, <2>2, <2>5, <3>3
  <2> QED BY <1>3, <2>1, <2>3, <2>5
<1>5. CASE LoadNcheck(t)
  <2> DEFINE g == [Top(t) EXCEPT !.pc = "judge", !.n = ncheck]
  <2>1. g \in Frame /\ g.pc = "judge" /\ g.kind = Top(t).kind /\ g.n = ncheck
    BY <1>1 DEF Frame
  <2>2. /\ SetTop(t, g) /\ seen' = seen /\ Undecided(t) /\ Top(t).pc = "ncheck"
        /\ ~(ncheck > NArgs)
    BY <1>5 DEF LoadNcheck, At, Undecided, PolicyPanics
  <2> HIDE DEF g
  <2>3. Top(t)' = g
    BY <1>1, <2>1, <2>2, TopOfSetTop
  <2>4. ncheck <= NArgs
    BY <1>1, <2>2, ConstantsOK
  <2>5. Witnessed(t)'
    BY <1>1, <2>1, <2>2, <2>3, <2>4 DEF Witnessed, PolicyOf, CurrentPolicy, config
  <2> QED BY <1>2, <2>1, <2>2, <2>5
<1>6. CASE Passes(t) \/ Refused(t)
  <2> DEFINE f == [Top(t) EXCEPT !.pc = "lookup", !.ret = "none", !.kind = "none", !.n = 0]
  <2> DEFINE g == [Top(t) EXCEPT !.pc = "return", !.ret = "EACCES_hook", !.kind = "none", !.n = 0]
  <2>1. f \in Frame /\ f.pc = "lookup" /\ g \in Frame /\ g.pc = "return"
    BY <1>1 DEF Frame, Kind, Ret
  <2>2. (SetTop(t, f) \/ SetTop(t, g)) /\ Forget(t)
    BY <1>6 DEF Passes, Refused, Verdict
  <2> HIDE DEF f, g
  <2> QED BY <1>3, <2>1, <2>2
<1>7. CASE Lookup(t) \/ RunLeaf(t)
  <2>1. Top(t).pc \in {"lookup", "dispatch"} /\ seen' = seen
    BY <1>7 DEF Lookup, RunLeaf, At
  <2>2. ~Undecided(t)'
    BY <1>7, LookupDecided
  <2>3. Witnessed(t)'
    BY <2>2 DEF Witnessed
  <2>4. PICK f \in Frame : SetTop(t, f)
    BY HookStep
  <2> QED BY <1>2, <2>1, <2>3, <2>4
<1> QED BY <1>4, <1>5, <1>6, <1>7 DEF Hook

\* A push: a frame that starts in the hook starts with the configuration of the
\* moment.
LEMMA PushWitnessed ==
  ASSUME Typed, Witnesses, NEW t \in Thread, NEW f \in Frame, Push(t, f), UNCHANGED config,
         \A u \in Thread \ {t} : seen'[u] = seen[u],
         \/ f.pc = "kind" /\ CurrentPolicy \in seen'[t].policies /\ ncheck \in seen'[t].nchecks
         \/ f.pc = "lookup"
  PROVE  Witnesses'
<1>1. Top(t)' = f /\ \A u \in Thread \ {t} : stack'[u] = stack[u]
  BY PushStack DEF Top
<1>2. CurrentPolicy' = CurrentPolicy /\ ncheck' = ncheck
  BY DEF CurrentPolicy, config
<1>3. Witnessed(t)'
  BY <1>1, <1>2 DEF Witnessed, Undecided
<1> QED BY <1>1, <1>3, OthersWitnessed

\* make_syscall is entered by a grate or by a cage.
LEMMA EnterWitnessed ==
  ASSUME Typed, Witnesses, NEW t \in Thread,
         NEW self \in Id, NEW target \in Id, NEW args \in Args,
         Enter(t, self, target, args), UNCHANGED config
  PROVE  Witnesses'
<1> DEFINE f == NewFrame("kind", self, target, args)
<1>1. /\ CurrentPolicy \in seen'[t].policies /\ ncheck \in seen'[t].nchecks
      /\ \A u \in Thread \ {t} : seen'[u] = seen[u]
  BY DEF Enter, Typed, TypeOK
<1>2. f \in Frame /\ Push(t, f)
  BY NewFrameFresh DEF Fresh, Enter
<1>3. f.pc = "kind"
  BY DEF NewFrame
<1> HIDE DEF f
<1> QED BY <1>1, <1>2, <1>3, PushWitnessed

\* What was loaded being current at some time of the call is inductive.
LEMMA NextWitnessed == Typed /\ Witnesses /\ [Next]_vars => Witnesses'
<1> SUFFICES ASSUME Typed, Witnesses, [Next]_vars PROVE Witnesses'
  OBVIOUS
<1>1. ASSUME UNCHANGED <<config, stack, seen>> PROVE Witnesses'
  BY <1>1 DEF Witnesses, Witnessed, Undecided, Top, PolicyOf, CurrentPolicy, config
<1>2. CASE UNCHANGED vars
  BY <1>1, <1>2 DEF vars
<1>3. ASSUME NEW t \in Thread, ~Undecided(t)', UNCHANGED <<config, seen>>,
             \A u \in Thread \ {t} : stack'[u] = stack[u]
      PROVE  Witnesses'
  BY <1>3, OthersWitnessed DEF Witnessed
<1>4. ASSUME NEW t \in Thread, Step(t) PROVE Witnesses'
  <2>1. CASE PolicyAborts(t) \/ EnterAborts(t)
    BY <1>1, <2>1 DEF PolicyAborts, EnterAborts, Abort
  <2>2. CASE EnterGrate(t)
    <3>1. PICK f \in Frame : stack[t] # <<>> /\ f.pc = "grate" /\ SetTop(t, f)
      BY <2>2, EnterGrateStep
    <3>2. ~Undecided(t)' /\ \A u \in Thread \ {t} : stack'[u] = stack[u]
      BY <3>1, TopOfSetTop DEF Undecided
    <3> QED BY <1>3, <2>2, <3>2 DEF EnterGrate, InCall
  <2>3. CASE GrateDenies(t)
    <3>1. PICK f \in Frame : stack[t] # <<>> /\ f.pc = "return" /\ SetTop(t, f)
      BY <2>3, GrateDeniesStep
    <3>2. ~Undecided(t)' /\ \A u \in Thread \ {t} : stack'[u] = stack[u]
      BY <3>1, TopOfSetTop DEF Undecided
    <3> QED BY <1>3, <2>3, <3>2 DEF GrateDenies, InCall
  <2>4. CASE GrateForwards(t)
    <3>1. UNCHANGED config
      BY <2>4 DEF GrateForwards, InCall
    <3> QED BY <2>4, <3>1, GrateForwardsStep, EnterWitnessed
  <2>5. CASE GrateReturns(t)
    <3>1. PICK f \in Frame : Len(stack[t]) > 1 /\ f.pc = "return" /\ Unwind(t, f)
      BY <2>5, GrateReturnsStep
    <3>2. Len(stack[t]) \in Nat
      BY DEF Typed, TypeOK
    <3>3. /\ Len(stack'[t]) = Len(stack[t]) - 1
          /\ stack'[t][Len(stack[t]) - 1] = f
          /\ \A u \in Thread \ {t} : stack'[u] = stack[u]
      BY <3>1, <3>2, ReturnStack
    <3>4. Top(t)' = f
      BY <3>3 DEF Top
    <3> QED BY <1>3, <2>5, <3>1, <3>3, <3>4 DEF GrateReturns, InCall, Undecided
  <2>6. CASE Answer(t)
    <3>1. stack'[t] = <<>> /\ \A u \in Thread \ {t} : stack'[u] = stack[u]
      BY <2>6 DEF Answer, Typed, TypeOK
    <3> QED BY <1>3, <2>6, <3>1 DEF Answer, Undecided
  <2> QED BY <1>4, <2>1, <2>2, <2>3, <2>4, <2>5, <2>6, HookWitnessed DEF Step, Hook
<1>5. ASSUME NEW t \in Thread, Calls(t) PROVE Witnesses'
  <2>1. UNCHANGED config
    BY <1>5, CallStep DEF Issued
  <2>2. ASSUME NEW r \in Requests, Call(t, r) PROVE Witnesses'
    <3>1. r.self \in Id /\ r.target \in Id /\ r.args \in Args
      BY ConstantsOK DEF Request, Id
    <3> QED BY <2>1, <2>2, <3>1, EnterWitnessed DEF Call
  <2>3. ASSUME NEW c \in Current, CallNarrow(t, c) PROVE Witnesses'
    <3> DEFINE zeros == [i \in 1 .. NArgs |-> Unpinned]
    <3> DEFINE f == NewFrame("lookup", c, c, zeros)
    <3>1. c \in Id /\ zeros \in Args
      BY ConstantsOK DEF Id, Args
    <3>2. Push(t, f) /\ seen' = seen
      BY <2>3 DEF CallNarrow
    <3> HIDE DEF zeros
    <3>3. f \in Frame
      BY <3>1, NewFrameFresh DEF Fresh
    <3>4. f.pc = "lookup"
      BY DEF NewFrame
    <3> HIDE DEF f
    <3> QED BY <2>1, <3>2, <3>3, <3>4, PushWitnessed
  <2> QED BY <1>5, <2>2, <2>3 DEF Calls
<1>6. ASSUME NEW t \in Thread, Teardown(t) \/ \E m \in Modes, n \in Lengths : BuildChain(t, m, n)
      PROVE  Witnesses'
  BY <1>1, <1>6 DEF Teardown, BuildChain
<1> QED BY <1>2, <1>4, <1>5, <1>6, ConfigureWitnessed DEF Next, Calls

\* No call is in progress at the start.
LEMMA InitWitnessed == Init => Witnesses
  BY DEF Init, Witnesses, Witnessed, Undecided

-----------------------------------------------------------------------------
(* The verdict                                                             *)

\* A verdict only depends on the program when the kind is bpf.
LEMMA SameVerdict ==
  ASSUME NEW k, NEW n, NEW r
  PROVE  Permits(k, bpfProg, n, r) = Permits(k, PolicyOf(k).prog, n, r)
<1>1. CASE k = "bpf"
  BY <1>1 DEF PolicyOf
<1>2. CASE k # "bpf"
  BY <1>2 DEF Permits
<1> QED BY <1>1, <1>2

\* A step that takes no verdict leaves an undecided frame undecided.
LEMMA VerdictSteps ==
  ASSUME Typed, Next, NEW t \in Thread, Undecided(t)
  PROVE  \/ LoadKind(t) \/ Passes(t) \/ Refused(t)
         \/ Top(t)'.pc \in {"kind", "ncheck", "judge"}
<1>1. Top(t) \in Frame /\ stack[t] # <<>>
  BY TopType DEF Undecided
<1>2. CASE stack'[t] = stack[t]
  BY <1>2 DEF Undecided, Top
<1>3. CASE LoadNcheck(t)
  <2> DEFINE g == [Top(t) EXCEPT !.pc = "judge", !.n = ncheck]
  <2>1. g \in Frame /\ g.pc = "judge"
    BY <1>1 DEF Frame, Typed, TypeOK
  <2>2. SetTop(t, g)
    BY <1>3 DEF LoadNcheck
  <2> HIDE DEF g
  <2> QED BY <1>1, <2>1, <2>2, TopOfSetTop
<1>4. ASSUME NEW u \in Thread, u # t, Step(u) PROVE stack'[t] = stack[t]
  <2>1. CASE Hook(u)
    BY <1>4, <2>1, HookStep, SetTopStack
  <2>2. CASE EnterGrate(u)
    BY <1>4, <2>2, EnterGrateStep, SetTopStack
  <2>3. CASE GrateDenies(u)
    BY <1>4, <2>3, GrateDeniesStep, SetTopStack
  <2>4. CASE GrateForwards(u)
    <3>1. PICK f : f \in Frame /\ Push(u, f)
      BY <2>4, GrateForwardsStep DEF Fresh
    <3> QED BY <1>4, <3>1, PushStack
  <2>5. CASE GrateReturns(u)
    BY <1>4, <2>5, GrateReturnsStep, ReturnStack
  <2>6. CASE Answer(u) \/ PolicyAborts(u) \/ EnterAborts(u)
    BY <1>4, <2>6 DEF Answer, PolicyAborts, EnterAborts, Abort, Typed, TypeOK
  <2> QED BY <1>4, <2>1, <2>2, <2>3, <2>4, <2>5, <2>6 DEF Step, Hook
<1>5. ASSUME Step(t)
      PROVE  \/ LoadKind(t) \/ LoadNcheck(t) \/ Passes(t) \/ Refused(t) \/ stack'[t] = stack[t]
  <2>1. Top(t).pc \in {"kind", "ncheck", "judge"}
    BY DEF Undecided
  <2> QED BY <1>5, <2>1 DEF Step, Lookup, RunLeaf, EnterGrate, GrateDenies, GrateForwards,
        GrateReturns, Answer, At, PolicyAborts, EnterAborts, Abort
<1>6. ASSUME NEW u \in Thread, Calls(u) PROVE stack'[t] = stack[t]
  <2>1. stack[u] = <<>> /\ u # t
    BY <1>1, <1>6, CallStep
  <2>2. PICK f : f \in Frame /\ Push(u, f)
    BY <1>6, CallStep DEF Fresh
  <2> QED BY <2>1, <2>2, PushStack
<1>7. ASSUME NEW u \in Thread, Teardown(u) \/ \E m \in Modes, n \in Lengths : BuildChain(u, m, n)
      PROVE  stack'[t] = stack[t]
  BY <1>7 DEF Teardown, BuildChain
<1>8. CASE Configure
  BY <1>2, <1>8 DEF Configure, SetPolicy, InstallFilter, SetKind, SetNcheck, Register, Quiet
<1> QED BY <1>2, <1>3, <1>4, <1>5, <1>6, <1>7, <1>8 DEF Next, Calls

\* A step that gives a verdict has witnesses for it.
LEMMA NextJudged ==
  ASSUME Typed, Witnesses, Next, NEW t \in Thread, Undecided(t)
  PROVE  /\ Top(t)'.pc = "lookup" => Judged(t, TRUE)
         /\ Top(t)'.pc = "return" => Judged(t, FALSE)
<1>1. Witnessed(t) /\ Top(t) \in Frame /\ stack[t] # <<>>
  BY TopType DEF Witnesses, Undecided
<1>2. CASE LoadKind(t)
  <2> DEFINE f == [Top(t) EXCEPT !.pc = "lookup", !.ret = "none", !.kind = "none", !.n = 0]
  <2> DEFINE g == [Top(t) EXCEPT !.pc = "ncheck", !.kind = policyKind]
  <2>1. f \in Frame /\ f.pc = "lookup" /\ g \in Frame /\ g.pc = "ncheck"
    BY <1>1 DEF Frame, Kind, Typed, TypeOK
  <2>2. (policyKind = "none" /\ SetTop(t, f)) \/ SetTop(t, g)
    BY <1>2 DEF LoadKind, Verdict, NoHook
  <2> HIDE DEF f, g
  <2>3. CASE policyKind = "none" /\ SetTop(t, f)
    <3>1. CurrentPolicy.kind = "none"
      BY <2>3 DEF CurrentPolicy
    <3>2. Permits(CurrentPolicy.kind, CurrentPolicy.prog, ncheck, Top(t)) = TRUE
      BY <3>1 DEF Permits
    <3>3. CurrentPolicy \in seen[t].policies /\ ncheck \in seen[t].nchecks
      BY <1>1 DEF Witnessed
    <3>4. Judged(t, TRUE)
      BY <3>1, <3>2, <3>3 DEF Judged
    <3> QED BY <1>1, <2>1, <2>3, <3>4, TopOfSetTop
  <2>4. CASE SetTop(t, g)
    BY <1>1, <2>1, <2>4, TopOfSetTop
  <2> QED BY <2>2, <2>3, <2>4
<1>3. CASE Passes(t) \/ Refused(t)
  <2> DEFINE f == [Top(t) EXCEPT !.pc = "lookup", !.ret = "none", !.kind = "none", !.n = 0]
  <2> DEFINE g == [Top(t) EXCEPT !.pc = "return", !.ret = "EACCES_hook", !.kind = "none", !.n = 0]
  <2> DEFINE p == PolicyOf(Top(t).kind)
  <2> DEFINE n == Top(t).n
  <2>1. f \in Frame /\ f.pc = "lookup" /\ g \in Frame /\ g.pc = "return"
    BY <1>1 DEF Frame, Kind, Ret
  <2>2. \/ Permits(Top(t).kind, bpfProg, n, Top(t)) /\ SetTop(t, f)
        \/ ~Permits(Top(t).kind, bpfProg, n, Top(t)) /\ SetTop(t, g)
    BY <1>3 DEF Passes, Refused, Verdict
  <2> HIDE DEF f, g
  <2>3. Top(t).pc = "judge"
    BY <1>3 DEF Passes, Refused, At
  <2>4. p \in seen[t].policies /\ n \in seen[t].nchecks /\ n <= NArgs
    BY <1>1, <2>3 DEF Witnessed
  <2>5. p.kind = Top(t).kind
    BY DEF PolicyOf
  <2>6. Permits(p.kind, p.prog, n, Top(t)) = Permits(Top(t).kind, bpfProg, n, Top(t))
    BY <2>5, SameVerdict
  <2>7. Permits(Top(t).kind, bpfProg, n, Top(t)) \in BOOLEAN
    BY DEF Permits
  <2>8. Judged(t, Permits(Top(t).kind, bpfProg, n, Top(t)))
    <3> HIDE DEF p, n
    <3> QED BY <2>4, <2>6 DEF Judged
  <2>9. CASE Permits(Top(t).kind, bpfProg, n, Top(t)) /\ SetTop(t, f)
    <3>1. Permits(Top(t).kind, bpfProg, n, Top(t)) = TRUE
      BY <2>7, <2>9
    <3> HIDE DEF n
    <3>2. Judged(t, TRUE)
      BY <2>8, <3>1
    <3> QED BY <1>1, <2>1, <2>9, <3>2, TopOfSetTop
  <2>10. CASE ~Permits(Top(t).kind, bpfProg, n, Top(t)) /\ SetTop(t, g)
    <3>1. Permits(Top(t).kind, bpfProg, n, Top(t)) = FALSE
      BY <2>7, <2>10
    <3> HIDE DEF n
    <3>2. Judged(t, FALSE)
      BY <2>8, <3>1
    <3> QED BY <1>1, <2>1, <2>10, <3>2, TopOfSetTop
  <2> QED BY <2>2, <2>9, <2>10
<1> QED BY <1>2, <1>3, VerdictSteps

\* Every verdict of policy_ok is the verdict of a policy and an NCHECK of the
\* call's own time, for any number of threads and of concurrent set_policy and
\* set_ncheck calls.
THEOREM VerdictTheorem == Spec => PolicyRespected
<1> DEFINE Verdicts == \A t \in Thread : Undecided(t) =>
             /\ Top(t)'.pc = "lookup" => Judged(t, TRUE)
             /\ Top(t)'.pc = "return" => Judged(t, FALSE)
<1>1. Init => Witnesses
  BY InitWitnessed
<1>2. Typed /\ Witnesses /\ [Next]_vars => Witnesses'
  BY NextWitnessed
<1>3. Typed /\ Witnesses /\ [Next]_vars => [Verdicts]_vars
  BY NextJudged
<1> QED BY <1>1, <1>2, <1>3, TypeSafety, PTL DEF Spec, PolicyRespected

-----------------------------------------------------------------------------
(* How far the calls are                                                   *)


\* How far t is: outside of every call, inside one, or on its way out of the
\* grates with what it will return.
Ending(t) == IF stack[t] = <<>> THEN "idle"
             ELSE IF Top(t).pc = "return" THEN Top(t).ret ELSE "pending"

endings == [t \in Thread |-> Ending(t)]

Endings == {"idle", "pending"} \cup Ret

Ended == endings \in [Thread -> Endings]

\* What a step of Dispatch can do to the endings, to the count of denials and to
\* the answers.
Idles ==
  /\ UNCHANGED <<endings, denied, told, answer>>
  /\ aborted' = aborted \/ (~aborted /\ aborted')

Begins(t) ==
  /\ ~aborted /\ endings[t] = "idle"
  /\ endings' = [endings EXCEPT ![t] = "pending"]
  /\ UNCHANGED <<denied, told, answer, aborted>>

Decides(t, r) ==
  /\ ~aborted /\ endings[t] = "pending"
  /\ endings' = [endings EXCEPT ![t] = r]
  /\ denied' = IF r = "EACCES_hook" THEN denied + 1 ELSE denied
  /\ UNCHANGED <<told, answer, aborted>>

Answers(t) ==
  /\ ~aborted /\ endings[t] \in Ret
  /\ answer' = [answer EXCEPT ![t] = endings[t]]
  /\ endings' = [endings EXCEPT ![t] = "idle"]
  /\ told' = IF endings[t] = "EACCES_hook" THEN told + 1 ELSE told
  /\ UNCHANGED <<denied, aborted>>

Summary == Idles \/ \E t \in Thread : Begins(t) \/ Answers(t) \/ \E r \in Ret : Decides(t, r)

-----------------------------------------------------------------------------
(* A step seen from the endings                                            *)

\* The ending of a thread whose innermost frame is now f.
LEMMA TopEnding ==
  ASSUME NEW t \in Thread, NEW f, stack'[t] # <<>>, Top(t)' = f,
         \A u \in Thread \ {t} : stack'[u] = stack[u]
  PROVE  endings' = [endings EXCEPT ![t] = IF f.pc = "return" THEN f.ret ELSE "pending"]
<1>1. Ending(t)' = IF f.pc = "return" THEN f.ret ELSE "pending"
  BY DEF Ending
<1>2. ASSUME NEW u \in Thread \ {t} PROVE Ending(u)' = Ending(u)
  BY <1>2 DEF Ending, Top
<1> QED BY <1>1, <1>2 DEF endings

\* The innermost frame is replaced.
LEMMA SetTopEnding ==
  ASSUME Typed, NEW t \in Thread, stack[t] # <<>>, NEW f \in Frame, SetTop(t, f)
  PROVE  endings' = [endings EXCEPT ![t] = IF f.pc = "return" THEN f.ret ELSE "pending"]
<1> QED BY TopOfSetTop, TopEnding

\* A frame that has not returned is pushed.
LEMMA PushEnding ==
  ASSUME Typed, NEW t \in Thread, NEW f \in Frame, f.pc # "return", Push(t, f)
  PROVE  endings' = [endings EXCEPT ![t] = "pending"]
<1>1. /\ Len(stack[t]) \in Nat /\ Len(stack'[t]) = Len(stack[t]) + 1
      /\ stack'[t][Len(stack[t]) + 1] = f
      /\ \A u \in Thread \ {t} : stack'[u] = stack[u]
  BY PushStack
<1>2. Top(t)' = f /\ stack'[t] # <<>>
  BY <1>1 DEF Top
<1> QED BY <1>1, <1>2, TopEnding

\* The ending of a thread inside a call.
LEMMA EndingNow ==
  ASSUME NEW t \in Thread, stack[t] # <<>>
  PROVE  endings[t] = IF Top(t).pc = "return" THEN Top(t).ret ELSE "pending"
  BY DEF endings, Ending

\* Writing back what is there changes nothing.
LEMMA SameEnding ==
  ASSUME NEW t \in Thread, NEW e, endings[t] = e, endings' = [endings EXCEPT ![t] = e]
  PROVE  endings' = endings
  BY DEF endings

-----------------------------------------------------------------------------
(* The steps of a call                                                     *)

\* The steps of the policy hook before its verdict, and a verdict that lets the
\* call through.
LEMMA HookEnding ==
  ASSUME Typed, NEW t \in Thread, LoadKind(t) \/ LoadNcheck(t) \/ Passes(t)
  PROVE  Idles
<1>1. /\ stack[t] # <<>> /\ Top(t).pc # "return"
      /\ UNCHANGED <<denied, told, answer, aborted>>
  BY DEF LoadKind, LoadNcheck, Passes, At, InCall
<1>2. Top(t) \in Frame /\ policyKind \in Kind /\ ncheck \in Nat
  BY <1>1, TopType DEF Typed, TypeOK
<1> DEFINE f == [Top(t) EXCEPT !.pc = "lookup", !.ret = "none", !.kind = "none", !.n = 0]
<1> DEFINE g == [Top(t) EXCEPT !.pc = "ncheck", !.kind = policyKind]
<1> DEFINE e == [Top(t) EXCEPT !.pc = "judge", !.n = ncheck]
<1>3. /\ f \in Frame /\ g \in Frame /\ e \in Frame
      /\ f.pc # "return" /\ g.pc # "return" /\ e.pc # "return"
  BY <1>2 DEF Frame, Kind
<1>4. SetTop(t, f) \/ SetTop(t, g) \/ SetTop(t, e)
  BY DEF LoadKind, LoadNcheck, Passes, Verdict
<1> HIDE DEF f, g, e
<1>5. endings' = [endings EXCEPT ![t] = "pending"]
  BY <1>1, <1>3, <1>4, SetTopEnding
<1>6. endings' = endings
  BY <1>1, <1>5, EndingNow, SameEnding
<1> QED BY <1>1, <1>6 DEF Idles

\* A refusal by the hook is the one step that counts.
LEMMA RefusedEnding ==
  ASSUME Typed, NEW t \in Thread, Refused(t)
  PROVE  Decides(t, "EACCES_hook")
<1>1. /\ stack[t] # <<>> /\ Top(t).pc # "return" /\ ~aborted
      /\ denied' = denied + 1 /\ UNCHANGED <<told, answer, aborted>>
  BY DEF Refused, At, InCall
<1>2. Top(t) \in Frame
  BY <1>1, TopType
<1> DEFINE f == [Top(t) EXCEPT !.pc = "return", !.ret = "EACCES_hook", !.kind = "none", !.n = 0]
<1>3. f \in Frame /\ f.pc = "return" /\ f.ret = "EACCES_hook"
  BY <1>2 DEF Frame, Kind, Ret
<1>4. SetTop(t, f)
  BY DEF Refused, Verdict
<1> HIDE DEF f
<1>5. endings' = [endings EXCEPT ![t] = "EACCES_hook"]
  BY <1>1, <1>3, <1>4, SetTopEnding
<1> QED BY <1>1, <1>5, EndingNow DEF Decides

\* The lookup, the leaf and a grate's own refusal decide without counting.
LEMMA ReturnEnding ==
  ASSUME Typed, NEW t \in Thread, At(t, Top(t).pc), Top(t).pc # "return",
         NEW r \in Ret \ {"EACCES_hook"}, Return(t, r), UNCHANGED <<denied, told, answer, aborted>>
  PROVE  Decides(t, r)
<1>1. stack[t] # <<>> /\ ~aborted
  BY DEF At
<1>2. Top(t) \in Frame
  BY <1>1, TopType
<1> DEFINE f == [Top(t) EXCEPT !.pc = "return", !.ret = r]
<1>3. f \in Frame /\ f.pc = "return" /\ f.ret = r
  BY <1>2 DEF Frame
<1>4. SetTop(t, f)
  BY DEF Return
<1> HIDE DEF f
<1>5. endings' = [endings EXCEPT ![t] = r]
  BY <1>1, <1>3, <1>4, SetTopEnding
<1> QED BY <1>1, <1>5, EndingNow DEF Decides

LEMMA LookupEnding ==
  ASSUME Typed, NEW t \in Thread, Lookup(t)
  PROVE  Idles \/ Decides(t, "ENOSYS")
<1> DEFINE h == routes[Top(t).self]
<1>1. /\ stack[t] # <<>> /\ Top(t).pc = "lookup" /\ At(t, Top(t).pc)
      /\ UNCHANGED <<denied, told, answer, aborted>>
  BY DEF Lookup, At, InCall
<1>2. Top(t) \in Frame /\ h \in Handler \cup {NoHandler}
  BY <1>1, TopType DEF Frame, Typed, TypeOK
<1>3. CASE h = NoHandler
  <2>1. Return(t, "ENOSYS")
    BY <1>3 DEF Lookup
  <2> QED BY <1>1, <2>1, ReturnEnding DEF Ret
<1>4. CASE h # NoHandler
  <2> DEFINE f == [Top(t) EXCEPT !.pc = "dispatch", !.h = h]
  <2>1. SetTop(t, f)
    BY <1>4 DEF Lookup
  <2> HIDE DEF h
  <2>2. f \in Frame /\ f.pc # "return"
    BY <1>2 DEF Frame
  <2> HIDE DEF f
  <2>3. endings' = endings
    BY <1>1, <2>1, <2>2, SetTopEnding, EndingNow, SameEnding
  <2> QED BY <1>1, <2>3 DEF Idles
<1> QED BY <1>3, <1>4

\* Inside the grates nothing is decided before the innermost call returns, and
\* what it returns is not touched on the way out.
LEMMA GrateEnding ==
  ASSUME Typed, NEW t \in Thread, EnterGrate(t) \/ GrateForwards(t) \/ GrateReturns(t)
  PROVE  Idles
<1>1. stack[t] # <<>> /\ UNCHANGED <<denied, told, answer, aborted>>
  BY DEF EnterGrate, GrateForwards, GrateReturns, At, InCall
<1>2. CASE EnterGrate(t)
  <2> DEFINE f == [Top(t) EXCEPT !.pc = "grate"]
  <2>1. f \in Frame /\ f.pc = "grate"
    BY <1>1, TopType DEF Frame
  <2>2. Top(t).pc = "dispatch" /\ SetTop(t, f)
    BY <1>2 DEF EnterGrate, Goto, At
  <2> HIDE DEF f
  <2>3. endings' = endings
    BY <1>1, <2>1, <2>2, SetTopEnding, EndingNow, SameEnding
  <2> QED BY <1>1, <2>3 DEF Idles
<1>3. CASE GrateForwards(t)
  <2>1. PICK f : f \in Frame /\ f.pc \in {"kind", "lookup"} /\ Push(t, f)
    BY <1>3, GrateForwardsStep DEF Fresh
  <2>2. Top(t).pc = "grate"
    BY <1>3 DEF GrateForwards, At
  <2>3. endings' = endings
    BY <1>1, <2>1, <2>2, PushEnding, EndingNow, SameEnding
  <2> QED BY <1>1, <2>3 DEF Idles
<1>4. CASE GrateReturns(t)
  <2>1. PICK f \in Frame : /\ Len(stack[t]) > 1 /\ Top(t).pc = "return"
                           /\ f.pc = "return" /\ f.ret = Top(t).ret /\ Unwind(t, f)
    BY <1>4, GrateReturnsStep
  <2>2. Len(stack[t]) \in Nat
    BY DEF Typed, TypeOK
  <2>3. /\ Len(stack'[t]) = Len(stack[t]) - 1 /\ stack'[t][Len(stack[t]) - 1] = f
        /\ \A u \in Thread \ {t} : stack'[u] = stack[u]
    BY <2>1, <2>2, ReturnStack
  <2>4. Top(t)' = f /\ stack'[t] # <<>>
    BY <2>1, <2>2, <2>3 DEF Top
  <2>5. endings' = [endings EXCEPT ![t] = Top(t).ret]
    BY <2>1, <2>3, <2>4, TopEnding
  <2>6. endings' = endings
    BY <1>1, <2>1, <2>5, EndingNow, SameEnding
  <2> QED BY <1>1, <2>6 DEF Idles
<1> QED BY <1>2, <1>3, <1>4

\* The outermost frame returns to the cage.
LEMMA AnswerEnding ==
  ASSUME Typed, Ended, NEW t \in Thread, Answer(t)
  PROVE  Answers(t)
<1>1. /\ stack[t] # <<>> /\ Top(t).pc = "return" /\ ~aborted
      /\ answer' = [answer EXCEPT ![t] = Top(t).ret]
      /\ told' = IF Top(t).ret = "EACCES_hook" THEN told + 1 ELSE told
      /\ stack' = [stack EXCEPT ![t] = <<>>]
      /\ UNCHANGED <<denied, aborted>>
  BY DEF Answer, At
<1>2. endings[t] = Top(t).ret
  BY <1>1, EndingNow
<1>3. Top(t).ret \in Ret
  <2>1. endings[t] \in Endings
    BY DEF Ended
  <2>2. Top(t).ret \in Ret \cup {"none"}
    BY <1>1, TopType DEF Frame
  <2> QED BY <1>2, <2>1, <2>2 DEF Endings, Ret
<1>4. stack'[t] = <<>> /\ \A u \in Thread \ {t} : stack'[u] = stack[u]
  BY <1>1 DEF Typed, TypeOK
<1>5. endings' = [endings EXCEPT ![t] = "idle"]
  BY <1>4 DEF endings, Ending, Top
<1> QED BY <1>1, <1>2, <1>3, <1>5 DEF Answers

-----------------------------------------------------------------------------
(* The summary of a step                                                   *)

\* Steps that touch neither a stack nor an answer.
LEMMA StillIdles ==
  ASSUME UNCHANGED <<stack, denied, told, answer>>,
         aborted' = aborted \/ (~aborted /\ aborted')
  PROVE  Idles
<1>1. endings' = endings
  BY DEF endings, Ending, Top
<1> QED BY <1>1 DEF Idles

\* A call is issued.
LEMMA CallBegins ==
  ASSUME Typed, NEW t \in Thread, Calls(t)
  PROVE  Begins(t)
<1>1. stack[t] = <<>> /\ ~aborted /\ UNCHANGED <<denied, told, answer, aborted>>
  BY DEF Calls, Call, CallNarrow, MayCall, Issued
<1>2. PICK f : f \in Frame /\ f.pc \in {"kind", "lookup"} /\ Push(t, f)
  BY CallStep DEF Fresh
<1>3. endings' = [endings EXCEPT ![t] = "pending"]
  BY <1>2, PushEnding
<1>4. endings[t] = "idle"
  BY <1>1 DEF endings, Ending
<1> QED BY <1>1, <1>3, <1>4 DEF Begins

\* Whatever the program does, a call begins, is decided, is answered, or none of
\* this happens to any call.
LEMMA StepSummary == Typed /\ Ended /\ [Next]_vars => Summary
<1> SUFFICES ASSUME Typed, Ended, [Next]_vars PROVE Summary
  OBVIOUS
<1>1. CASE UNCHANGED vars
  BY <1>1, StillIdles DEF vars, Summary
<1>2. CASE Configure
  <2>1. UNCHANGED <<stack, denied, told, answer, aborted>>
    BY <1>2 DEF Configure, SetPolicy, InstallFilter, SetKind, SetNcheck, Register, Quiet
  <2> QED BY <2>1, StillIdles DEF Summary
<1>3. ASSUME NEW t \in Thread, Teardown(t) \/ \E m \in Modes, n \in Lengths : BuildChain(t, m, n)
      PROVE  Summary
  <2>1. UNCHANGED <<stack, denied, told, answer, aborted>>
    BY <1>3 DEF Teardown, BuildChain
  <2> QED BY <2>1, StillIdles DEF Summary
<1>4. ASSUME NEW t \in Thread, Calls(t) PROVE Summary
  BY <1>4, CallBegins DEF Summary
<1>5. ASSUME NEW t \in Thread, Step(t) PROVE Summary
  <2>1. CASE LoadKind(t) \/ LoadNcheck(t) \/ Passes(t)
    BY <2>1, HookEnding DEF Summary
  <2>2. CASE Refused(t)
    BY <2>2, RefusedEnding DEF Summary, Ret
  <2>3. CASE PolicyAborts(t) \/ EnterAborts(t)
    <3>1. ~aborted /\ aborted' /\ UNCHANGED <<stack, denied, told, answer>>
      BY <2>3 DEF PolicyAborts, PolicyPanics, EnterAborts, Abort, At
    <3> QED BY <3>1, StillIdles DEF Summary
  <2>4. CASE Lookup(t)
    BY <2>4, LookupEnding DEF Summary, Ret
  <2>5. CASE RunLeaf(t)
    <3>1. /\ At(t, Top(t).pc) /\ Top(t).pc # "return" /\ Return(t, "ok")
          /\ UNCHANGED <<denied, told, answer, aborted>>
      BY <2>5 DEF RunLeaf, At, InCall
    <3> QED BY <3>1, ReturnEnding DEF Summary, Ret
  <2>6. CASE GrateDenies(t)
    <3>1. /\ At(t, Top(t).pc) /\ Top(t).pc # "return" /\ Return(t, "EACCES_grate")
          /\ UNCHANGED <<denied, told, answer, aborted>>
      BY <2>6 DEF GrateDenies, At, InCall
    <3> QED BY <3>1, ReturnEnding DEF Summary, Ret
  <2>7. CASE EnterGrate(t) \/ GrateForwards(t) \/ GrateReturns(t)
    BY <2>7, GrateEnding DEF Summary
  <2>8. CASE Answer(t)
    BY <2>8, AnswerEnding DEF Summary
  <2> QED BY <1>5, <2>1, <2>2, <2>3, <2>4, <2>5, <2>6, <2>7, <2>8 DEF Step
<1> QED BY <1>1, <1>2, <1>3, <1>4, <1>5 DEF Next, Calls

\* A call that returns has something to return.
LEMMA InitEnded == Init => Ended
  BY DEF Init, Ended, Endings, endings, Ending

LEMMA NextEnded == Typed /\ Ended /\ [Next]_vars => Ended'
<1> SUFFICES ASSUME Typed, Ended, [Next]_vars PROVE Ended'
  OBVIOUS
<1>1. CASE Idles
  BY <1>1 DEF Idles, Ended
<1>2. ASSUME NEW t \in Thread, Begins(t) \/ Answers(t) \/ \E r \in Ret : Decides(t, r)
      PROVE  Ended'
  BY <1>2 DEF Begins, Answers, Decides, Ended, Endings
<1> QED BY <1>1, <1>2, StepSummary DEF Summary

\* A call of make_syscall that has returned to its cage, or is about to, has exactly
\* one of the endings a call can have, through any number of grates.
THEOREM EndingTheorem == Spec => []Ended
  BY InitEnded, NextEnded, TypeSafety, PTL DEF Spec

-----------------------------------------------------------------------------
(* The count of denials                                                    *)

\* The threads whose call the hook has refused and which have not been told yet.
Refusals == {t \in Thread : endings[t] = "EACCES_hook"}

Counted == IsFiniteSet(Refusals) /\ denied = told + Cardinality(Refusals)

\* This is the set that DenialsTold counts.
LEMMA CountedIsTold == Counted => DenialsTold
<1>1. Refusals = {t \in Thread :
                    stack[t] # <<>> /\ Top(t).pc = "return" /\ Top(t).ret = "EACCES_hook"}
  BY DEF Refusals, endings, Ending
<1> QED BY <1>1 DEF Counted, DenialsTold

LEMMA InitCounted == Init => Counted
<1> SUFFICES ASSUME Init PROVE Counted
  OBVIOUS
<1>1. Refusals = {}
  BY DEF Init, Refusals, endings, Ending
<1> QED BY <1>1, FS_EmptySet DEF Counted, Init

LEMMA NextCounted == Typed /\ Ended /\ Counted /\ [Next]_vars => Counted'
<1> SUFFICES ASSUME Typed, Ended, Counted, [Next]_vars PROVE Counted'
  OBVIOUS
<1>1. denied \in Nat /\ told \in Nat /\ Cardinality(Refusals) \in Nat
  BY FS_CardinalityType DEF Typed, TypeOK, Counted
<1>2. CASE Idles
  <2>1. Refusals' = Refusals
    BY <1>2 DEF Idles, Refusals
  <2> QED BY <1>2, <2>1 DEF Idles, Counted
<1>3. ASSUME NEW t \in Thread, Begins(t) PROVE Counted'
  <2>1. Refusals' = Refusals
    BY <1>3 DEF Begins, Refusals, Ended
  <2> QED BY <1>3, <2>1 DEF Begins, Counted
<1>4. ASSUME NEW t \in Thread, NEW r \in Ret, Decides(t, r) PROVE Counted'
  <2>1. CASE r = "EACCES_hook"
    <3>1. Refusals' = Refusals \cup {t} /\ t \notin Refusals
      BY <1>4, <2>1 DEF Decides, Refusals, Ended
    <3>2. /\ IsFiniteSet(Refusals \cup {t})
          /\ Cardinality(Refusals \cup {t}) = Cardinality(Refusals) + 1
      BY <3>1, FS_AddElement DEF Counted
    <3>3. denied' = denied + 1 /\ told' = told
      BY <1>4, <2>1 DEF Decides
    <3> QED BY <1>1, <3>1, <3>2, <3>3 DEF Counted
  <2>2. CASE r # "EACCES_hook"
    <3>1. Refusals' = Refusals
      BY <1>4, <2>2 DEF Decides, Refusals, Ended
    <3> QED BY <1>4, <2>2, <3>1 DEF Decides, Counted
  <2> QED BY <2>1, <2>2
<1>5. ASSUME NEW t \in Thread, Answers(t) PROVE Counted'
  <2>1. CASE endings[t] = "EACCES_hook"
    <3>1. Refusals' = Refusals \ {t} /\ t \in Refusals
      BY <1>5, <2>1 DEF Answers, Refusals, Ended
    <3>2. /\ IsFiniteSet(Refusals \ {t})
          /\ Cardinality(Refusals \ {t}) = Cardinality(Refusals) - 1
      BY <3>1, FS_RemoveElement DEF Counted
    <3>3. denied' = denied /\ told' = told + 1
      BY <1>5, <2>1 DEF Answers
    <3> QED BY <1>1, <3>1, <3>2, <3>3 DEF Counted
  <2>2. CASE endings[t] # "EACCES_hook"
    <3>1. Refusals' = Refusals
      BY <1>5, <2>2 DEF Answers, Refusals, Ended
    <3> QED BY <1>5, <2>2, <3>1 DEF Answers, Counted
  <2> QED BY <2>1, <2>2
<1> QED BY <1>2, <1>3, <1>4, <1>5, StepSummary DEF Summary

\* Threei::denied counts the refusals by the hook that outermost callers have
\* been or are about to be told of, for any number of threads and chains of any
\* length.
THEOREM DenialTheorem == Spec => []DenialsTold
<1>1. Spec => []Counted
  BY InitCounted, NextCounted, EndingTheorem, TypeSafety, PTL DEF Spec
<1> QED BY <1>1, CountedIsTold, PTL

-----------------------------------------------------------------------------
(* The refinement of SyscallService                                        *)

\* What SyscallService sees of the state.
phases  == [t \in Thread |-> Phase(t)]
answers == [t \in Thread |-> Outcome(answer[t])]

\* It does not see which EACCES a call ends with.
LEMMA PhasesOfEndings == phases = [t \in Thread |-> Outcome(endings[t])]
  BY DEF phases, Phase, endings, Ending, Outcome

LEMMA InitService == Init => Service!Init
  BY DEF Init, Service!Init, Phase, Outcome

LEMMA StepService == Typed /\ Ended /\ [Next]_vars => [Service!Next]_(Service!vars)
<1> SUFFICES ASSUME Typed, Ended, [Next]_vars PROVE [Service!Next]_(Service!vars)
  OBVIOUS
<1>1. /\ phases = [u \in Thread |-> Outcome(endings[u])]
      /\ phases' = [u \in Thread |-> Outcome(endings'[u])]
  <2>1. PhasesOfEndings'
    BY PhasesOfEndings, PTL
  <2> QED BY <2>1, PhasesOfEndings
<1>2. CASE Idles
  <2>1. UNCHANGED <<phases, answers>>
    BY <1>1, <1>2 DEF Idles, answers
  <2>2. CASE aborted' = aborted
    BY <2>1, <2>2 DEF Service!vars, phases, answers
  <2>3. CASE ~aborted /\ aborted'
    BY <2>1, <2>3 DEF Service!Next, Service!Crash, phases, answers
  <2> QED BY <1>2, <2>2, <2>3 DEF Idles
<1>3. ASSUME NEW t \in Thread, Begins(t) PROVE Service!Begin(t)
  <2>1. /\ phases[t] = "idle" /\ phases' = [phases EXCEPT ![t] = "pending"]
        /\ answers' = answers
    BY <1>1, <1>3 DEF Begins, Ended, Outcome, answers
  <2> QED BY <1>3, <2>1 DEF Begins, Service!Begin, phases, answers
<1>4. ASSUME NEW t \in Thread, NEW r \in Ret, Decides(t, r) PROVE Service!Decide(t, Outcome(r))
  <2>1. /\ phases[t] = "pending" /\ phases' = [phases EXCEPT ![t] = Outcome(r)]
        /\ answers' = answers
    BY <1>1, <1>4 DEF Decides, Ended, Outcome, answers
  <2> QED BY <1>4, <2>1 DEF Decides, Service!Decide, phases, answers
<1>5. ASSUME NEW t \in Thread, Answers(t) PROVE Service!Answer(t)
  <2>1. /\ phases[t] = Outcome(endings[t]) /\ phases' = [phases EXCEPT ![t] = "idle"]
        /\ answers' = [answers EXCEPT ![t] = phases[t]]
    BY <1>1, <1>5 DEF Answers, Ended, Outcome, answers, Typed, TypeOK
  <2>2. phases[t] \in Service!Outcome
    BY <1>5, <2>1 DEF Answers, Outcome, Service!Outcome, Ret
  <2> QED BY <1>5, <2>1, <2>2 DEF Answers, Service!Answer, phases, answers
<1>6. \A r \in Ret : Outcome(r) \in Service!Outcome
  BY DEF Outcome, Service!Outcome, Ret
<1> QED BY <1>2, <1>3, <1>4, <1>5, <1>6, StepSummary DEF Summary, Service!Next

\* Seen from its caller a call has one outcome, decided once and returned through
\* any number of grates: Dispatch implements SyscallService.
THEOREM ServiceTheorem == Spec => ServiceSpec
  BY InitService, StepService, EndingTheorem, TypeSafety, PTL
     DEF Spec, ServiceSpec, Service!Spec
=============================================================================
