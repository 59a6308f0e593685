---------------------------- MODULE HarnessProofs ----------------------------
(***************************************************************************)
(* Proof that the benchmark's main is a client Dispatch allows for: every  *)
(* behaviour of Harness is one of Dispatch, so that what is proved of      *)
(* Dispatch holds of the process main runs, whatever the command line.     *)
(*                                                                         *)
(* The script has to stay within the cages, chains and policies there are, *)
(* which is a matter of typing its commands, but for one thing: until main *)
(* has set CURRENT_CAGE a narrow call would be issued by no cage at all.   *)
(* `Enacted' says that no narrow measurement comes before that.            *)
(*                                                                         *)
(* Then that every measurement measures what its label says.  `Following'  *)
(* relates the plan still to come to the handlers, chains and policy the   *)
(* scenarios so far have left, kept or left out; from it follow the policy *)
(* and the chain a measurement finds, what each frame of its calls is and  *)
(* the handler it goes through (`Ready', `Serving'), and so the answers.   *)
(* `Behaving' is what a sensible command line keeps: the discipline        *)
(* without which the process aborts.                                       *)
(***************************************************************************)
EXTENDS Harness, DispatchVerdicts, SequenceTheorems

Names == {"allow_all", "deny_all", "allowlist", "subtree_check"}

\* The commands a script may hold.  A filter may ask about more ids than there
\* are; it is not installed then.
PlainPolicy  == [kind : Kind \ {"bpf"}, prog : {NoProgram}]
FilterPolicy == [kind : {"bpf"}, prog : [name : Names, nargs : Nat]]

\* What a label may say a measurement is made under.
Setting == [policy : PlainPolicy \cup FilterPolicy, mode : {PerCall, Cached, NoChain},
            grates : 0 .. MaxGrates, first : Handler]

Command ==
       [do : {"ncheck"}, n : Nchecks]
  \cup [do : {"policy"}, p : PlainPolicy \cup FilterPolicy]
  \cup [do : {"route"}, cage : Id, h : Handler]
  \cup [do : {"build"}, n : 0 .. MaxGrates, mode : {PerCall, Cached}]
  \cup [do : {"teardown"}]
  \cup [do : {"current"}, cage : {Self}]
  \cup [do : {"measure"}, threads : SUBSET Thread, form : {"wide", "narrow"},
        target : {Self, Desc}, under : Setting, says : Ret]

WideCommand == {c \in Command : c.do = "measure" => c.form = "wide"}

Scenario     == [optional : BOOLEAN, cmds : Seq(Command)]
WideScenario == [optional : BOOLEAN, cmds : Seq(WideCommand)]

\* A scenario that is done in any case and starts by setting CURRENT_CAGE.
Enacts(sc) == ~sc.optional /\ sc.cmds # <<>> /\ Head(sc.cmds) = Enact(Self)

EnactsFirst(p) ==
  \A i \in 1 .. Len(p) : p[i] \in WideScenario \/ \E j \in 1 .. i - 1 : Enacts(p[j])

Enacted ==
  \/ current = Self
  \/ todo # <<>> /\ Head(todo) = Enact(Self)
  \/ todo \in Seq(WideCommand) /\ EnactsFirst(plan)

Scripted ==
  /\ args \in Arguments
  /\ plan \in Seq(Scenario)
  /\ todo \in Seq(Command)
  /\ made \in [Thread -> 0 .. Reps]
  /\ current \in {0, Self}
  /\ panicked \in BOOLEAN
  /\ Enacted

-----------------------------------------------------------------------------
(* The script                                                              *)

\* The cages and grates the script names.
LEMMA Ids ==
  /\ Self \in Cage /\ Self \in Id /\ Desc \in Id
  /\ GrateBase \in Grate /\ GrateBase \in GrateId
  /\ \A i \in 0 .. MaxGrates : GrateBase + i \in GrateId
  /\ \A i \in 0 .. MaxGrates : GrateBase + i \in Id
  /\ \A t \in Thread \ {Main} : Worker(t) \in Cage /\ Worker(t) \in Id
<1>1. Self \in Descent /\ Desc \in Descent
  BY HarnessOK DEF Descent, Desc
<1>2. Self \in Cage /\ Desc \in Cage
  BY <1>1, HarnessOK
<1>3. /\ GrateBase \in Grate /\ GrateBase \in GrateId
      /\ \A i \in 0 .. MaxGrates : GrateBase + i \in GrateId
  BY ConstantsOK, ClientOK DEF Grate, GrateId, ChainOf
<1>4. \A t \in Thread \ {Main} : Worker(t) \in Cage
  BY HarnessOK
<1> QED BY <1>2, <1>3, <1>4 DEF Id

\* A handler is the leaf or one of a grate.
LEMMA Handlers ==
  /\ Raw \in Handler
  /\ \A g \in GrateId, f \in Fptr : ToGrate(g, f) \in Handler
  BY DEF Handler, ToGrate

\* The policies, and what a label may speak of.
LEMMA Settings ==
  /\ NoPolicy \in PlainPolicy
  /\ \A k \in Kind \ {"bpf"} : Only(k) \in PlainPolicy
  /\ \A name \in Names, n \in Nat : Filter(name, n) \in FilterPolicy
  /\ \A p \in PlainPolicy \cup FilterPolicy : Bare(p) \in Setting
  /\ \A m \in {PerCall, Cached}, n \in 0 .. MaxGrates, f \in Fptr : Behind(m, n, f) \in Setting
<1>1. \A k \in Kind \ {"bpf"} : Only(k) \in PlainPolicy
  BY DEF Only, PlainPolicy
<1>2. NoPolicy \in PlainPolicy
  BY <1>1 DEF NoPolicy, Kind
<1>3. \A name \in Names, n \in Nat : Filter(name, n) \in FilterPolicy
  BY DEF Filter, FilterPolicy
<1>4. 0 \in 0 .. MaxGrates
  BY ConstantsOK
<1>5. \A p \in PlainPolicy \cup FilterPolicy : Bare(p) \in Setting
  BY <1>4, Handlers DEF Bare, Setting
<1>6. \A m \in {PerCall, Cached}, n \in 0 .. MaxGrates, f \in Fptr : Behind(m, n, f) \in Setting
  <2>1. \A f \in Fptr : ToGrate(GrateBase, f) \in Handler
    BY Ids, Handlers
  <2> QED BY <1>2, <2>1 DEF Behind, Setting
<1> QED BY <1>1, <1>2, <1>3, <1>5, <1>6

\* The commands but for the measurements.
LEMMA Commands ==
  /\ \A n \in Nchecks : Ncheck(n) \in WideCommand
  /\ \A p \in PlainPolicy \cup FilterPolicy : Impose(p) \in WideCommand
  /\ \A c \in Id, h \in Handler : Route(c, h) \in WideCommand
  /\ \A n \in 0 .. MaxGrates, m \in {PerCall, Cached} : Build(n, m) \in WideCommand
  /\ Unbuild \in WideCommand
  /\ Enact(Self) \in WideCommand
<1>1. \A n \in Nchecks : Ncheck(n) \in WideCommand
  BY DEF Ncheck, WideCommand, Command
<1>2. \A p \in PlainPolicy \cup FilterPolicy : Impose(p) \in WideCommand
  BY DEF Impose, WideCommand, Command
<1>3. \A c \in Id, h \in Handler : Route(c, h) \in WideCommand
  BY DEF Route, WideCommand, Command
<1>4. \A n \in 0 .. MaxGrates, m \in {PerCall, Cached} : Build(n, m) \in WideCommand
  BY DEF Build, WideCommand, Command
<1>5. Unbuild \in WideCommand /\ Enact(Self) \in WideCommand
  BY DEF Unbuild, Enact, WideCommand, Command
<1> QED BY <1>1, <1>2, <1>3, <1>4, <1>5

\* The measurements.
LEMMA Measurements ==
  ASSUME NEW ts \in SUBSET Thread, NEW x \in {Self, Desc}, NEW u \in Setting, NEW r \in Ret
  PROVE  /\ Measure(ts, "wide", x, u, r) \in WideCommand
         /\ Measure(ts, "narrow", x, u, r) \in Command
  BY DEF Measure, WideCommand, Command

\* A scenario by its commands.
LEMMA Scenarios ==
  /\ \A cmds \in Seq(WideCommand) : Always(cmds) \in WideScenario /\ Keep(cmds) \in WideScenario
  /\ WideScenario \subseteq Scenario
<1>1. WideCommand \subseteq Command
  BY DEF WideCommand
<1>2. Seq(WideCommand) \subseteq Seq(Command)
  BY <1>1, SeqDef
<1> QED BY <1>2 DEF Always, Keep, WideScenario, Scenario

LEMMA WideOk == \A x \in {Self, Desc}, u \in Setting, r \in Ret : Wide(x, u, r) \in WideCommand
  BY Measurements, HarnessOK DEF Wide

LEMMA SetUpTyped ==
  ASSUME NEW arg \in Arguments
  PROVE  SetUp(arg) \in Seq(WideScenario)
<1>1. Ncheck(arg.ncheck) \in WideCommand /\ Route(Self, Raw) \in WideCommand
  BY Commands, Ids, Handlers, ClientOK
<1>2. <<Ncheck(arg.ncheck), Route(Self, Raw)>> \in Seq(WideCommand)
  BY <1>1
<1>3. Always(<<Ncheck(arg.ncheck), Route(Self, Raw)>>) \in WideScenario
  BY <1>2, Scenarios
<1> QED BY <1>3 DEF SetUp

LEMMA SectionBTyped ==
  ASSUME NEW arg \in Arguments
  PROVE  SectionB(arg) \in Seq(WideScenario)
<1>1. ASSUME NEW p \in PlainPolicy \cup FilterPolicy, NEW x \in {Self, Desc}, NEW r \in Ret
      PROVE  HookRun(p, x, r) \in WideScenario
  <2>1. Impose(p) \in WideCommand /\ Wide(x, Bare(p), r) \in WideCommand
    BY Commands, Settings, WideOk
  <2>2. <<Impose(p), Wide(x, Bare(p), r)>> \in Seq(WideCommand)
    BY <2>1
  <2> QED BY <2>2, Scenarios DEF HookRun
<1>2. NoPolicyAgain \in WideScenario
  <2>1. Impose(NoPolicy) \in WideCommand
    BY Commands, Settings
  <2>2. <<Impose(NoPolicy)>> \in Seq(WideCommand)
    BY <2>1
  <2> QED BY <2>2, Scenarios DEF NoPolicyAgain
<1>3. arg.ncheck \in Nat
  BY HarnessOK DEF Argument
<1>4. /\ HookRun(NoPolicy, Self, "ok") \in WideScenario
      /\ \A k \in Kind \ {"bpf"}, x \in {Self, Desc} : HookRun(Only(k), x, "ok") \in WideScenario
  BY <1>1, Settings DEF Ret
<1>5. \A name \in Names, n \in Nat, r \in Ret : HookRun(Filter(name, n), Desc, r) \in WideScenario
  BY <1>1, Settings
<1>6. /\ HookRun(Only("subtree_walk"), Self, "ok") \in WideScenario
      /\ HookRun(Only("subtree_walk"), Desc, "ok") \in WideScenario
      /\ HookRun(Only("subtree_bits"), Self, "ok") \in WideScenario
      /\ HookRun(Only("subtree_bits"), Desc, "ok") \in WideScenario
      /\ HookRun(Only("grants_hash"), Desc, "ok") \in WideScenario
      /\ HookRun(Only("grants_bits"), Desc, "ok") \in WideScenario
  BY <1>4 DEF Kind, GrantsKind
<1>7. /\ HookRun(Filter("allow_all", 0), Desc, "ok") \in WideScenario
      /\ HookRun(Filter("deny_all", 0), Desc, "EACCES_hook") \in WideScenario
      /\ HookRun(Filter("allowlist", 0), Desc, "ok") \in WideScenario
      /\ HookRun(Filter("subtree_check", arg.ncheck), Desc, "ok") \in WideScenario
  BY <1>3, <1>5 DEF Names, Ret
<1> QED BY <1>2, <1>4, <1>6, <1>7 DEF SectionB

LEMMA StackTyped ==
  ASSUME NEW n \in 0 .. MaxGrates, NEW m \in {PerCall, Cached}, NEW f \in Fptr, NEW r \in Ret
  PROVE  Stack(n, m, f, r) \in WideScenario
<1> DEFINE routed == [k \in 1 .. n |-> Route(GrateBase + k - 1, NextHop(n, k - 1))]
<1> DEFINE before == <<Build(n, m), Route(Self, ToGrate(GrateBase, f))>>
<1> DEFINE after == <<Wide(Self, Behind(m, n, f), r), Unbuild>>
<1>1. n \in Nat /\ MaxGrates \in Nat /\ GrateBase \in Nat
  BY ConstantsOK
<1>2. ASSUME NEW k \in 1 .. n PROVE Route(GrateBase + k - 1, NextHop(n, k - 1)) \in WideCommand
  <2>1. GrateBase + k - 1 = GrateBase + (k - 1) /\ k - 1 \in 0 .. MaxGrates
    BY <1>1
  <2>2. GrateBase + k - 1 \in Id
    BY <2>1, Ids
  <2>3. NextHop(n, k - 1) \in Handler
    <3>1. CASE k < n
      <4>1. GrateBase + (k - 1) + 1 = GrateBase + k /\ k \in 0 .. MaxGrates /\ k - 1 + 1 < n
        BY <1>1, <3>1
      <4>2. GrateBase + (k - 1) + 1 \in GrateId
        BY <4>1, Ids
      <4> QED BY <4>1, <4>2, Handlers DEF NextHop, Fptr
    <3>2. CASE ~(k < n)
      <4>1. ~(k - 1 + 1 < n)
        BY <1>1, <3>2
      <4> QED BY <4>1, Handlers DEF NextHop
    <3> QED BY <3>1, <3>2
  <2> QED BY <2>2, <2>3, Commands
<1>3. routed \in Seq(WideCommand)
  <2>1. routed \in [1 .. n -> WideCommand]
    BY <1>2
  <2> QED BY <1>1, <2>1, SeqDef
<1>4. before \in Seq(WideCommand)
  <2>1. Build(n, m) \in WideCommand /\ Route(Self, ToGrate(GrateBase, f)) \in WideCommand
    BY Commands, Ids, Handlers
  <2> QED BY <2>1
<1>5. after \in Seq(WideCommand)
  <2>1. Wide(Self, Behind(m, n, f), r) \in WideCommand /\ Unbuild \in WideCommand
    BY Commands, Settings, WideOk
  <2> QED BY <2>1
<1> HIDE DEF routed, before, after
<1>6. before \o routed \o after \in Seq(WideCommand)
  BY <1>3, <1>4, <1>5, ConcatProperties
<1> QED BY <1>6, Scenarios DEF Stack, routed, before, after

LEMMA SectionCTyped ==
  ASSUME NEW arg \in Arguments
  PROVE  SectionC(arg) \in Seq(WideScenario)
<1> DEFINE run(i) == Stack(arg.grates[(i + 1) \div 2], IF i % 2 = 1 THEN PerCall ELSE Cached,
                           "forward", "ok")
<1> DEFINE runs == [i \in 1 .. 2 * Len(arg.grates) |-> run(i)]
<1> DEFINE rest == <<Stack(1, PerCall, "deny", "EACCES_grate"),
                     Stack(1, PerCall, "policy_forward", "ok"),
                     Always(<<Route(Self, Raw)>>)>>
<1>1. arg.grates \in Seq(Nat) /\ \A i \in DOMAIN arg.grates : arg.grates[i] <= MaxGrates
  BY HarnessOK DEF Argument
<1>2. Len(arg.grates) \in Nat /\ MaxGrates \in Nat /\ MaxGrates > 0
  BY <1>1, ClientOK, ConstantsOK
<1>3. ASSUME NEW i \in 1 .. 2 * Len(arg.grates) PROVE run(i) \in WideScenario
  <2>1. (i + 1) \div 2 \in 1 .. Len(arg.grates)
    BY <1>2
  <2>2. arg.grates[(i + 1) \div 2] \in 0 .. MaxGrates
    BY <1>1, <1>2, <2>1
  <2> QED BY <2>2, StackTyped DEF Fptr, Ret
<1> HIDE DEF run
<1>4. runs \in Seq(WideScenario)
  <2>1. runs \in [1 .. 2 * Len(arg.grates) -> WideScenario] /\ 2 * Len(arg.grates) \in Nat
    BY <1>2, <1>3
  <2> QED BY <2>1, SeqDef
<1>5. rest \in Seq(WideScenario)
  <2>1. Stack(1, PerCall, "deny", "EACCES_grate") \in WideScenario
    BY <1>2, StackTyped DEF Fptr, Ret
  <2>2. Stack(1, PerCall, "policy_forward", "ok") \in WideScenario
    BY <1>2, StackTyped DEF Fptr, Ret
  <2>3. Route(Self, Raw) \in WideCommand
    BY Commands, Ids, Handlers
  <2>4. <<Route(Self, Raw)>> \in Seq(WideCommand)
    BY <2>3
  <2>5. Always(<<Route(Self, Raw)>>) \in WideScenario
    BY <2>4, Scenarios
  <2> QED BY <2>1, <2>2, <2>5
<1> HIDE DEF runs, rest
<1>6. runs \o rest \in Seq(WideScenario)
  BY <1>4, <1>5, ConcatProperties
<1> QED BY <1>6 DEF SectionC, runs, rest, run

LEMMA SectionDTyped ==
  /\ SectionD \in Seq(Scenario) /\ Len(SectionD) > 0
  /\ SectionD[1] \in WideScenario /\ Enacts(SectionD[1])
<1> DEFINE set == <<Enact(Self), Route(Self, Raw)>>
<1> DEFINE narrow == Measure({Main}, "narrow", Self, Bare(NoPolicy), "ok")
<1>1. /\ Enact(Self) \in WideCommand /\ Route(Self, Raw) \in WideCommand
      /\ Wide(Self, Bare(NoPolicy), "ok") \in WideCommand /\ narrow \in Command
  BY Commands, Settings, Ids, Handlers, WideOk, Measurements, HarnessOK DEF Ret
<1>2. set \in Seq(WideCommand) /\ Head(set) = Enact(Self) /\ set # <<>>
  BY <1>1
<1>3. Always(set) \in WideScenario /\ Enacts(Always(set))
  BY <1>2, Scenarios DEF Enacts, Always
<1>4. Keep(<<narrow>>) \in Scenario
  <2>1. <<narrow>> \in Seq(Command)
    BY <1>1
  <2> HIDE DEF narrow
  <2> QED BY <2>1 DEF Keep, Scenario
<1>5. Keep(<<Wide(Self, Bare(NoPolicy), "ok")>>) \in Scenario /\ Always(<<Route(Self, Raw)>>) \in Scenario
  <2>1. <<Wide(Self, Bare(NoPolicy), "ok")>> \in Seq(WideCommand) /\ <<Route(Self, Raw)>> \in Seq(WideCommand)
    BY <1>1
  <2> QED BY <2>1, Scenarios
<1>6. Always(set) \in Scenario
  BY <1>3, Scenarios
<1>7. SectionD = <<Always(set), Keep(<<narrow>>), Keep(<<Wide(Self, Bare(NoPolicy), "ok")>>),
                   Always(<<Route(Self, Raw)>>)>>
  BY DEF SectionD
<1> HIDE DEF set, narrow
<1> QED BY <1>3, <1>4, <1>5, <1>6, <1>7

LEMMA SectionFTyped ==
  ASSUME NEW arg \in Arguments
  PROVE  SectionF(arg) \in Seq(WideScenario)
<1>1. /\ arg.threads \in Seq(Nat)
      /\ \A i \in DOMAIN arg.threads : 1 .. arg.threads[i] \subseteq Thread
  BY HarnessOK DEF Argument
<1>2. ASSUME NEW i \in 1 .. Len(arg.threads)
      PROVE  Contention(arg.threads[i]) \in WideScenario
  <2> DEFINE n == arg.threads[i]
  <2> DEFINE routed == [k \in 1 .. n |-> Route(Worker(k), Raw)]
  <2>1. n \in Nat /\ 1 .. n \subseteq Thread /\ Main \notin 1 .. n
    BY <1>1, HarnessOK
  <2> HIDE DEF n
  <2>2. \A k \in 1 .. n : Route(Worker(k), Raw) \in WideCommand
    BY <2>1, Ids, Handlers, Commands
  <2>3. routed \in Seq(WideCommand)
    <3>1. routed \in [1 .. n -> WideCommand]
      BY <2>2
    <3> QED BY <2>1, <3>1, SeqDef
  <2>4. <<Measure(1 .. n, "wide", Self, Bare(NoPolicy), "ok")>> \in Seq(WideCommand)
    <3>1. Measure(1 .. n, "wide", Self, Bare(NoPolicy), "ok") \in WideCommand
      BY <2>1, Settings, Measurements DEF Ret
    <3> QED BY <3>1
  <2> HIDE DEF routed
  <2>5. routed \o <<Measure(1 .. n, "wide", Self, Bare(NoPolicy), "ok")>> \in Seq(WideCommand)
    BY <2>3, <2>4, ConcatProperties
  <2>6. Contention(n) \in WideScenario
    BY <2>5, Scenarios DEF Contention, routed
  <2> QED BY <2>6 DEF n
<1>3. SectionF(arg) \in [1 .. Len(arg.threads) -> WideScenario] /\ Len(arg.threads) \in Nat
  BY <1>1, <1>2 DEF SectionF
<1> QED BY <1>3, SeqDef

\* What comes before main sets CURRENT_CAGE makes no narrow call.
LEMMA ScriptTyped ==
  ASSUME NEW arg \in Arguments
  PROVE  Script(arg) \in Seq(Scenario) /\ EnactsFirst(Script(arg))
<1> DEFINE p == SetUp(arg) \o SectionB(arg) \o SectionC(arg)
<1> DEFINE q == p \o SectionD
<1> DEFINE r == SectionF(arg)
<1>1. p \in Seq(WideScenario) /\ r \in Seq(WideScenario) /\ SectionD \in Seq(Scenario)
  <2>1. SetUp(arg) \o SectionB(arg) \in Seq(WideScenario)
    BY SetUpTyped, SectionBTyped, ConcatProperties
  <2>2. p \in Seq(WideScenario)
    BY <2>1, SectionCTyped, ConcatProperties
  <2> QED BY <2>2, SectionDTyped, SectionFTyped
<1>2. Seq(WideScenario) \subseteq Seq(Scenario)
  BY Scenarios, SeqDef
<1> HIDE DEF p, r
<1>3. /\ q \in Seq(Scenario) /\ Len(q) = Len(p) + Len(SectionD)
      /\ \A i \in 1 .. Len(q) : q[i] = IF i <= Len(p) THEN p[i] ELSE SectionD[i - Len(p)]
  BY <1>1, <1>2, ConcatProperties
<1>4. q[Len(p) + 1] = SectionD[1] /\ Len(p) + 1 \in 1 .. Len(q) /\ Len(p) \in Nat
  BY <1>1, <1>3, SectionDTyped
<1> HIDE DEF q
<1>5. /\ q \o r \in Seq(Scenario) /\ Len(q \o r) = Len(q) + Len(r)
      /\ \A i \in 1 .. Len(q \o r) : (q \o r)[i] = IF i <= Len(q) THEN q[i] ELSE r[i - Len(q)]
  <2>1. q \in Seq(Scenario) /\ r \in Seq(Scenario)
    BY <1>1, <1>2, <1>3
  <2> QED BY <2>1, ConcatProperties
<1>6. Len(p) + 1 \in 1 .. Len(q \o r) /\ (q \o r)[Len(p) + 1] = SectionD[1]
  BY <1>1, <1>4, <1>5
<1>7. ASSUME NEW i \in 1 .. Len(q \o r)
      PROVE  (q \o r)[i] \in WideScenario \/ \E j \in 1 .. i - 1 : Enacts((q \o r)[j])
  <2>1. CASE i <= Len(p)
    <3>1. i \in 1 .. Len(p) /\ i <= Len(q) /\ i \in 1 .. Len(q)
      BY <1>4, <2>1
    <3>2. (q \o r)[i] = p[i]
      BY <1>3, <1>5, <3>1
    <3> QED BY <1>1, <3>1, <3>2
  <2>2. CASE i = Len(p) + 1
    BY <1>6, <2>2, SectionDTyped
  <2>3. CASE i > Len(p) + 1
    <3>1. Len(p) + 1 \in 1 .. i - 1
      BY <1>4, <2>3
    <3> QED BY <1>6, <3>1, SectionDTyped
  <2> QED BY <1>4, <2>1, <2>2, <2>3
<1>8. Script(arg) = q \o r
  BY DEF Script, q, p, r
<1> QED BY <1>5, <1>7, <1>8 DEF EnactsFirst

-----------------------------------------------------------------------------
(* Main follows its script                                                 *)

LEMMA InitScripted == HarnessInit => Scripted
<1> SUFFICES ASSUME HarnessInit PROVE Scripted
  OBVIOUS
<1>1. plan \in Seq(Scenario) /\ EnactsFirst(plan)
  BY ScriptTyped DEF HarnessInit
<1>2. todo \in Seq(Command) /\ todo \in Seq(WideCommand)
  BY DEF HarnessInit
<1>3. made \in [Thread -> 0 .. Reps]
  BY HarnessOK DEF HarnessInit
<1> QED BY <1>1, <1>2, <1>3 DEF HarnessInit, Scripted, Enacted

\* The next scenario, or none of it.
LEMMA BeginScripted == Scripted /\ Begin => Scripted'
<1> SUFFICES ASSUME Scripted, Begin PROVE Scripted'
  OBVIOUS
<1>1. /\ plan \in Seq(Scenario) /\ plan # <<>> /\ plan' = Tail(plan) /\ todo = <<>>
      /\ UNCHANGED <<args, made, current, panicked>>
      /\ todo' = Head(plan).cmds \/ (Head(plan).optional /\ todo' = <<>>)
  BY DEF Begin, Scripted
<1>2. /\ Head(plan) = plan[1] /\ plan[1] \in Scenario
      /\ Len(plan) \in Nat \ {0}
      /\ Tail(plan) \in Seq(Scenario) /\ Len(Tail(plan)) = Len(plan) - 1
      /\ \A i \in 1 .. Len(plan) - 1 : Tail(plan)[i] = plan[i + 1]
  BY <1>1
<1>3. todo' \in Seq(Command)
  <2>1. plan[1].cmds \in Seq(Command)
    BY <1>2 DEF Scenario
  <2>2. <<>> \in Seq(Command)
    OBVIOUS
  <2> QED BY <1>1, <1>2, <2>1, <2>2
<1>4. Enacted'
  <2>1. CASE current = Self
    BY <1>1, <2>1 DEF Enacted
  <2>2. CASE current # Self
    <3>1. EnactsFirst(plan)
      BY <1>1, <2>2 DEF Scripted, Enacted
    <3>2. CASE todo' = plan[1].cmds /\ Enacts(plan[1])
      BY <3>2 DEF Enacts, Enacted
    <3>3. CASE ~(todo' = plan[1].cmds /\ Enacts(plan[1]))
      <4>1. ~Enacts(plan[1]) \/ (plan[1].optional /\ todo' = <<>>)
        BY <1>1, <1>2, <3>3
      <4>2. ~Enacts(plan[1])
        BY <4>1 DEF Enacts
      <4>3. plan[1] \in WideScenario
        BY <1>2, <3>1 DEF EnactsFirst
      <4>4. todo' \in Seq(WideCommand)
        <5>1. plan[1].cmds \in Seq(WideCommand)
          BY <4>3 DEF WideScenario
        <5>2. <<>> \in Seq(WideCommand)
          OBVIOUS
        <5> QED BY <1>1, <1>2, <5>1, <5>2
      <4>5. ASSUME NEW i \in 1 .. Len(plan')
            PROVE  plan'[i] \in WideScenario \/ \E j \in 1 .. i - 1 : Enacts(plan'[j])
        <5>1. i + 1 \in 1 .. Len(plan) /\ plan'[i] = plan[i + 1] /\ i \in 1 .. Len(plan) - 1
          BY <1>1, <1>2
        <5>2. CASE plan[i + 1] \in WideScenario
          BY <5>1, <5>2
        <5>3. CASE plan[i + 1] \notin WideScenario
          <6>1. PICK j \in 1 .. i : Enacts(plan[j])
            BY <3>1, <5>1, <5>3 DEF EnactsFirst
          <6>2. j # 1 /\ j - 1 \in 1 .. i - 1 /\ j - 1 \in 1 .. Len(plan) - 1
            BY <4>2, <5>1, <6>1
          <6>3. plan'[j - 1] = plan[j]
            BY <1>1, <1>2, <6>2
          <6> QED BY <6>1, <6>2, <6>3
        <5> QED BY <5>2, <5>3
      <4>6. EnactsFirst(plan')
        BY <4>5 DEF EnactsFirst
      <4> QED BY <4>4, <4>6 DEF Enacted
    <3> QED BY <3>2, <3>3
  <2> QED BY <2>1, <2>2
<1> QED BY <1>1, <1>2, <1>3, <1>4 DEF Scripted

\* A command is done that is not setting CURRENT_CAGE.
LEMMA AdvanceScripted ==
  ASSUME Scripted, todo # <<>>, Cmd.do # "current", Advance,
         UNCHANGED <<args, plan, current, panicked>>
  PROVE  Scripted'
<1>1. /\ todo' = Tail(todo) /\ made' = [t \in Thread |-> 0]
      /\ todo \in Seq(Command)
  BY DEF Advance, Scripted
<1>2. todo' \in Seq(Command) /\ (todo \in Seq(WideCommand) => todo' \in Seq(WideCommand))
  BY <1>1
<1>3. Head(todo) # Enact(Self)
  BY DEF Cmd, Enact
<1>4. Enacted'
  BY <1>2, <1>3 DEF Scripted, Enacted
<1>5. made' \in [Thread -> 0 .. Reps]
  BY <1>1, HarnessOK
<1> QED BY <1>2, <1>4, <1>5 DEF Scripted

LEMMA NextScripted == Scripted /\ [HarnessNext]_<<vars, hvars>> => Scripted'
<1> SUFFICES ASSUME Scripted, [HarnessNext]_<<vars, hvars>> PROVE Scripted'
  OBVIOUS
<1>1. ASSUME UNCHANGED <<args, plan, todo, made, current>>, panicked' \in BOOLEAN PROVE Scripted'
  BY <1>1 DEF Scripted, Enacted
<1>2. CASE UNCHANGED <<vars, hvars>>
  BY <1>1, <1>2 DEF hvars, Scripted
<1>3. CASE Begin
  BY <1>3, BeginScripted
<1>4. CASE ApplyPolicy
  <2>1. todo # <<>> /\ Cmd.do # "current" /\ UNCHANGED <<args, plan, current, panicked>>
    BY <1>4 DEF ApplyPolicy, Doing
  <2>2. Advance \/ UNCHANGED <<todo, made>>
    BY <1>4 DEF ApplyPolicy
  <2> QED BY <1>1, <2>1, <2>2, AdvanceScripted DEF Scripted
<1>5. CASE Arrange
  <2>1. todo # <<>> /\ Cmd.do # "current"
    BY <1>5 DEF Arrange, Doing
  <2> QED BY <1>5, <2>1, AdvanceScripted DEF Arrange
<1>6. CASE SetCurrent
  <2>1. /\ todo \in Seq(Command) /\ todo # <<>> /\ Head(todo).do = "current"
        /\ current' = Head(todo).cage /\ todo' = Tail(todo) /\ made' = [t \in Thread |-> 0]
        /\ UNCHANGED <<args, plan, panicked>>
    BY <1>6 DEF SetCurrent, Doing, Advance, Cmd, Scripted
  <2>2. Head(todo) \in Command /\ todo' \in Seq(Command)
    BY <2>1
  <2>3. current' = Self
    BY <2>1, <2>2 DEF Command
  <2>4. made' \in [Thread -> 0 .. Reps]
    BY <2>1, HarnessOK
  <2> QED BY <2>1, <2>2, <2>3, <2>4 DEF Scripted, Enacted
<1>7. CASE Measured
  <2>1. todo # <<>> /\ Cmd.do # "current"
    BY <1>7 DEF Measured, Doing
  <2> QED BY <1>7, <2>1, AdvanceScripted DEF Measured
<1>8. CASE Panic
  BY <1>1, <1>8 DEF Panic
<1>9. ASSUME NEW t \in Thread, Issue(t) PROVE Scripted'
  <2>1. /\ made' = [made EXCEPT ![t] = made[t] + 1] /\ made[t] < Reps
        /\ UNCHANGED <<args, plan, todo, current, panicked>>
    BY <1>9 DEF Issue
  <2>2. made' \in [Thread -> 0 .. Reps]
    BY <2>1, HarnessOK DEF Scripted
  <2> QED BY <2>1, <2>2 DEF Scripted, Enacted
<1>10. ASSUME NEW t \in Thread, InSyscall(t) PROVE Scripted'
  BY <1>1, <1>10 DEF InSyscall, hvars, Scripted
<1> QED BY <1>2, <1>3, <1>4, <1>5, <1>6, <1>7, <1>8, <1>9, <1>10 DEF HarnessNext

-----------------------------------------------------------------------------
(* Main is a client of Dispatch                                            *)

\* A command that is being done, and what its fields are.
LEMMA CommandFields ==
  ASSUME Scripted, todo # <<>>
  PROVE  /\ Cmd \in Command
         /\ Cmd.do = "ncheck" => Cmd.n \in Nchecks
         /\ Cmd.do = "policy" => Cmd.p \in PlainPolicy \cup FilterPolicy
         /\ Cmd.do = "route" => Cmd.cage \in Id /\ Cmd.h \in Handler
         /\ Cmd.do = "build" => Cmd.n \in Lengths /\ Cmd.mode \in Modes
         /\ Cmd.do = "measure" => Cmd.target \in Id /\ Cmd.form \in {"wide", "narrow"}
<1>1. Cmd \in Command
  BY DEF Scripted, Cmd
<1> QED BY <1>1, Ids, ClientOK DEF Command

\* A filter that is verified is a policy.
LEMMA VerifiedPolicy ==
  ASSUME NEW p \in PlainPolicy \cup FilterPolicy, Verified(p)
  PROVE  p \in Policies
<1>1. CASE p \in PlainPolicy
  BY <1>1, ClientOK DEF PlainPolicy, Policy
<1>2. CASE p \in FilterPolicy
  <2>1. p.kind = "bpf" /\ p.prog \in [name : Names, nargs : Nat] /\ p.prog.nargs <= NArgs
    BY <1>2 DEF FilterPolicy, Verified
  <2>2. p.prog \in Program
    BY <2>1, ConstantsOK DEF Program, Names
  <2>3. p \in Policy /\ p.prog # NoProgram
    BY <1>2, <2>1, <2>2, ConstantsOK DEF FilterPolicy, Policy, Kind
  <2> QED BY <2>1, <2>3, ClientOK
<1> QED BY <1>1, <1>2

\* A call of the harness is a call of a cage.
LEMMA CallTyped ==
  ASSUME NEW t \in Thread, NEW x \in Id
  PROVE  CallOf(t, x) \in Requests
<1> DEFINE c == IF t = Main THEN Self ELSE Worker(t)
<1> DEFINE y == IF t = Main THEN x ELSE c
<1>1. c \in Cage /\ y \in Id
  BY Ids
<1> HIDE DEF c
<1>2. [i \in 1 .. NArgs |-> y] \in Args
  BY <1>1 DEF Args
<1> HIDE DEF y
<1>3. CallOf(t, x) = [self |-> c, target |-> y, args |-> [i \in 1 .. NArgs |-> y]]
  BY DEF CallOf, c, y
<1> QED BY <1>1, <1>2, <1>3, ClientOK DEF Request

\* What main does is always something Dispatch has an operation for.
LEMMA StepClient == Scripted /\ [HarnessNext]_<<vars, hvars>> => [Next]_vars
<1> SUFFICES ASSUME Scripted, [HarnessNext]_<<vars, hvars>> PROVE [Next]_vars
  OBVIOUS
<1>1. CASE UNCHANGED <<vars, hvars>> \/ Begin \/ SetCurrent \/ Measured \/ Panic
  BY <1>1 DEF Begin, SetCurrent, Measured, Panic
<1>2. CASE ApplyPolicy
  <2>1. Cmd.p \in Policies /\ SetPolicy(Main, Cmd.p)
    BY <1>2, CommandFields, VerifiedPolicy DEF ApplyPolicy, Doing
  <2> QED BY <2>1, HarnessOK DEF Next, Configure
<1>3. CASE Arrange
  <2>1. CASE Doing("ncheck") /\ SetNcheck(Cmd.n)
    BY <2>1, CommandFields DEF Doing, Next, Configure
  <2>2. CASE Doing("route") /\ HasRow(Cmd.cage) /\ Register(Cmd.cage, Cmd.h)
    <3>1. <<Cmd.cage, Cmd.h>> \in Offers
      BY <2>2, CommandFields, ClientOK DEF Doing
    <3>2. \E o \in Offers : Register(o[1], o[2])
      BY <2>2, <3>1
    <3> QED BY <3>2 DEF Next, Configure
  <2>3. CASE Doing("build") /\ BuildChain(Main, Cmd.mode, Cmd.n)
    BY <2>3, CommandFields, HarnessOK DEF Doing, Next
  <2>4. CASE Doing("teardown") /\ Teardown(Main)
    BY <2>4, HarnessOK DEF Next
  <2> QED BY <1>3, <2>1, <2>2, <2>3, <2>4 DEF Arrange
<1>4. ASSUME NEW t \in Thread, Issue(t) PROVE Next
  <2>1. todo # <<>> /\ Cmd.do = "measure"
    BY <1>4 DEF Issue, Doing
  <2>2. CASE Cmd.form = "wide" /\ Call(t, CallOf(t, Cmd.target))
    BY <2>1, <2>2, CommandFields, CallTyped DEF Next
  <2>3. CASE Cmd.form = "narrow" /\ CallNarrow(t, current)
    <3>1. ~(Head(todo) = Enact(Self))
      BY <2>1 DEF Cmd, Enact
    <3>2. todo \notin Seq(WideCommand)
      BY <2>1, <2>3 DEF Cmd, WideCommand
    <3>3. current = Self
      BY <3>1, <3>2 DEF Scripted, Enacted
    <3> QED BY <2>3, <3>3, Ids, ClientOK DEF Next
  <2> QED BY <1>4, <2>2, <2>3 DEF Issue
<1>5. ASSUME NEW t \in Thread, InSyscall(t) PROVE Next
  BY <1>5 DEF InSyscall, Next
<1> QED BY <1>1, <1>2, <1>3, <1>4, <1>5 DEF HarnessNext

THEOREM ScriptTheorem == HarnessSpec => []Scripted
  BY InitScripted, NextScripted, PTL DEF HarnessSpec

\* Every run of the benchmark is a behaviour of Dispatch, whatever the command
\* line and whichever scenarios it leaves out.
THEOREM ClientTheorem == HarnessSpec => Spec
<1>1. HarnessInit => Init
  BY DEF HarnessInit
<1> QED BY <1>1, StepClient, ScriptTheorem, PTL DEF HarnessSpec, Spec

\* So main never leaves the cages, chains and policies there are.
THEOREM HarnessTypes == HarnessSpec => []HarnessTypeOK
<1>1. Scripted /\ TypeOK => HarnessTypeOK
  BY Ids DEF Scripted, HarnessTypeOK
<1> QED BY <1>1, ScriptTheorem, ClientTheorem, TypeCorrect, PTL

-----------------------------------------------------------------------------
(* What the script leaves behind                                           *)

\* Section B imposes a policy, and knows what it answers main about x.
Imposed(a) == PlainPolicy \cup [kind : {"bpf"}, prog : [name : Names, nargs : {0, a.ncheck}]]

Says(p, x, says) ==
  /\ says \in {"ok", "EACCES_hook"}
  /\ Verified(p) => \A n \in 0 .. NArgs :
       Permits(p.kind, p.prog, n, CallOf(Main, x)) <=> says = "ok"

Hooked(a) == {sc \in Scenario : \E p \in Imposed(a), x \in {Self, Desc}, says \in Ret :
                                  Says(p, x, says) /\ sc = HookRun(p, x, says)}

\* Section C stacks grates, the first of which answers by its handler.
Heights(a) == {1} \cup {a.grates[i] : i \in DOMAIN a.grates}
Told(f)    == IF f = "deny" THEN "EACCES_grate" ELSE "ok"
Stacked(a) == {sc \in Scenario : \E n \in Heights(a), m \in {PerCall, Cached}, f \in Fptr :
                                   sc = Stack(n, m, f, Told(f))}

\* The others find no policy and no chain.
Mend      == Always(<<Route(Self, Raw)>>)
EnactRun  == Always(<<Enact(Self), Route(Self, Raw)>>)
NarrowRun == Keep(<<Measure({Main}, "narrow", Self, Bare(NoPolicy), "ok")>>)
WideRun   == Keep(<<Wide(Self, Bare(NoPolicy), "ok")>>)
Plain(a)  == {Mend, EnactRun, NarrowRun, WideRun}
             \cup {Contention(a.threads[i]) : i \in DOMAIN a.threads}

\* The plan from section B on, from C on, and from D on.
Before(S, x, plans) == UNION {{s \o (<<x>> \o p) : s \in Seq(S)} : p \in plans}
PlansD(a) == Seq(Plain(a))
PlansC(a) == Before(Stacked(a), Mend, PlansD(a))
PlansB(a) == Before(Hooked(a), NoPolicyAgain, PlansC(a))

\* All but the first k commands.
Rest(cmds, k) == SubSeq(cmds, k + 1, Len(cmds))

Chainless(T) == \A t \in T : chain[t] = NoChain /\ slots[t] = {}
Ungrated(C)  == \A c \in C : routes[c].kind # "grate"

\* Before section B.
Starting ==
  /\ plan = Script(args) /\ todo = <<>>
  /\ policyKind = "none" /\ Chainless(Thread) /\ Ungrated(Cage)

\* In section B.
Judging ==
  \E p \in Imposed(args), x \in {Self, Desc}, says \in Ret :
    /\ Says(p, x, says)
    /\ \/ todo = <<Impose(p), Wide(x, Bare(p), says)>>
       \/ todo = <<Wide(x, Bare(p), says)>> /\ Verified(p) /\ CurrentPolicy = p

Imposing ==
  /\ plan \in PlansB(args)
  /\ Chainless(Thread) /\ Ungrated(Cage)
  /\ \/ todo = <<Ncheck(args.ncheck), Route(Self, Raw)>>
     \/ todo = <<Route(Self, Raw)>>
     \/ routes[Self] = Raw /\ (todo = <<>> \/ Judging)

\* In section C: k commands of a scenario are done.
Laid(n, m, f, k) ==
  /\ chain[Main] = IF k = 0 THEN NoChain ELSE m
  /\ slots[Main] = IF k = 0 THEN {} ELSE ChainOf(n)
  /\ k > 1 => routes[Self] = ToGrate(GrateBase, f)
  /\ \A i \in 1 .. n : k > i + 1 => routes[GrateBase + i - 1] = NextHop(n, i - 1)

Laying ==
  \E n \in Heights(args), m \in {PerCall, Cached}, f \in Fptr : \E k \in 0 .. n + 3 :
    todo = Rest(Stack(n, m, f, Told(f)).cmds, k) /\ Laid(n, m, f, k)

Stacking ==
  /\ plan \in PlansC(args)
  /\ Ungrated(Cage \ {Self}) /\ Chainless(Thread \ {Main})
  /\ \/ todo = <<Impose(NoPolicy)>> /\ Chainless({Main})
     \/ policyKind = "none" /\ todo = <<>> /\ Chainless({Main})
     \/ policyKind = "none" /\ Laying

\* In sections D and F.
Spreading ==
  \E i \in DOMAIN args.threads : \E k \in 0 .. args.threads[i] :
    /\ todo = Rest(Contention(args.threads[i]).cmds, k)
    /\ \A j \in 1 .. k : routes[Worker(j)] = Raw

Finishing ==
  /\ plan \in PlansD(args)
  /\ policyKind = "none" /\ Chainless(Thread) /\ Ungrated(Cage \ {Self})
  /\ \/ todo \in {<<Route(Self, Raw)>>, <<Enact(Self), Route(Self, Raw)>>}
     \/ routes[Self] = Raw /\ (todo \in {<<>>, NarrowRun.cmds, WideRun.cmds} \/ Spreading)

Installs  == installing[Main] # NoProgram => bpfProg = installing[Main]
Following == Installs /\ (Starting \/ Imposing \/ Stacking \/ Finishing)

-----------------------------------------------------------------------------
(* What a measurement finds                                                *)

Measuring == todo # <<>> /\ Cmd.do = "measure"

CallerAt(t, i) == IF i > 1 THEN GrateBase + i - 2 ELSE IF t = Main THEN Self ELSE Worker(t)

\* The leaf is next, and the hook answers main as the label says.
Direct ==
  /\ \A t \in Cmd.threads : routes[CallerAt(t, 1)] = Raw
  /\ Chainless(Thread) /\ Ungrated(Cage)
  /\ Cmd.under = Bare(CurrentPolicy)
  /\ IF policyKind = "none"
       THEN Cmd.says = "ok"
       ELSE /\ Cmd.threads = {Main} /\ Cmd.form = "wide"
            /\ Cmd.says \in {"ok", "EACCES_hook"}
            /\ \A n \in 0 .. NArgs :
                 Permits(policyKind, bpfProg, n, CallOf(Main, Cmd.target)) <=> Cmd.says = "ok"

\* A chain is next, and nothing else.
Chained ==
  /\ Cmd.threads = {Main} /\ Cmd.form = "wide" /\ Cmd.target = Self /\ policyKind = "none"
  /\ Ungrated(Cage \ {Self}) /\ Chainless(Thread \ {Main})
  /\ \E n \in Heights(args), m \in {PerCall, Cached}, f \in Fptr :
       /\ Cmd.under = Behind(m, n, f) /\ Cmd.says = Told(f)
       /\ chain[Main] = m /\ slots[Main] = ChainOf(n) /\ routes[Self] = ToGrate(GrateBase, f)
       /\ \A i \in 1 .. n : routes[GrateBase + i - 1] = NextHop(n, i - 1)

Ready == /\ \/ Cmd.threads = {Main}
            \/ Cmd.form = "wide" /\ \E i \in DOMAIN args.threads : Cmd.threads = 1 .. args.threads[i]
         /\ Direct \/ Chained

\* f is the i-th frame of t, so far.
Fits(t, i, f) ==
  /\ f.self = CallerAt(t, i)
  /\ Cmd.form = "wide" => /\ f.args = CallOf(t, Cmd.target).args
                          /\ i = 1 => f.target = CallOf(t, Cmd.target).target
  /\ i > 1 => Cmd.says = "ok" /\ f.self \in slots[t] /\ Chained
  /\ f.pc \in {"ncheck", "judge"} => f.kind = policyKind /\ policyKind # "none"
  /\ f.pc = "judge" => f.n <= NArgs
  /\ f.pc \in {"lookup", "dispatch", "grate"} => Cmd.says # "EACCES_hook"
  /\ f.pc \in {"dispatch", "grate"} => f.h = routes[f.self]
  /\ f.pc = "return" => f.ret = Cmd.says

Serving ==
  \A t \in Thread :
    /\ stack[t] # <<>> \/ made[t] > 0 => Measuring /\ t \in Cmd.threads
    /\ \A i \in 1 .. Len(stack[t]) : Fits(t, i, stack[t][i])
    /\ stack[t] = <<>> /\ made[t] > 0 => answer[t] = Cmd.says

\* What a sensible command line keeps.
Behaving == Sensible(args) => ncheck <= NArgs /\ orderly /\ ~panicked

Conduct == Following /\ Serving /\ Behaving

-----------------------------------------------------------------------------
(* The plan from section B on                                              *)

\* The head and the tail of a concatenation.
LEMMA TailConcat ==
  ASSUME NEW U, NEW s \in Seq(U), NEW q \in Seq(U), s # <<>>
  PROVE  Head(s \o q) = Head(s) /\ Tail(s \o q) = Tail(s) \o q
<1> DEFINE p == s \o q
<1>1. /\ p \in Seq(U) /\ Len(p) = Len(s) + Len(q)
      /\ \A i \in 1 .. Len(s) + Len(q) : p[i] = IF i <= Len(s) THEN s[i] ELSE q[i - Len(s)]
  BY ConcatProperties
<1>2. Len(s) \in Nat \ {0} /\ Len(q) \in Nat
  OBVIOUS
<1>3. p # <<>> /\ Head(p) = p[1] /\ Head(s) = s[1]
  BY <1>1, <1>2
<1>4. /\ Tail(s) \in Seq(U) /\ Len(Tail(s)) = Len(s) - 1
      /\ \A i \in 1 .. Len(s) - 1 : Tail(s)[i] = s[i + 1]
  BY <1>2
<1>5. /\ Tail(p) \in Seq(U) /\ Len(Tail(p)) = Len(p) - 1
      /\ \A i \in 1 .. Len(p) - 1 : Tail(p)[i] = p[i + 1]
  BY <1>1, <1>2, <1>3
<1> DEFINE r == Tail(s) \o q
<1>6. /\ r \in Seq(U) /\ Len(r) = Len(s) - 1 + Len(q)
      /\ \A i \in 1 .. Len(s) - 1 + Len(q) :
           r[i] = IF i <= Len(s) - 1 THEN Tail(s)[i] ELSE q[i - (Len(s) - 1)]
  BY <1>4, ConcatProperties
<1>7. ASSUME NEW i \in 1 .. Len(p) - 1 PROVE Tail(p)[i] = r[i]
  <2>1. i + 1 - Len(s) = i - (Len(s) - 1) /\ i + 1 \in 1 .. Len(s) + Len(q)
    BY <1>1, <1>2
  <2>2. CASE i <= Len(s) - 1
    BY <1>1, <1>2, <1>4, <1>5, <1>6, <2>1, <2>2
  <2>3. CASE ~(i <= Len(s) - 1)
    BY <1>1, <1>2, <1>5, <1>6, <2>1, <2>3
  <2> QED BY <2>2, <2>3
<1> HIDE DEF p, r
<1>8. Tail(p) = r
  BY <1>1, <1>2, <1>5, <1>6, <1>7
<1> QED BY <1>1, <1>2, <1>3, <1>8 DEF p, r

LEMMA BeforeIntro ==
  ASSUME NEW S, NEW x, NEW plans, NEW s \in Seq(S), NEW q \in plans
  PROVE  s \o (<<x>> \o q) \in Before(S, x, plans)
<1> DEFINE heads(p) == {z \o (<<x>> \o p) : z \in Seq(S)}
<1>1. s \o (<<x>> \o q) \in heads(q)
  OBVIOUS
<1> HIDE DEF heads
<1>2. s \o (<<x>> \o q) \in UNION {heads(p) : p \in plans}
  BY <1>1
<1> QED BY <1>2 DEF Before, heads

\* The next scenario of a plan is the last of the section, or one before it.
LEMMA BeforeStep ==
  ASSUME NEW U, NEW S \in SUBSET U, NEW x \in U, NEW plans \in SUBSET Seq(U),
         NEW p \in Before(S, x, plans)
  PROVE  /\ p \in Seq(U) /\ p # <<>>
         /\ \/ Head(p) = x /\ Tail(p) \in plans
            \/ Head(p) \in S /\ Tail(p) \in Before(S, x, plans)
<1>1. PICK s \in Seq(S), q \in plans : p = s \o (<<x>> \o q)
  BY DEF Before
<1>2. s \in Seq(U) /\ q \in Seq(U) /\ <<x>> \in Seq(U)
  BY SeqDef
<1> DEFINE r == <<x>> \o q
<1>3. r \in Seq(U) /\ Len(r) = 1 + Len(q) /\ r # <<>>
  BY <1>2, ConcatProperties
<1>4. Head(r) = x /\ Tail(r) = q
  <2>1. Head(r) = Head(<<x>>) /\ Tail(r) = Tail(<<x>>) \o q
    BY <1>2, TailConcat
  <2>2. Head(<<x>>) = x /\ Tail(<<x>>) = <<>>
    OBVIOUS
  <2> QED BY <1>2, <2>1, <2>2, ConcatEmptySeq
<1> HIDE DEF r
<1>5. CASE s = <<>>
  <2>1. p = r
    BY <1>1, <1>3, <1>5, ConcatEmptySeq DEF r
  <2> QED BY <1>3, <1>4, <2>1
<1>6. CASE s # <<>>
  <2>1. Head(p) = Head(s) /\ Tail(p) = Tail(s) \o r
    BY <1>1, <1>2, <1>3, <1>6, TailConcat DEF r
  <2>2. Head(s) \in S /\ Tail(s) \in Seq(S)
    BY <1>6
  <2>3. Tail(p) \in Before(S, x, plans)
    BY <2>1, <2>2, BeforeIntro DEF r
  <2>4. p \in Seq(U) /\ Len(p) = Len(s) + Len(r)
    BY <1>1, <1>2, <1>3, ConcatProperties DEF r
  <2>5. p # <<>>
    BY <1>2, <1>6, <1>3, <2>4
  <2> QED BY <2>1, <2>2, <2>3, <2>4, <2>5
<1> QED BY <1>5, <1>6

\* A section and the plan after it.
LEMMA BeforeJoin ==
  ASSUME NEW U, NEW S \in SUBSET U, NEW plans \in SUBSET Seq(U), NEW q \in plans,
         NEW p \in Seq(U), Len(p) > 0, \A i \in 1 .. Len(p) - 1 : p[i] \in S
  PROVE  p \o q \in Before(S, p[Len(p)], plans)
<1> DEFINE n == Len(p)
<1> DEFINE s == SubSeq(p, 1, n - 1)
<1>1. n \in Nat /\ n \in 1 .. n /\ 1 \in 1 .. n /\ n - 1 \in Int
  OBVIOUS
<1>2. s \in Seq(S)
  BY <1>1, SubSeqProperties
<1>3. p = s \o <<p[n]>>
  <2>1. SubSeq(p, 1, n) = SubSeq(p, 1, n - 1) \o <<p[n]>>
    BY <1>1, SubSeqRecursiveSecond
  <2>2. SubSeq(p, 1, n) = p
    BY SubSeqFull
  <2> QED BY <2>1, <2>2
<1>4. s \in Seq(U) /\ <<p[n]>> \in Seq(U) /\ q \in Seq(U)
  BY <1>1, <1>2, SeqDef
<1> HIDE DEF s, n
<1>5. (s \o <<p[n]>>) \o q = s \o (<<p[n]>> \o q)
  BY <1>4, ConcatAssociative
<1>6. p \o q = s \o (<<p[n]>> \o q)
  BY <1>3, <1>5
<1> QED BY <1>2, <1>6, BeforeIntro DEF n

-----------------------------------------------------------------------------
(* The script by its sections                                              *)

\* All ids of a call by the main thread are one cage, of its subtree and granted.
LEMMA MainCall ==
  ASSUME NEW x \in {Self, Desc}
  PROVE  /\ CallOf(Main, x).self = Self /\ CallOf(Main, x).target = x
         /\ CallOf(Main, x).args = [i \in 1 .. NArgs |-> x]
         /\ \A n \in 0 .. NArgs : Checked(n, CallOf(Main, x)) = {x}
         /\ x \in Subtree[Self] /\ x \in Granted[Self]
<1> DEFINE r == CallOf(Main, x)
<1>1. r = [self |-> Self, target |-> x, args |-> [i \in 1 .. NArgs |-> x]]
  BY DEF CallOf
<1>2. r.self = Self /\ r.target = x /\ r.args = [i \in 1 .. NArgs |-> x]
  BY <1>1
<1> HIDE DEF r
<1>3. ASSUME NEW n \in 0 .. NArgs PROVE Checked(n, r) = {x}
  <2>1. \A i \in 1 .. n : r.args[i] = x
    BY <1>2, ConstantsOK
  <2> QED BY <1>2, <2>1 DEF Checked
<1>4. x \in Descent /\ x \in Self .. Desc /\ Self \in Descent /\ Self \in Id
  BY HarnessOK, Ids DEF Descent, Desc
<1>5. Subtree[Self] = Self .. Desc
  BY <1>4, HarnessOK
<1>6. Granted[Self] = Descent
  BY <1>4, HarnessOK
<1> QED BY <1>2, <1>3, <1>4, <1>5, <1>6 DEF r

\* So every policy of section B but deny_all passes them.
LEMMA PlainSays ==
  ASSUME NEW k \in Kind \ {"bpf"}, NEW x \in {Self, Desc}
  PROVE  Says(Only(k), x, "ok")
<1>1. ASSUME NEW n \in 0 .. NArgs PROVE Permits(k, NoProgram, n, CallOf(Main, x))
  BY <1>1, MainCall DEF Permits, Kind, GrantsKind
<1> QED BY <1>1 DEF Says, Only

LEMMA FilterSays ==
  ASSUME NEW name \in Names, NEW m \in Nat, NEW x \in {Self, Desc},
         NEW says, says = IF name = "deny_all" THEN "EACCES_hook" ELSE "ok"
  PROVE  Says(Filter(name, m), x, says)
<1> DEFINE prog == [name |-> name, nargs |-> m]
<1> DEFINE p == [kind |-> "bpf", prog |-> prog]
<1>1. prog.name = name /\ prog.nargs = m
  OBVIOUS
<1>2. p.kind = "bpf" /\ p.prog = prog
  OBVIOUS
<1> HIDE DEF p, prog
<1>3. ASSUME Verified(p), NEW n \in 0 .. NArgs
      PROVE  Permits(p.kind, p.prog, n, CallOf(Main, x)) <=> says = "ok"
  <2>1. m \in 0 .. NArgs
    BY <1>1, <1>2, <1>3, ConstantsOK DEF Verified
  <2>2. Checked(m, CallOf(Main, x)) \subseteq Subtree[CallOf(Main, x).self]
    BY <2>1, MainCall
  <2>3. Permits(p.kind, p.prog, n, CallOf(Main, x)) <=> Accepts(prog, CallOf(Main, x))
    BY <1>2 DEF Permits, GrantsKind
  <2> QED BY <1>1, <2>2, <2>3 DEF Accepts, Names
<1>4. says \in {"ok", "EACCES_hook"}
  OBVIOUS
<1> QED BY <1>3, <1>4 DEF Says, Filter, p, prog

LEMMA SectionBHooked ==
  ASSUME NEW arg \in Arguments
  PROVE  /\ SectionB(arg) \in Seq(Scenario) /\ Len(SectionB(arg)) = 13
         /\ SectionB(arg)[13] = NoPolicyAgain
         /\ \A i \in 1 .. 12 : SectionB(arg)[i] \in Hooked(arg)
<1>1. SectionB(arg) \in Seq(Scenario)
  BY SectionBTyped, Scenarios, SeqDef
<1>2. ASSUME NEW k \in Kind \ {"bpf"}, NEW x \in {Self, Desc}
      PROVE  HookRun(Only(k), x, "ok") \in Scenario => HookRun(Only(k), x, "ok") \in Hooked(arg)
  <2>1. Only(k) \in Imposed(arg)
    BY Settings DEF Imposed
  <2>2. Says(Only(k), x, "ok") /\ "ok" \in Ret
    BY PlainSays DEF Ret
  <2> QED BY <2>1, <2>2 DEF Hooked
<1>3. ASSUME NEW name \in Names, NEW m \in {0, arg.ncheck}, NEW says \in Ret,
             says = IF name = "deny_all" THEN "EACCES_hook" ELSE "ok"
      PROVE  HookRun(Filter(name, m), Desc, says) \in Scenario
               => HookRun(Filter(name, m), Desc, says) \in Hooked(arg)
  <2>1. Filter(name, m) \in Imposed(arg)
    BY DEF Filter, Imposed
  <2>2. m \in Nat
    BY HarnessOK DEF Argument
  <2>3. Says(Filter(name, m), Desc, says)
    BY <1>3, <2>2, FilterSays
  <2> QED BY <2>1, <2>3 DEF Hooked
<1> DEFINE b == SectionB(arg)
<1>4. /\ Len(b) = 13 /\ b[13] = NoPolicyAgain
      /\ b[1] = HookRun(Only("none"), Self, "ok")
      /\ b[2] = HookRun(Only("subtree_walk"), Self, "ok")
      /\ b[3] = HookRun(Only("subtree_walk"), Desc, "ok")
      /\ b[4] = HookRun(Only("subtree_bits"), Self, "ok")
      /\ b[5] = HookRun(Only("subtree_bits"), Desc, "ok")
      /\ b[6] = HookRun(Only("grants_hash"), Desc, "ok")
      /\ b[7] = HookRun(Only("grants_bits"), Desc, "ok")
      /\ b[8] = HookRun(Filter("allow_all", 0), Desc, "ok")
      /\ b[9] = HookRun(Filter("deny_all", 0), Desc, "EACCES_hook")
      /\ b[10] = HookRun(Filter("allowlist", 0), Desc, "ok")
      /\ b[11] = HookRun(Filter("allowlist", 0), Desc, "ok")
      /\ b[12] = HookRun(Filter("subtree_check", arg.ncheck), Desc, "ok")
  BY DEF SectionB, NoPolicy
<1> HIDE DEF b
<1>5. \A i \in 1 .. 12 : b[i] \in Scenario
  <2>1. b \in Seq(Scenario)
    BY <1>1 DEF b
  <2>2. \A i \in 1 .. 12 : i \in 1 .. Len(b)
    BY <1>4
  <2> QED BY <2>1, <2>2, ElementOfSeq
<1>6. /\ b[1] \in Hooked(arg) /\ b[2] \in Hooked(arg) /\ b[3] \in Hooked(arg)
      /\ b[4] \in Hooked(arg) /\ b[5] \in Hooked(arg)
      /\ b[6] \in Hooked(arg) /\ b[7] \in Hooked(arg)
  BY <1>2, <1>4, <1>5 DEF Kind, GrantsKind
<1>7. /\ b[8] \in Hooked(arg) /\ b[9] \in Hooked(arg) /\ b[10] \in Hooked(arg)
      /\ b[11] \in Hooked(arg) /\ b[12] \in Hooked(arg)
  BY <1>3, <1>4, <1>5 DEF Names, Ret
<1>8. \A i \in 1 .. 12 : i \in {1, 2, 3, 4, 5, 6, 7, 8, 9, 10, 11, 12}
  OBVIOUS
<1> QED BY <1>1, <1>4, <1>6, <1>7, <1>8 DEF b

LEMMA SectionCStacked ==
  ASSUME NEW arg \in Arguments
  PROVE  /\ SectionC(arg) \in Seq(Scenario) /\ Len(SectionC(arg)) > 0
         /\ SectionC(arg)[Len(SectionC(arg))] = Mend
         /\ \A i \in 1 .. Len(SectionC(arg)) - 1 : SectionC(arg)[i] \in Stacked(arg)
<1> DEFINE run(i) == Stack(arg.grates[(i + 1) \div 2], IF i % 2 = 1 THEN PerCall ELSE Cached,
                           "forward", "ok")
<1> DEFINE runs == [i \in 1 .. 2 * Len(arg.grates) |-> run(i)]
<1> DEFINE rest == <<Stack(1, PerCall, "deny", "EACCES_grate"),
                     Stack(1, PerCall, "policy_forward", "ok"),
                     Always(<<Route(Self, Raw)>>)>>
<1>1. arg.grates \in Seq(Nat) /\ Len(arg.grates) \in Nat
      /\ \A i \in DOMAIN arg.grates : arg.grates[i] <= MaxGrates
  BY HarnessOK DEF Argument
<1>2. ASSUME NEW n \in Heights(arg), NEW m \in {PerCall, Cached}, NEW f \in Fptr, NEW r,
             r = Told(f)
      PROVE  Stack(n, m, f, r) \in Stacked(arg)
  <2>1. n \in 0 .. MaxGrates
    BY <1>1, ClientOK, ConstantsOK DEF Heights
  <2>2. r \in Ret
    BY <1>2 DEF Told, Ret
  <2>3. Stack(n, m, f, r) \in Scenario
    BY <2>1, <2>2, StackTyped, Scenarios
  <2> QED BY <1>2, <2>3 DEF Stacked
<1>3. ASSUME NEW i \in 1 .. 2 * Len(arg.grates) PROVE run(i) \in Stacked(arg)
  <2>1. (i + 1) \div 2 \in DOMAIN arg.grates
    BY <1>1
  <2>2. arg.grates[(i + 1) \div 2] \in Heights(arg)
    BY <2>1 DEF Heights
  <2>3. (IF i % 2 = 1 THEN PerCall ELSE Cached) \in {PerCall, Cached}
    OBVIOUS
  <2> QED BY <1>2, <2>2, <2>3 DEF Told, Fptr
<1>4. runs \in Seq(Stacked(arg)) /\ Len(runs) = 2 * Len(arg.grates)
  <2> HIDE DEF run
  <2>1. runs \in [1 .. 2 * Len(arg.grates) -> Stacked(arg)] /\ 2 * Len(arg.grates) \in Nat
    BY <1>1, <1>3
  <2> QED BY <2>1, SeqDef
<1>5. /\ Len(rest) = 3 /\ rest[1] \in Stacked(arg) /\ rest[2] \in Stacked(arg) /\ rest[3] = Mend
  <2>1. 1 \in Heights(arg)
    BY DEF Heights
  <2>2. /\ Stack(1, PerCall, "deny", "EACCES_grate") \in Stacked(arg)
        /\ Stack(1, PerCall, "policy_forward", "ok") \in Stacked(arg)
    BY <1>2, <2>1 DEF Told, Fptr
  <2> QED BY <2>2 DEF Mend
<1>6. Stacked(arg) \subseteq Scenario /\ Mend \in Scenario
  <2>1. <<Route(Self, Raw)>> \in Seq(WideCommand)
    <3>1. Route(Self, Raw) \in WideCommand
      BY Commands, Ids, Handlers
    <3> QED BY <3>1
  <2> QED BY <2>1, Scenarios DEF Stacked, Mend
<1>7. runs \in Seq(Scenario) /\ rest \in Seq(Scenario)
  <2>1. rest = <<rest[1], rest[2], rest[3]>>
    OBVIOUS
  <2>2. rest[1] \in Scenario /\ rest[2] \in Scenario /\ rest[3] \in Scenario
    BY <1>5, <1>6
  <2>3. rest \in Seq(Scenario)
    <3> HIDE DEF rest
    <3>1. <<rest[1], rest[2], rest[3]>> \in Seq(Scenario)
      BY <2>2
    <3> QED BY <2>1, <3>1
  <2> HIDE DEF rest, runs
  <2> QED BY <1>4, <1>6, <2>3, SeqMonotonic
<1>8. SectionC(arg) = runs \o rest
  BY DEF SectionC
<1> DEFINE c == runs \o rest
<1> HIDE DEF runs, rest
<1>9. /\ c \in Seq(Scenario) /\ Len(c) = Len(runs) + 3
      /\ \A i \in 1 .. Len(runs) + 3 : c[i] = IF i <= Len(runs) THEN runs[i] ELSE rest[i - Len(runs)]
  <2>1. /\ c \in Seq(Scenario) /\ Len(c) = Len(runs) + Len(rest)
        /\ \A i \in 1 .. Len(runs) + Len(rest) :
             c[i] = IF i <= Len(runs) THEN runs[i] ELSE rest[i - Len(runs)]
    BY <1>7, ConcatProperties
  <2> HIDE DEF c
  <2> QED BY <1>5, <2>1
<1>10. Len(runs) \in Nat
  BY <1>7
<1> HIDE DEF c
<1>11. ASSUME NEW i \in 1 .. Len(c) - 1 PROVE c[i] \in Stacked(arg)
  <2>1. CASE i <= Len(runs)
    BY <1>4, <1>9, <1>10, <2>1
  <2>2. CASE ~(i <= Len(runs))
    <3>1. i - Len(runs) \in {1, 2}
      BY <1>9, <1>10, <2>2
    <3> QED BY <1>5, <1>9, <1>10, <2>2, <3>1
  <2> QED BY <2>1, <2>2
<1>12. Len(c) > 0 /\ c[Len(c)] = rest[3]
  <2>1. Len(c) \in 1 .. Len(runs) + 3 /\ ~(Len(c) <= Len(runs)) /\ Len(c) - Len(runs) = 3
    BY <1>9, <1>10
  <2> QED BY <1>9, <2>1
<1> QED BY <1>5, <1>8, <1>9, <1>11, <1>12 DEF c

LEMMA PlainTyped ==
  ASSUME NEW arg \in Arguments
  PROVE  /\ SectionD \o SectionF(arg) \in PlansD(arg)
         /\ Plain(arg) \in SUBSET Scenario
<1>1. SectionD = <<EnactRun, NarrowRun, WideRun, Mend>>
  BY DEF SectionD, EnactRun, NarrowRun, WideRun, Mend
<1>2. SectionD \in Seq(Scenario) /\ SectionF(arg) \in Seq(Scenario)
  BY SectionDTyped, SectionFTyped, Scenarios, SeqDef
<1>3. {EnactRun, NarrowRun, WideRun, Mend} \subseteq Plain(arg)
  BY DEF Plain
<1>4. SectionD \in Seq(Plain(arg))
  <2>1. EnactRun \in Plain(arg) /\ NarrowRun \in Plain(arg) /\ WideRun \in Plain(arg) /\ Mend \in Plain(arg)
    BY <1>3
  <2> QED BY <1>1, <2>1
<1>5. arg.threads \in Seq(Nat)
  BY HarnessOK DEF Argument
<1>6. /\ SectionF(arg) \in Seq(Plain(arg))
      /\ \A i \in DOMAIN arg.threads : SectionF(arg)[i] = Contention(arg.threads[i])
      /\ DOMAIN SectionF(arg) = DOMAIN arg.threads
  <2>1. \A i \in DOMAIN arg.threads : Contention(arg.threads[i]) \in Plain(arg)
    BY DEF Plain
  <2>2. SectionF(arg) \in [1 .. Len(arg.threads) -> Plain(arg)] /\ Len(arg.threads) \in Nat
    BY <1>5, <2>1 DEF SectionF
  <2> QED BY <2>2, SeqDef DEF SectionF
<1>7. ASSUME NEW i \in DOMAIN arg.threads PROVE Contention(arg.threads[i]) \in Scenario
  <2>1. SectionF(arg)[i] \in Scenario
    BY <1>2, <1>6
  <2> QED BY <1>6, <2>1
<1>8. EnactRun \in Scenario /\ NarrowRun \in Scenario /\ WideRun \in Scenario /\ Mend \in Scenario
  <2>1. Len(SectionD) = 4 /\ SectionD[1] = EnactRun /\ SectionD[2] = NarrowRun
        /\ SectionD[3] = WideRun /\ SectionD[4] = Mend
    BY <1>1
  <2>2. 1 \in 1 .. 4 /\ 2 \in 1 .. 4 /\ 3 \in 1 .. 4 /\ 4 \in 1 .. 4
    OBVIOUS
  <2> QED BY <1>2, <2>1, <2>2, ElementOfSeq
<1> QED BY <1>4, <1>6, <1>7, <1>8, ConcatProperties DEF Plain, PlansD

\* The plans are plans, and the script is the set-up and what is planned from B on.
LEMMA PlansTyped ==
  ASSUME NEW arg \in Arguments
  PROVE  /\ Hooked(arg) \in SUBSET Scenario /\ Stacked(arg) \in SUBSET Scenario
         /\ NoPolicyAgain \in Scenario /\ Mend \in Scenario
         /\ PlansD(arg) \in SUBSET Seq(Scenario)
         /\ PlansC(arg) \in SUBSET Seq(Scenario)
         /\ PlansB(arg) \in SUBSET Seq(Scenario)
<1>1. Hooked(arg) \in SUBSET Scenario /\ Stacked(arg) \in SUBSET Scenario
  BY DEF Hooked, Stacked
<1>2. PlansD(arg) \in SUBSET Seq(Scenario) /\ Mend \in Scenario
  <2>1. Mend \in Plain(arg) /\ Plain(arg) \in SUBSET Scenario
    BY PlainTyped DEF Plain
  <2> QED BY <2>1, SeqMonotonic DEF PlansD
<1>3. NoPolicyAgain \in Scenario
  <2>1. 13 \in 1 .. Len(SectionB(arg))
    BY SectionBHooked
  <2> QED BY <2>1, SectionBHooked
<1>4. PlansC(arg) \in SUBSET Seq(Scenario)
  BY <1>1, <1>2, BeforeStep DEF PlansC
<1>5. PlansB(arg) \in SUBSET Seq(Scenario)
  BY <1>1, <1>3, <1>4, BeforeStep DEF PlansB
<1> QED BY <1>1, <1>2, <1>3, <1>4, <1>5

LEMMA ScriptPlanned ==
  ASSUME NEW arg \in Arguments
  PROVE  /\ Script(arg) # <<>> /\ Script(arg) \in Seq(Scenario)
         /\ Head(Script(arg)) = Always(<<Ncheck(arg.ncheck), Route(Self, Raw)>>)
         /\ Tail(Script(arg)) \in PlansB(arg)
<1> DEFINE s == SetUp(arg)
<1> DEFINE b == SectionB(arg)
<1> DEFINE c == SectionC(arg)
<1> DEFINE d == SectionD
<1> DEFINE f == SectionF(arg)
<1>1. s \in Seq(Scenario) /\ b \in Seq(Scenario) /\ c \in Seq(Scenario)
      /\ d \in Seq(Scenario) /\ f \in Seq(Scenario)
  BY SetUpTyped, SectionBHooked, SectionCStacked, SectionDTyped, SectionFTyped, Scenarios, SeqMonotonic
<1>2. Script(arg) = (((s \o b) \o c) \o d) \o f
  BY DEF Script
<1>3. Head(s) = Always(<<Ncheck(arg.ncheck), Route(Self, Raw)>>) /\ Tail(s) = <<>> /\ s # <<>>
  BY DEF SetUp
<1>4. d \o f \in PlansD(arg)
  BY PlainTyped
<1>5. c \o (d \o f) \in PlansC(arg)
  BY <1>4, SectionCStacked, PlansTyped, BeforeJoin DEF PlansC
<1>6. b \o (c \o (d \o f)) \in PlansB(arg)
  <2>1. Len(b) = 13 /\ Len(b) > 0 /\ Len(b) - 1 = 12
    BY SectionBHooked
  <2>2. b \o (c \o (d \o f)) \in Before(Hooked(arg), b[Len(b)], PlansC(arg))
    BY <1>1, <1>5, <2>1, SectionBHooked, PlansTyped, BeforeJoin
  <2> QED BY <2>1, <2>2, SectionBHooked DEF PlansB
<1> HIDE DEF s, b, c, d, f
<1>7. /\ d \o f \in Seq(Scenario) /\ c \o (d \o f) \in Seq(Scenario)
      /\ b \o (c \o (d \o f)) \in Seq(Scenario) /\ s \o b \in Seq(Scenario)
      /\ (s \o b) \o c \in Seq(Scenario)
  BY <1>1, ConcatProperties
<1>8. Script(arg) = s \o (b \o (c \o (d \o f)))
  <2>1. ASSUME NEW x \in Seq(Scenario), NEW y \in Seq(Scenario), NEW z \in Seq(Scenario),
               NEW xy, xy = x \o y, NEW yz, yz = y \o z
        PROVE  xy \o z = x \o yz
    BY <2>1, ConcatAssociative
  <2> DEFINE df == d \o f
  <2> DEFINE cdf == c \o df
  <2> DEFINE sb == s \o b
  <2> DEFINE sbc == sb \o c
  <2>2. df \in Seq(Scenario) /\ cdf \in Seq(Scenario) /\ sb \in Seq(Scenario) /\ sbc \in Seq(Scenario)
    BY <1>7
  <2>3. (sbc \o d) \o f = sbc \o df
    <3> HIDE DEF sbc
    <3> QED BY <1>1, <2>1, <2>2
  <2>4. sbc \o df = sb \o cdf
    <3> HIDE DEF df, sb
    <3> QED BY <1>1, <2>1, <2>2
  <2>5. sb \o cdf = s \o (b \o cdf)
    <3> HIDE DEF cdf
    <3> QED BY <1>1, <2>1, <2>2
  <2> QED BY <1>2, <2>3, <2>4, <2>5
<1> DEFINE q == b \o (c \o (d \o f))
<1> HIDE DEF q
<1>9. q \in Seq(Scenario) /\ q \in PlansB(arg) /\ Script(arg) = s \o q
  BY <1>6, <1>7, <1>8 DEF q
<1>10. Head(s \o q) = Head(s) /\ Tail(s \o q) = Tail(s) \o q
  BY <1>1, <1>3, <1>9, TailConcat
<1>11. Tail(s) \o q = q
  BY <1>3, <1>9, ConcatEmptySeq
<1>12. s \o q \in Seq(Scenario) /\ s \o q # <<>>
  BY <1>1, <1>3, <1>9, ConcatProperties
<1> QED BY <1>3, <1>9, <1>10, <1>11, <1>12

-----------------------------------------------------------------------------
(* Main as it follows the script                                           *)

\* What is left of a sequence of commands.
LEMMA RestStep ==
  ASSUME NEW U, NEW cmds \in Seq(U)
  PROVE  /\ Rest(cmds, 0) = cmds
         /\ Rest(cmds, Len(cmds)) = <<>>
         /\ \A k \in 0 .. Len(cmds) - 1 :
              /\ Rest(cmds, k) # <<>> /\ Head(Rest(cmds, k)) = cmds[k + 1]
              /\ Tail(Rest(cmds, k)) = Rest(cmds, k + 1)
<1>1. Len(cmds) \in Nat
  OBVIOUS
<1>2. Rest(cmds, 0) = cmds
  BY SubSeqFull DEF Rest
<1>3. Rest(cmds, Len(cmds)) = <<>>
  BY <1>1, SubSeqEmpty DEF Rest
<1>4. ASSUME NEW k \in 0 .. Len(cmds) - 1
      PROVE  /\ Rest(cmds, k) # <<>> /\ Head(Rest(cmds, k)) = cmds[k + 1]
             /\ Tail(Rest(cmds, k)) = Rest(cmds, k + 1)
  <2>1. k + 1 \in 1 .. Len(cmds) /\ Len(cmds) \in k + 1 .. Len(cmds) /\ k + 1 + 1 = k + 2
    BY <1>1
  <2>2. /\ Head(SubSeq(cmds, k + 1, Len(cmds))) = cmds[k + 1]
        /\ Tail(SubSeq(cmds, k + 1, Len(cmds))) = SubSeq(cmds, k + 1 + 1, Len(cmds))
    BY <2>1, HeadTailOfSubSeq
  <2>3. Len(SubSeq(cmds, k + 1, Len(cmds))) > 0
    <3>1. \A i \in k + 1 .. Len(cmds) : cmds[i] \in U
      <4>1. \A i \in k + 1 .. Len(cmds) : i \in 1 .. Len(cmds)
        BY <1>1
      <4> QED BY <4>1, ElementOfSeq
    <3>2. k + 1 \in Int /\ Len(cmds) \in Int
      BY <1>1
    <3>3. Len(SubSeq(cmds, k + 1, Len(cmds))) =
            IF k + 1 <= Len(cmds) THEN Len(cmds) - (k + 1) + 1 ELSE 0
      BY <3>1, <3>2, SubSeqProperties
    <3> QED BY <1>1, <3>3
  <2>4. SubSeq(cmds, k + 1, Len(cmds)) # <<>>
    BY <2>3
  <2> QED BY <2>2, <2>4 DEF Rest
<1> QED BY <1>2, <1>3, <1>4

\* The commands of a scenario with grates, one by one.
LEMMA StackCmds ==
  ASSUME NEW n \in 0 .. MaxGrates, NEW m \in {PerCall, Cached}, NEW f \in Fptr, NEW r \in Ret,
         NEW c, c = Stack(n, m, f, r).cmds
  PROVE  /\ c \in Seq(Command) /\ Len(c) = n + 4 /\ Stack(n, m, f, r).optional
         /\ c[1] = Build(n, m) /\ c[2] = Route(Self, ToGrate(GrateBase, f))
         /\ \A i \in 1 .. n : c[i + 2] = Route(GrateBase + i - 1, NextHop(n, i - 1))
         /\ c[n + 3] = Wide(Self, Behind(m, n, f), r) /\ c[n + 4] = Unbuild
<1> DEFINE routed == [k \in 1 .. n |-> Route(GrateBase + k - 1, NextHop(n, k - 1))]
<1> DEFINE before == <<Build(n, m), Route(Self, ToGrate(GrateBase, f))>>
<1> DEFINE after == <<Wide(Self, Behind(m, n, f), r), Unbuild>>
<1>1. n \in Nat
  BY ConstantsOK
<1>2. Stack(n, m, f, r) = [optional |-> TRUE, cmds |-> before \o routed \o after]
  BY DEF Stack, Keep
<1>3. c = (before \o routed) \o after /\ Stack(n, m, f, r).optional
  BY <1>2
<1>4. c \in Seq(Command)
  <2>1. Stack(n, m, f, r) \in Scenario
    BY StackTyped, Scenarios
  <2> QED BY <2>1 DEF Scenario
<1> DEFINE U == {before[1], before[2], after[1], after[2]} \cup {routed[k] : k \in 1 .. n}
<1>5. before \in Seq(U) /\ routed \in Seq(U) /\ after \in Seq(U)
  <2>1. before = <<before[1], before[2]>> /\ after = <<after[1], after[2]>>
    OBVIOUS
  <2>2. routed \in [1 .. n -> U]
    OBVIOUS
  <2>3. routed \in Seq(U)
    BY <1>1, <2>2, SeqDef
  <2>4. before[1] \in U /\ before[2] \in U /\ after[1] \in U /\ after[2] \in U
    OBVIOUS
  <2>5. <<before[1], before[2]>> \in Seq(U) /\ <<after[1], after[2]>> \in Seq(U)
    <3> HIDE DEF before, after, U
    <3> QED BY <2>4
  <2> QED BY <2>1, <2>3, <2>5
<1>6. /\ Len(before) = 2 /\ before[1] = Build(n, m) /\ before[2] = Route(Self, ToGrate(GrateBase, f))
      /\ Len(routed) = n /\ \A k \in 1 .. n : routed[k] = Route(GrateBase + k - 1, NextHop(n, k - 1))
      /\ Len(after) = 2 /\ after[1] = Wide(Self, Behind(m, n, f), r) /\ after[2] = Unbuild
  BY <1>1
<1> HIDE DEF before, routed, after, U
<1> DEFINE d == before \o routed
<1>7. /\ d \in Seq(U) /\ Len(d) = 2 + n
      /\ \A i \in 1 .. 2 + n : d[i] = IF i <= 2 THEN before[i] ELSE routed[i - 2]
  <2>1. /\ d \in Seq(U) /\ Len(d) = Len(before) + Len(routed)
        /\ \A i \in 1 .. Len(before) + Len(routed) :
             d[i] = IF i <= Len(before) THEN before[i] ELSE routed[i - Len(before)]
    BY <1>5, ConcatProperties
  <2> HIDE DEF d
  <2> QED BY <1>6, <2>1
<1> HIDE DEF d
<1>8. /\ Len(c) = n + 4
      /\ \A i \in 1 .. n + 4 : c[i] = IF i <= 2 + n THEN d[i] ELSE after[i - (2 + n)]
  <2>1. /\ Len(d \o after) = Len(d) + Len(after)
        /\ \A i \in 1 .. Len(d) + Len(after) :
             (d \o after)[i] = IF i <= Len(d) THEN d[i] ELSE after[i - Len(d)]
    BY <1>5, <1>7, ConcatProperties
  <2>2. c = d \o after
    BY <1>3 DEF d
  <2>3. Len(d) + Len(after) = n + 4
    BY <1>1, <1>6, <1>7
  <2> QED BY <1>7, <2>1, <2>2, <2>3
<1>9. c[1] = before[1] /\ c[2] = before[2]
  BY <1>1, <1>7, <1>8
<1>10. ASSUME NEW i \in 1 .. n PROVE c[i + 2] = routed[i]
  <2>1. i + 2 \in 1 .. n + 4 /\ i + 2 \in 1 .. 2 + n /\ ~(i + 2 <= 2) /\ i + 2 - 2 = i
    BY <1>1
  <2> QED BY <1>1, <1>7, <1>8, <2>1
<1>11. c[n + 3] = after[1] /\ c[n + 4] = after[2]
  <2>1. /\ n + 3 \in 1 .. n + 4 /\ ~(n + 3 <= 2 + n) /\ n + 3 - (2 + n) = 1
        /\ n + 4 \in 1 .. n + 4 /\ ~(n + 4 <= 2 + n) /\ n + 4 - (2 + n) = 2
    BY <1>1
  <2>2. c[n + 3] = after[n + 3 - (2 + n)] /\ c[n + 4] = after[n + 4 - (2 + n)]
    BY <1>8, <2>1
  <2> QED BY <2>1, <2>2
<1> QED BY <1>3, <1>4, <1>6, <1>8, <1>9, <1>10, <1>11

\* The commands of a contention scenario.
LEMMA ContentionCmds ==
  ASSUME NEW n \in Nat, 1 .. n \subseteq Thread, NEW c, c = Contention(n).cmds
  PROVE  /\ c \in Seq(Command) /\ Len(c) = n + 1 /\ Contention(n).optional
         /\ \A i \in 1 .. n : c[i] = Route(Worker(i), Raw)
         /\ c[n + 1] = Measure(1 .. n, "wide", Self, Bare(NoPolicy), "ok")
<1> DEFINE routed == [k \in 1 .. n |-> Route(Worker(k), Raw)]
<1> DEFINE last == Measure(1 .. n, "wide", Self, Bare(NoPolicy), "ok")
<1>1. Contention(n) = [optional |-> TRUE, cmds |-> routed \o <<last>>]
  BY DEF Contention, Keep
<1>2. c = routed \o <<last>> /\ Contention(n).optional
  BY <1>1
<1>3. routed \in Seq(Command) /\ last \in Command
  <2>1. ASSUME NEW k \in 1 .. n PROVE Route(Worker(k), Raw) \in WideCommand
    <3>1. k \in Thread /\ k # 0
      OBVIOUS
    <3>2. Worker(k) \in Id
      BY <3>1, Ids, HarnessOK
    <3> QED BY <3>2, Commands, Handlers
  <2>2. last \in WideCommand
    BY Settings, Measurements DEF Ret
  <2>3. WideCommand \subseteq Command
    BY DEF WideCommand
  <2>4. routed \in [1 .. n -> Command]
    BY <2>1, <2>3
  <2> HIDE DEF last
  <2> QED BY <2>2, <2>3, <2>4, SeqDef
<1>4. Len(routed) = n /\ \A k \in 1 .. n : routed[k] = Route(Worker(k), Raw)
  OBVIOUS
<1> HIDE DEF routed, last
<1>5. Len(<<last>>) = 1 /\ <<last>>[1] = last /\ <<last>> \in Seq(Command)
  BY <1>3
<1>6. /\ routed \o <<last>> \in Seq(Command) /\ Len(routed \o <<last>>) = n + 1
      /\ \A i \in 1 .. n + 1 : (routed \o <<last>>)[i] = IF i <= n THEN routed[i] ELSE <<last>>[i - n]
  <2> DEFINE q == <<last>>
  <2>1. q \in Seq(Command) /\ Len(q) = 1
    BY <1>5
  <2> HIDE DEF q
  <2>2. /\ routed \o q \in Seq(Command) /\ Len(routed \o q) = Len(routed) + Len(q)
        /\ \A i \in 1 .. Len(routed) + Len(q) :
             (routed \o q)[i] = IF i <= Len(routed) THEN routed[i] ELSE q[i - Len(routed)]
    BY <1>3, <2>1, ConcatProperties
  <2>3. Len(routed) = n /\ Len(routed) + Len(q) = n + 1
    BY <1>4, <2>1
  <2> QED BY <2>2, <2>3 DEF q
<1>7. n + 1 \in 1 .. n + 1 /\ ~(n + 1 <= n) /\ n + 1 - n = 1
      /\ \A i \in 1 .. n : i \in 1 .. n + 1 /\ i <= n
  OBVIOUS
<1> QED BY <1>2, <1>4, <1>5, <1>6, <1>7 DEF last

\* One command, and two.
LEMMA FewCommands ==
  /\ \A a : <<a>> # <<>> /\ Head(<<a>>) = a /\ Tail(<<a>>) = <<>>
  /\ \A a, b : <<a, b>> # <<>> /\ Head(<<a, b>>) = a /\ Tail(<<a, b>>) = <<b>>
OBVIOUS

\* A command is done, and what that changes.
Does ==
  /\ todo # <<>> /\ plan' = plan /\ todo' = Tail(todo)
  /\ IF Cmd.do = "policy" THEN CurrentPolicy' = Cmd.p /\ Verified(Cmd.p)
                          ELSE UNCHANGED <<policyKind, bpfProg>>
  /\ routes' = IF Cmd.do = "route" THEN [routes EXCEPT ![Cmd.cage] = Cmd.h] ELSE routes
  /\ Cmd.do = "build" => /\ chain' = [chain EXCEPT ![Main] = Cmd.mode]
                         /\ slots' = [slots EXCEPT ![Main] = ChainOf(Cmd.n)]
  /\ Cmd.do = "teardown" => /\ chain' = [chain EXCEPT ![Main] = NoChain]
                            /\ slots' = [slots EXCEPT ![Main] = {}]
  /\ Cmd.do \notin {"build", "teardown"} => UNCHANGED <<chain, slots>>

\* The command goes on.
Holds ==
  /\ UNCHANGED <<plan, todo, policyKind, routes, chain, slots>>
  /\ todo = <<>> \/ Cmd.do # "policy" => bpfProg' = bpfProg

Starts == Begin /\ UNCHANGED <<policyKind, bpfProg, routes, chain, slots>>

LEMMA MainMoves ==
  ASSUME TypeOK, Scripted, Installs, [HarnessNext]_<<vars, hvars>>
  PROVE  Installs' /\ args' = args /\ (Starts \/ Holds \/ Does)
<1>1. CASE UNCHANGED <<vars, hvars>>
  BY <1>1 DEF vars, hvars, config, grates, Installs, Holds
<1>2. CASE Begin
  BY <1>2 DEF Begin, vars, config, grates, Installs, Starts
<1>3. CASE ApplyPolicy
  <2>1. /\ todo # <<>> /\ Cmd.do = "policy" /\ Verified(Cmd.p) /\ SetPolicy(Main, Cmd.p)
        /\ UNCHANGED <<args, plan>>
        /\ IF installing'[Main] = NoProgram THEN todo' = Tail(todo) ELSE UNCHANGED todo
    BY <1>3 DEF ApplyPolicy, Doing, Advance
  <2>2. /\ Cmd.p \in PlainPolicy \cup FilterPolicy /\ Cmd.p \in Policies
        /\ Main \in Installer /\ installing \in [Installer -> Program \cup {NoProgram}]
    BY <2>1, CommandFields, VerifiedPolicy, HarnessOK DEF TypeOK
  <2>3. routes' = routes /\ UNCHANGED <<chain, slots>>
    BY <2>1 DEF SetPolicy, InstallFilter, SetKind, Quiet, grates
  <2>4. CASE Cmd.p.kind = "bpf"
    <3>1. Cmd.p.prog # NoProgram /\ Cmd.p = [kind |-> "bpf", prog |-> Cmd.p.prog]
      BY <2>2, <2>4, ClientOK DEF PlainPolicy, FilterPolicy
    <3>2. InstallFilter(Main, Cmd.p)
      BY <2>1, <2>4 DEF SetPolicy
    <3>3. CASE installing[Main] = NoProgram
      <4>1. /\ bpfProg' = Cmd.p.prog /\ installing'[Main] = Cmd.p.prog /\ policyKind' = policyKind
        BY <2>2, <3>1, <3>2, <3>3 DEF InstallFilter
      <4> QED BY <2>1, <2>3, <3>1, <4>1 DEF Installs, Holds
    <3>4. CASE installing[Main] # NoProgram
      <4>1. /\ installing[Main] = Cmd.p.prog /\ policyKind' = "bpf" /\ bpfProg' = bpfProg
            /\ installing'[Main] = NoProgram
        BY <2>2, <3>2, <3>4 DEF InstallFilter
      <4>2. CurrentPolicy' = Cmd.p
        BY <3>1, <3>4, <4>1 DEF CurrentPolicy, Installs
      <4> QED BY <2>1, <2>3, <4>1, <4>2 DEF Installs, Does
    <3> QED BY <3>3, <3>4
  <2>5. CASE Cmd.p.kind # "bpf"
    <3>1. Cmd.p = [kind |-> Cmd.p.kind, prog |-> NoProgram]
      BY <2>2, <2>5 DEF PlainPolicy, FilterPolicy
    <3>2. /\ installing[Main] = NoProgram /\ installing' = installing
          /\ policyKind' = Cmd.p.kind /\ bpfProg' = bpfProg
      BY <2>1, <2>5 DEF SetPolicy, SetKind
    <3>3. CurrentPolicy' = Cmd.p
      BY <2>5, <3>1, <3>2 DEF CurrentPolicy
    <3> QED BY <2>1, <2>3, <3>2, <3>3 DEF Installs, Does
  <2> QED BY <2>4, <2>5
<1>4. CASE Arrange
  <2>1. UNCHANGED <<args, plan, policyKind, bpfProg, installing>> /\ todo' = Tail(todo) /\ todo # <<>>
    BY <1>4 DEF Arrange, Doing, Advance, SetNcheck, Register, BuildChain, Teardown, config
  <2>2. CASE Doing("ncheck") /\ SetNcheck(Cmd.n)
    BY <2>1, <2>2 DEF Doing, SetNcheck, Quiet, grates, Installs, Does
  <2>3. CASE Doing("route") /\ HasRow(Cmd.cage) /\ Register(Cmd.cage, Cmd.h)
    BY <2>1, <2>3 DEF Doing, Register, Quiet, grates, Installs, Does
  <2>4. CASE Doing("build") /\ BuildChain(Main, Cmd.mode, Cmd.n)
    BY <2>1, <2>4 DEF Doing, BuildChain, Installs, Does
  <2>5. CASE Doing("teardown") /\ Teardown(Main)
    BY <2>1, <2>5 DEF Doing, Teardown, Installs, Does
  <2> QED BY <1>4, <2>2, <2>3, <2>4, <2>5 DEF Arrange
<1>5. CASE SetCurrent
  BY <1>5 DEF SetCurrent, Doing, Advance, vars, config, grates, Installs, Does
<1>6. CASE Measured
  BY <1>6 DEF Measured, Doing, Advance, vars, config, grates, Installs, Does
<1>7. CASE Panic
  BY <1>7 DEF Panic, vars, config, grates, Installs, Holds
<1>8. ASSUME NEW t \in Thread, Issue(t) PROVE Installs' /\ args' = args /\ Holds
  BY <1>8 DEF Issue, Call, CallNarrow, Issued, config, grates, Installs, Holds
<1>9. ASSUME NEW t \in Thread, InSyscall(t) PROVE Installs' /\ args' = args /\ Holds
  <2>1. UNCHANGED <<config, routes, chain, slots>>
    BY <1>9 DEF InSyscall, Step, LoadKind, LoadNcheck, Passes, Refused, PolicyAborts, Abort, Lookup,
                RunLeaf, EnterGrate, EnterAborts, GrateDenies, GrateForwards, GrateReturns,
                LeaveGrate, Answer, InCall, grates
  <2> QED BY <1>9, <2>1 DEF InSyscall, hvars, config, Installs, Holds
<1> QED BY <1>1, <1>2, <1>3, <1>4, <1>5, <1>6, <1>7, <1>8, <1>9 DEF HarnessNext

-----------------------------------------------------------------------------
(* What a scenario leaves behind for the next                              *)

LEMMA InitFollowing == HarnessInit => Following
<1> SUFFICES ASSUME HarnessInit PROVE Following
  OBVIOUS
<1>1. Cage \subseteq Id
  BY DEF Id
<1>2. Starting
  BY <1>1 DEF HarnessInit, Init, Starting, Chainless, Ungrated, NoHandler
<1>3. Installs
  BY HarnessOK DEF HarnessInit, Init, Installs
<1> QED BY <1>2, <1>3 DEF Following

\* What main's steps are, stage by stage.
LEMMA StartingStep ==
  ASSUME Scripted, Starting, args' = args, Starts \/ Holds \/ Does
  PROVE  (Starting \/ Imposing)'
<1>1. CASE Holds
  BY <1>1 DEF Holds, Starting, Chainless, Ungrated
<1>2. CASE Starts
  <2>1. /\ plan' = Tail(plan) /\ (todo' = Head(plan).cmds \/ Head(plan).optional)
        /\ UNCHANGED <<policyKind, bpfProg, routes, chain, slots>>
    BY <1>2 DEF Starts, Begin
  <2>2. args \in Arguments /\ plan = Script(args)
    BY DEF Scripted, Starting
  <2>3. /\ Head(plan) = Always(<<Ncheck(args.ncheck), Route(Self, Raw)>>)
        /\ Tail(plan) \in PlansB(args)
    BY <2>2, ScriptPlanned
  <2>4. todo' = <<Ncheck(args.ncheck), Route(Self, Raw)>>
    BY <2>1, <2>3 DEF Always
  <2>5. (Chainless(Thread) /\ Ungrated(Cage))'
    BY <2>1 DEF Starting, Chainless, Ungrated
  <2> QED BY <2>1, <2>3, <2>4, <2>5 DEF Imposing
<1>3. CASE Does
  BY <1>3 DEF Does, Starting
<1> QED BY <1>1, <1>2, <1>3

\* Routing a cage to the leaf, and what that leaves alone.
LEMMA RouteRaw ==
  ASSUME TypeOK, NEW c \in Id, routes' = [routes EXCEPT ![c] = Raw], NEW C \in SUBSET Id
  PROVE  /\ routes'[c] = Raw
         /\ \A d \in Id \ {c} : routes'[d] = routes[d]
         /\ Ungrated(C) => Ungrated(C)'
<1>1. routes \in [Id -> Handler \cup {NoHandler}]
  BY DEF TypeOK
<1>2. routes'[c] = Raw /\ \A d \in Id \ {c} : routes'[d] = routes[d]
  BY <1>1
<1> QED BY <1>2 DEF Ungrated, Raw

LEMMA ImposingStarts ==
  ASSUME Scripted, Imposing, args' = args, Starts
  PROVE  (Imposing \/ Stacking)'
<1>1. /\ todo = <<>> /\ plan # <<>> /\ plan' = Tail(plan)
      /\ todo' = Head(plan).cmds \/ (Head(plan).optional /\ todo' = <<>>)
      /\ UNCHANGED <<policyKind, bpfProg, routes, chain, slots>>
  BY DEF Starts, Begin
<1>2. args \in Arguments /\ plan \in PlansB(args) /\ routes[Self] = Raw
  BY <1>1, FewCommands DEF Scripted, Imposing
<1>3. (Chainless(Thread) /\ Ungrated(Cage))' /\ Chainless(Thread) /\ Ungrated(Cage)
  BY <1>1 DEF Imposing, Chainless, Ungrated
<1>4. \/ Head(plan) = NoPolicyAgain /\ Tail(plan) \in PlansC(args)
      \/ Head(plan) \in Hooked(args) /\ Tail(plan) \in PlansB(args)
  BY <1>2, PlansTyped, BeforeStep DEF PlansB
<1>5. CASE Head(plan) = NoPolicyAgain /\ Tail(plan) \in PlansC(args)
  <2>1. todo' = <<Impose(NoPolicy)>>
    BY <1>1, <1>5 DEF NoPolicyAgain, Always
  <2>2. Ungrated(Cage \ {Self})' /\ Chainless(Thread \ {Main})' /\ Chainless({Main})'
    BY <1>3, HarnessOK DEF Ungrated, Chainless
  <2> QED BY <1>1, <1>5, <2>1, <2>2 DEF Stacking
<1>6. CASE Head(plan) \in Hooked(args) /\ Tail(plan) \in PlansB(args)
  <2>1. PICK p \in Imposed(args), x \in {Self, Desc}, says \in Ret :
          Says(p, x, says) /\ Head(plan) = HookRun(p, x, says)
    BY <1>6 DEF Hooked
  <2>2. todo' = <<>> \/ todo' = <<Impose(p), Wide(x, Bare(p), says)>>
    BY <1>1, <2>1 DEF HookRun, Keep
  <2>3. routes'[Self] = Raw
    BY <1>1, <1>2
  <2>4. todo' = <<>> \/ Judging'
    BY <2>1, <2>2 DEF Judging, Says
  <2> QED BY <1>1, <1>3, <1>6, <2>3, <2>4 DEF Imposing
<1> QED BY <1>4, <1>5, <1>6

LEMMA ImposingDoes ==
  ASSUME TypeOK, Scripted, Imposing, args' = args, Does
  PROVE  Imposing'
<1>1. /\ todo # <<>> /\ plan' = plan /\ todo' = Tail(todo)
      /\ IF Cmd.do = "policy" THEN CurrentPolicy' = Cmd.p /\ Verified(Cmd.p)
                              ELSE UNCHANGED <<policyKind, bpfProg>>
      /\ routes' = IF Cmd.do = "route" THEN [routes EXCEPT ![Cmd.cage] = Cmd.h] ELSE routes
      /\ Cmd.do \notin {"build", "teardown"} => UNCHANGED <<chain, slots>>
  BY DEF Does
<1>2. Self \in Id /\ Cage \subseteq Id
  BY Ids DEF Id
<1>3. CASE todo = <<Ncheck(args.ncheck), Route(Self, Raw)>>
  <2>1. Cmd = Ncheck(args.ncheck) /\ todo' = <<Route(Self, Raw)>>
    BY <1>1, <1>3, FewCommands DEF Cmd
  <2>2. UNCHANGED <<routes, chain, slots>>
    BY <1>1, <2>1 DEF Ncheck
  <2> QED BY <1>1, <2>1, <2>2 DEF Imposing, Chainless, Ungrated
<1>4. CASE todo = <<Route(Self, Raw)>>
  <2>1. Cmd = Route(Self, Raw) /\ todo' = <<>>
    BY <1>1, <1>4, FewCommands DEF Cmd
  <2>2. routes' = [routes EXCEPT ![Self] = Raw] /\ UNCHANGED <<chain, slots>>
    BY <1>1, <2>1 DEF Route
  <2>3. routes'[Self] = Raw /\ (Ungrated(Cage) => Ungrated(Cage)')
    BY <1>2, <2>2, RouteRaw
  <2> QED BY <1>1, <2>1, <2>2, <2>3 DEF Imposing, Chainless
<1>5. CASE routes[Self] = Raw /\ Judging
  <2>1. PICK p \in Imposed(args), x \in {Self, Desc}, says \in Ret :
         /\ Says(p, x, says)
         /\ \/ todo = <<Impose(p), Wide(x, Bare(p), says)>>
            \/ todo = <<Wide(x, Bare(p), says)>> /\ Verified(p) /\ CurrentPolicy = p
    BY <1>5 DEF Judging
  <2>2. CASE todo = <<Impose(p), Wide(x, Bare(p), says)>>
    <3>1. Cmd = Impose(p) /\ todo' = <<Wide(x, Bare(p), says)>>
      BY <1>1, <2>2, FewCommands DEF Cmd
    <3>2. Cmd.do = "policy" /\ Cmd.p = p
      BY <3>1 DEF Impose
    <3>3. routes' = routes /\ UNCHANGED <<chain, slots>> /\ CurrentPolicy' = p /\ Verified(p)
      BY <1>1, <3>2
    <3>4. Judging'
      BY <2>1, <3>1, <3>3 DEF Judging, Says
    <3> QED BY <1>1, <1>5, <3>3, <3>4 DEF Imposing, Chainless, Ungrated
  <2>3. CASE todo = <<Wide(x, Bare(p), says)>>
    <3>1. Cmd = Wide(x, Bare(p), says) /\ todo' = <<>>
      BY <1>1, <2>3, FewCommands DEF Cmd
    <3>2. Cmd.do = "measure"
      BY <3>1 DEF Wide, Measure
    <3>3. routes' = routes /\ UNCHANGED <<chain, slots>>
      BY <1>1, <3>2
    <3> QED BY <1>1, <1>5, <3>1, <3>3 DEF Imposing, Chainless, Ungrated
  <2> QED BY <2>1, <2>2, <2>3
<1> QED BY <1>1, <1>3, <1>4, <1>5 DEF Imposing

LEMMA ImposingStep ==
  ASSUME TypeOK, Scripted, Imposing, args' = args, Starts \/ Holds \/ Does
  PROVE  (Imposing \/ Stacking)'
<1>1. CASE Holds
  <2>1. UNCHANGED <<plan, todo, policyKind, routes, chain, slots>>
        /\ (todo = <<>> \/ Cmd.do # "policy" => bpfProg' = bpfProg)
    BY <1>1 DEF Holds
  <2>2. Judging => Judging'
    <3> SUFFICES ASSUME Judging PROVE Judging'
      OBVIOUS
    <3>1. PICK p \in Imposed(args), x \in {Self, Desc}, says \in Ret :
           /\ Says(p, x, says)
           /\ \/ todo = <<Impose(p), Wide(x, Bare(p), says)>>
              \/ todo = <<Wide(x, Bare(p), says)>> /\ Verified(p) /\ CurrentPolicy = p
      BY DEF Judging
    <3>2. CASE todo = <<Impose(p), Wide(x, Bare(p), says)>>
      BY <2>1, <3>1, <3>2 DEF Judging, Says
    <3>3. CASE todo = <<Wide(x, Bare(p), says)>> /\ Verified(p) /\ CurrentPolicy = p
      <4>1. Cmd.do # "policy"
        BY <3>3, FewCommands DEF Cmd, Wide, Measure
      <4>2. CurrentPolicy' = p
        BY <2>1, <3>3, <4>1 DEF CurrentPolicy
      <4> QED BY <2>1, <3>1, <3>3, <4>2 DEF Judging, Says
    <3> QED BY <3>1, <3>2, <3>3
  <2> QED BY <2>1, <2>2 DEF Imposing, Chainless, Ungrated
<1> QED BY <1>1, ImposingStarts, ImposingDoes

\* The grates of a scenario are no cages.
LEMMA HeightsTyped ==
  ASSUME NEW arg \in Arguments, NEW n \in Heights(arg)
  PROVE  /\ n \in 0 .. MaxGrates /\ n \in Nat /\ MaxGrates \in Nat
         /\ \A i \in 0 .. n : GrateBase + i \in GrateId /\ GrateBase + i \in Id \ Cage
<1>1. n \in 0 .. MaxGrates
  BY HarnessOK, ClientOK, ConstantsOK DEF Heights, Argument
<1>2. \A i \in 0 .. n : GrateBase + i \in GrateId /\ GrateBase + i \in Id
  <2>1. \A i \in 0 .. n : i \in 0 .. MaxGrates
    BY <1>1, ConstantsOK
  <2> QED BY <2>1, Ids
<1>3. \A i \in 0 .. n : GrateBase + i \notin Cage
  BY <1>2, ConstantsOK
<1> QED BY <1>1, <1>2, <1>3, ConstantsOK

LEMMA StackingStarts ==
  ASSUME Scripted, Stacking, args' = args, Starts
  PROVE  (Stacking \/ Finishing)'
<1>1. /\ todo = <<>> /\ plan # <<>> /\ plan' = Tail(plan)
      /\ todo' = Head(plan).cmds \/ (Head(plan).optional /\ todo' = <<>>)
      /\ UNCHANGED <<policyKind, bpfProg, routes, chain, slots>>
  BY DEF Starts, Begin
<1>2. args \in Arguments /\ plan \in PlansC(args)
  BY DEF Scripted, Stacking
<1>3. ASSUME NEW n \in Heights(args), NEW m \in {PerCall, Cached}, NEW f \in Fptr
      PROVE  LET c == Stack(n, m, f, Told(f)).cmds IN
             c \in Seq(Command) /\ Rest(c, 0) = c /\ \A k \in 0 .. n + 3 : Rest(c, k) # <<>>
  <2> DEFINE c == Stack(n, m, f, Told(f)).cmds
  <2>1. n \in 0 .. MaxGrates /\ n \in Nat /\ Told(f) \in Ret
    BY <1>2, HeightsTyped DEF Told, Ret
  <2>2. c \in Seq(Command) /\ Len(c) = n + 4
    BY <2>1, StackCmds
  <2> HIDE DEF c
  <2>3. Rest(c, 0) = c /\ \A k \in 0 .. Len(c) - 1 : Rest(c, k) # <<>>
    BY <2>2, RestStep
  <2>4. Len(c) - 1 = n + 3
    BY <2>1, <2>2
  <2>5. c \in Seq(Command) /\ Rest(c, 0) = c /\ \A k \in 0 .. n + 3 : Rest(c, k) # <<>>
    BY <2>2, <2>3, <2>4
  <2> QED BY <2>5 DEF c
<1>4. ~Laying
  BY <1>1, <1>3 DEF Laying
<1>5. /\ policyKind = "none" /\ Main \in Thread /\ Ungrated(Cage \ {Self})
      /\ Chainless({Main}) /\ Chainless(Thread \ {Main})
  BY <1>1, <1>4, FewCommands, HarnessOK DEF Stacking
<1>6. \/ Head(plan) = Mend /\ Tail(plan) \in PlansD(args)
      \/ Head(plan) \in Stacked(args) /\ Tail(plan) \in PlansC(args)
  <2>1. Stacked(args) \in SUBSET Scenario /\ Mend \in Scenario
    BY <1>2, PlansTyped
  <2> QED BY <1>2, <2>1, PlansTyped, BeforeStep DEF PlansC
<1>7. CASE Head(plan) = Mend /\ Tail(plan) \in PlansD(args)
  <2>1. todo' = <<Route(Self, Raw)>>
    BY <1>1, <1>7 DEF Mend, Always
  <2>2. (Chainless(Thread) /\ Ungrated(Cage \ {Self}))'
    BY <1>1, <1>5 DEF Chainless, Ungrated
  <2> QED BY <1>1, <1>5, <1>7, <2>1, <2>2 DEF Finishing
<1>8. CASE Head(plan) \in Stacked(args) /\ Tail(plan) \in PlansC(args)
  <2>1. PICK n \in Heights(args), m \in {PerCall, Cached}, f \in Fptr :
          Head(plan) = Stack(n, m, f, Told(f))
    BY <1>8 DEF Stacked
  <2>2. todo' = <<>> \/ todo' = Rest(Stack(n, m, f, Told(f)).cmds, 0)
    BY <1>1, <1>3, <2>1
  <2>3. n \in Nat /\ 0 \in 0 .. n + 3
    BY <1>2, HeightsTyped
  <2>4. Laid(n, m, f, 0)'
    <3>1. \A i \in 1 .. n : ~(0 > i + 1)
      BY <2>3
    <3> QED BY <1>1, <1>5, <3>1 DEF Laid, Chainless
  <2>5. todo' = <<>> \/ Laying'
    BY <2>1, <2>2, <2>3, <2>4 DEF Laying
  <2>6. Ungrated(Cage \ {Self})' /\ Chainless(Thread \ {Main})' /\ Chainless({Main})'
    BY <1>1, <1>5 DEF Ungrated, Chainless
  <2> QED BY <1>1, <1>5, <1>8, <2>5, <2>6 DEF Stacking
<1> QED BY <1>6, <1>7, <1>8

\* A command of a scenario with grates.
LEMMA LayingDoes ==
  ASSUME TypeOK, Scripted, Stacking, policyKind = "none", Laying, args' = args, Does
  PROVE  Stacking'
<1>1. /\ todo # <<>> /\ plan' = plan /\ todo' = Tail(todo)
      /\ Cmd.do # "policy" => UNCHANGED <<policyKind, bpfProg>>
      /\ routes' = IF Cmd.do = "route" THEN [routes EXCEPT ![Cmd.cage] = Cmd.h] ELSE routes
      /\ Cmd.do = "build" => /\ chain' = [chain EXCEPT ![Main] = Cmd.mode]
                             /\ slots' = [slots EXCEPT ![Main] = ChainOf(Cmd.n)]
      /\ Cmd.do = "teardown" => /\ chain' = [chain EXCEPT ![Main] = NoChain]
                                /\ slots' = [slots EXCEPT ![Main] = {}]
      /\ Cmd.do \notin {"build", "teardown"} => UNCHANGED <<chain, slots>>
  BY DEF Does
<1>2. /\ args \in Arguments /\ plan \in PlansC(args) /\ Main \in Thread
      /\ chain \in [Thread -> {PerCall, Cached, NoChain}] /\ slots \in [Thread -> SUBSET Grate]
      /\ routes \in [Id -> Handler \cup {NoHandler}]
      /\ Ungrated(Cage \ {Self}) /\ Chainless(Thread \ {Main})
  BY HarnessOK DEF Scripted, Stacking, TypeOK
<1>3. PICK n \in Heights(args), m \in {PerCall, Cached}, f \in Fptr : \E k \in 0 .. n + 3 :
        todo = Rest(Stack(n, m, f, Told(f)).cmds, k) /\ Laid(n, m, f, k)
  BY DEF Laying
<1>4. PICK k \in 0 .. n + 3 : todo = Rest(Stack(n, m, f, Told(f)).cmds, k) /\ Laid(n, m, f, k)
  BY <1>3
<1> DEFINE c == Stack(n, m, f, Told(f)).cmds
<1>5. n \in 0 .. MaxGrates /\ n \in Nat /\ k \in Nat /\ Told(f) \in Ret
  BY <1>2, HeightsTyped DEF Told, Ret
<1>6. /\ c \in Seq(Command) /\ Len(c) = n + 4
      /\ c[1] = Build(n, m) /\ c[2] = Route(Self, ToGrate(GrateBase, f))
      /\ \A i \in 1 .. n : c[i + 2] = Route(GrateBase + i - 1, NextHop(n, i - 1))
      /\ c[n + 3] = Wide(Self, Behind(m, n, f), Told(f)) /\ c[n + 4] = Unbuild
  BY <1>5, StackCmds
<1>7. todo = Rest(c, k)
  BY <1>4
<1>13. Laying' <=> \E nn \in Heights(args), mm \in {PerCall, Cached}, ff \in Fptr :
            \E kk \in 0 .. nn + 3 :
              todo' = Rest(Stack(nn, mm, ff, Told(ff)).cmds, kk) /\ Laid(nn, mm, ff, kk)'
  BY DEF Laying
<1>14. ASSUME k # n + 3, Laid(n, m, f, k + 1)', todo' = Rest(c, k + 1) PROVE Laying'
  <2>1. k + 1 \in 0 .. n + 3
    BY <1>5, <1>14
  <2> QED BY <1>13, <1>14, <2>1
<1> HIDE DEF c
<1>8. Cmd = c[k + 1] /\ todo' = Rest(c, k + 1) /\ Rest(c, n + 4) = <<>>
  <2>1. /\ Rest(c, Len(c)) = <<>>
        /\ \A j \in 0 .. Len(c) - 1 : /\ Head(Rest(c, j)) = c[j + 1]
                                      /\ Tail(Rest(c, j)) = Rest(c, j + 1)
    BY <1>6, RestStep
  <2>2. k \in 0 .. Len(c) - 1
    BY <1>5, <1>6
  <2> QED BY <1>1, <1>6, <1>7, <2>1, <2>2 DEF Cmd
<1>9. Self \in Id /\ Self \in Cage /\ GrateBase \in Nat
      /\ \A i \in 0 .. n : GrateBase + i \in Id \ Cage
  BY <1>2, HeightsTyped, Ids, ConstantsOK
<1>10. ASSUME policyKind' = "none", \A d \in Cage \ {Self} : routes'[d] = routes[d],
              \A t \in Thread \ {Main} : chain'[t] = chain[t] /\ slots'[t] = slots[t],
              \/ todo' = <<>> /\ Chainless({Main})'
              \/ k # n + 3 /\ Laid(n, m, f, k + 1)'
       PROVE  Stacking'
  <2>1. (Ungrated(Cage \ {Self}))' /\ Chainless(Thread \ {Main})'
    BY <1>2, <1>10 DEF Ungrated, Chainless
  <2>2. (todo' = <<>> /\ Chainless({Main})') \/ Laying'
    BY <1>8, <1>10, <1>14
  <2> QED BY <1>1, <1>2, <1>10, <2>1, <2>2 DEF Stacking
<1>11. Laid(n, m, f, k)
  BY <1>4
<1>15. CASE k = 0
  <2>1. Cmd.do = "build" /\ Cmd.n = n /\ Cmd.mode = m
    BY <1>6, <1>8, <1>15 DEF Build
  <2>2. /\ routes' = routes /\ policyKind' = policyKind
        /\ chain' = [chain EXCEPT ![Main] = m] /\ slots' = [slots EXCEPT ![Main] = ChainOf(n)]
    BY <1>1, <2>1
  <2>3. /\ chain'[Main] = m /\ slots'[Main] = ChainOf(n)
        /\ \A t \in Thread \ {Main} : chain'[t] = chain[t] /\ slots'[t] = slots[t]
    BY <1>2, <2>2
  <2>4. Laid(n, m, f, k + 1)'
    <3>1. k + 1 # 0 /\ ~(k + 1 > 1) /\ \A i \in 1 .. n : ~(k + 1 > i + 1)
      BY <1>5, <1>15
    <3> QED BY <2>3, <3>1 DEF Laid
  <2>5. k # n + 3
    BY <1>5, <1>15
  <2> QED BY <1>10, <2>2, <2>3, <2>4, <2>5
<1>16. CASE k = 1
  <2>1. Cmd.do = "route" /\ Cmd.cage = Self /\ Cmd.h = ToGrate(GrateBase, f)
    BY <1>6, <1>8, <1>16 DEF Route
  <2>2. /\ routes' = [routes EXCEPT ![Self] = ToGrate(GrateBase, f)]
        /\ UNCHANGED <<chain, slots>> /\ policyKind' = policyKind
    BY <1>1, <2>1
  <2>3. routes'[Self] = ToGrate(GrateBase, f) /\ \A d \in Cage \ {Self} : routes'[d] = routes[d]
    BY <1>2, <1>9, <2>2 DEF Id
  <2>4. Laid(n, m, f, k + 1)'
    <3>1. k + 1 # 0 /\ k # 0 /\ \A i \in 1 .. n : ~(k + 1 > i + 1)
      BY <1>5, <1>16
    <3> QED BY <1>11, <2>2, <2>3, <3>1 DEF Laid
  <2>5. k # n + 3
    BY <1>5, <1>16
  <2> QED BY <1>10, <2>2, <2>3, <2>4, <2>5
<1>17. CASE k \in 2 .. n + 1
  <2> DEFINE j == k - 1
  <2>1. j \in 1 .. n /\ j + 2 = k + 1
    BY <1>5, <1>17
  <2>2. Cmd = Route(GrateBase + j - 1, NextHop(n, j - 1))
    BY <1>6, <1>8, <2>1
  <2>3. Cmd.do = "route" /\ Cmd.cage = GrateBase + j - 1 /\ Cmd.h = NextHop(n, j - 1)
    BY <2>2 DEF Route
  <2>4. /\ routes' = [routes EXCEPT ![GrateBase + j - 1] = NextHop(n, j - 1)]
        /\ UNCHANGED <<chain, slots>> /\ policyKind' = policyKind
    BY <1>1, <2>3
  <2>5. \A i \in 1 .. n : GrateBase + i - 1 \in Id \ Cage
    <3>1. \A i \in 1 .. n : i - 1 \in 0 .. n /\ GrateBase + i - 1 = GrateBase + (i - 1)
      BY <1>5, <1>9
    <3> QED BY <1>9, <3>1
  <2>6. /\ routes'[GrateBase + j - 1] = NextHop(n, j - 1)
        /\ \A d \in Cage : routes'[d] = routes[d]
        /\ \A i \in 1 .. n : i # j => routes'[GrateBase + i - 1] = routes[GrateBase + i - 1]
    <3>1. \A i \in 1 .. n : i # j => GrateBase + i - 1 # GrateBase + j - 1
      BY <1>5, <1>9, <2>1
    <3> HIDE DEF j
    <3> QED BY <1>2, <2>1, <2>4, <2>5, <3>1 DEF Id
  <2>7. Laid(n, m, f, k + 1)'
    <3>1. k + 1 # 0 /\ k # 0 /\ k > 1 /\ \A i \in 1 .. n : k + 1 > i + 1 /\ i # j => k > i + 1
      BY <1>5, <1>17, <2>1
    <3>2. /\ chain'[Main] = m /\ slots'[Main] = ChainOf(n)
          /\ routes'[Self] = ToGrate(GrateBase, f)
      BY <1>9, <1>11, <2>4, <2>6, <3>1 DEF Laid
    <3>3. \A i \in 1 .. n : k + 1 > i + 1 => routes'[GrateBase + i - 1] = NextHop(n, i - 1)
      <4> HIDE DEF j
      <4> QED BY <1>11, <2>6, <3>1 DEF Laid
    <3> QED BY <3>1, <3>2, <3>3 DEF Laid
  <2>8. k # n + 3
    BY <1>5, <1>17
  <2> QED BY <1>10, <2>4, <2>6, <2>7, <2>8
<1>18. CASE k = n + 2
  <2>1. Cmd = Wide(Self, Behind(m, n, f), Told(f))
    <3>1. k + 1 = n + 3
      BY <1>5, <1>18
    <3> QED BY <1>6, <1>8, <3>1
  <2>2. Cmd.do = "measure"
    BY <2>1 DEF Wide, Measure
  <2>3. routes' = routes /\ UNCHANGED <<chain, slots>> /\ policyKind' = policyKind
    BY <1>1, <2>2
  <2>4. Laid(n, m, f, k + 1)'
    <3>1. k + 1 # 0 /\ k # 0 /\ k > 1 /\ \A i \in 1 .. n : k > i + 1
      BY <1>5, <1>18
    <3> QED BY <1>11, <2>3, <3>1 DEF Laid
  <2>5. k # n + 3
    BY <1>5, <1>18
  <2> QED BY <1>10, <2>3, <2>4, <2>5
<1>19. CASE k = n + 3
  <2>1. k + 1 = n + 4
    BY <1>5, <1>19
  <2>2. Cmd.do = "teardown" /\ todo' = <<>>
    BY <1>6, <1>8, <2>1 DEF Unbuild
  <2>3. /\ routes' = routes /\ policyKind' = policyKind
        /\ chain' = [chain EXCEPT ![Main] = NoChain] /\ slots' = [slots EXCEPT ![Main] = {}]
    BY <1>1, <2>2
  <2>4. /\ Chainless({Main})'
        /\ \A t \in Thread \ {Main} : chain'[t] = chain[t] /\ slots'[t] = slots[t]
    BY <1>2, <2>3 DEF Chainless
  <2> QED BY <1>10, <2>2, <2>3, <2>4
<1>20. k = 0 \/ k = 1 \/ k \in 2 .. n + 1 \/ k = n + 2 \/ k = n + 3
  BY <1>5
<1> QED BY <1>15, <1>16, <1>17, <1>18, <1>19, <1>20

LEMMA StackingStep ==
  ASSUME TypeOK, Scripted, Stacking, args' = args, Starts \/ Holds \/ Does
  PROVE  (Stacking \/ Finishing)'
<1>1. CASE Holds
  <2>1. UNCHANGED <<plan, todo, policyKind, routes, chain, slots>>
    BY <1>1 DEF Holds
  <2>2. Laying => Laying'
    BY <2>1 DEF Laying, Laid
  <2> QED BY <2>1, <2>2 DEF Stacking, Ungrated, Chainless
<1>2. CASE Does /\ todo = <<Impose(NoPolicy)>> /\ Chainless({Main})
  <2>1. Cmd = Impose(NoPolicy) /\ Tail(todo) = <<>>
    BY <1>2, FewCommands DEF Cmd
  <2>2. Cmd.do = "policy" /\ Cmd.p.kind = "none"
    BY <2>1 DEF Impose, NoPolicy, Only
  <2>3. CurrentPolicy' = Cmd.p /\ plan' = plan /\ todo' = <<>> /\ routes' = routes /\ UNCHANGED <<chain, slots>>
    BY <1>2, <2>1, <2>2 DEF Does
  <2>4. policyKind' = "none"
    BY <2>2, <2>3 DEF CurrentPolicy
  <2> QED BY <1>2, <2>3, <2>4 DEF Stacking, Ungrated, Chainless
<1>3. CASE Does /\ policyKind = "none" /\ Laying
  BY <1>3, LayingDoes
<1>4. CASE Does /\ todo = <<>>
  BY <1>4 DEF Does
<1> QED BY <1>1, <1>2, <1>3, <1>4, StackingStarts DEF Stacking

\* What may come of a plain scenario.
LEMMA PlainStarts ==
  ASSUME NEW arg \in Arguments, NEW sc \in Plain(arg)
  PROVE  \/ sc = Mend \/ sc = EnactRun \/ sc = NarrowRun \/ sc = WideRun
         \/ \E i \in DOMAIN arg.threads :
              LET n == arg.threads[i]
                  c == Contention(n).cmds
              IN  sc = Contention(n) /\ n \in Nat /\ c = Rest(c, 0)
<1>1. ASSUME NEW i \in DOMAIN arg.threads
      PROVE  LET n == arg.threads[i]
                 c == Contention(n).cmds
             IN  n \in Nat /\ c = Rest(c, 0)
  <2> DEFINE n == arg.threads[i]
  <2> DEFINE c == Contention(n).cmds
  <2>1. n \in Nat /\ 1 .. n \subseteq Thread
    BY HarnessOK DEF Argument
  <2> HIDE DEF n
  <2>2. c \in Seq(Command)
    BY <2>1, ContentionCmds
  <2> HIDE DEF c
  <2>3. c = Rest(c, 0)
    BY <2>2, RestStep
  <2> QED BY <2>1, <2>3 DEF n, c
<1> QED BY <1>1 DEF Plain

LEMMA FinishingStarts ==
  ASSUME Scripted, Finishing, args' = args, Starts
  PROVE  Finishing'
<1>1. /\ todo = <<>> /\ plan # <<>> /\ plan' = Tail(plan)
      /\ todo' = Head(plan).cmds \/ todo' = <<>>
      /\ UNCHANGED <<policyKind, bpfProg, routes, chain, slots>>
  BY DEF Starts, Begin
<1>2. args \in Arguments /\ plan \in Seq(Plain(args)) /\ routes[Self] = Raw
  BY <1>1, FewCommands DEF Scripted, Finishing, PlansD
<1>3. plan' \in PlansD(args) /\ Head(plan) \in Plain(args)
  BY <1>1, <1>2 DEF PlansD
<1>4. policyKind' = "none" /\ (Chainless(Thread) /\ Ungrated(Cage \ {Self}))' /\ routes'[Self] = Raw
  BY <1>1, <1>2 DEF Finishing, Chainless, Ungrated
<1>5. CASE todo' = <<>>
  BY <1>3, <1>4, <1>5 DEF Finishing
<1>6. CASE todo' = Head(plan).cmds
  <2>1. CASE Head(plan) = Mend
    BY <1>3, <1>4, <1>6, <2>1 DEF Finishing, Mend, Always
  <2>2. CASE Head(plan) = EnactRun
    BY <1>3, <1>4, <1>6, <2>2 DEF Finishing, EnactRun, Always
  <2>3. CASE Head(plan) = NarrowRun \/ Head(plan) = WideRun
    BY <1>3, <1>4, <1>6, <2>3 DEF Finishing
  <2>4. ASSUME NEW i \in DOMAIN args.threads, Head(plan) = Contention(args.threads[i]),
               args.threads[i] \in Nat,
               Contention(args.threads[i]).cmds = Rest(Contention(args.threads[i]).cmds, 0)
        PROVE  Finishing'
    <3>1. 0 \in 0 .. args.threads[i] /\ \A j \in 1 .. 0 : routes'[Worker(j)] = Raw
      BY <2>4
    <3>2. Spreading'
      BY <1>1, <1>6, <2>4, <3>1 DEF Spreading
    <3> QED BY <1>3, <1>4, <3>2 DEF Finishing
  <2> QED BY <1>2, <1>3, <2>1, <2>2, <2>3, <2>4, PlainStarts
<1> QED BY <1>1, <1>5, <1>6

LEMMA FinishingDoes ==
  ASSUME TypeOK, Scripted, Finishing, args' = args, Does
  PROVE  Finishing'
<1>1. /\ todo # <<>> /\ plan' = plan /\ todo' = Tail(todo)
      /\ Cmd.do # "policy" => UNCHANGED <<policyKind, bpfProg>>
      /\ routes' = IF Cmd.do = "route" THEN [routes EXCEPT ![Cmd.cage] = Cmd.h] ELSE routes
      /\ Cmd.do \notin {"build", "teardown"} => UNCHANGED <<chain, slots>>
  BY DEF Does
<1>2. /\ Self \in Id /\ Cage \subseteq Id /\ routes \in [Id -> Handler \cup {NoHandler}]
      /\ args \in Arguments
  BY Ids DEF Id, TypeOK, Scripted
<1>3. CASE todo = <<Route(Self, Raw)>>
  <2>1. Cmd = Route(Self, Raw) /\ todo' = <<>>
    BY <1>1, <1>3, FewCommands DEF Cmd
  <2>2. routes' = [routes EXCEPT ![Self] = Raw] /\ UNCHANGED <<chain, slots>> /\ policyKind' = policyKind
    BY <1>1, <2>1 DEF Route
  <2>3. routes'[Self] = Raw /\ (Ungrated(Cage \ {Self}) => Ungrated(Cage \ {Self})')
    BY <1>2, <2>2, RouteRaw
  <2> QED BY <1>1, <2>1, <2>2, <2>3 DEF Finishing, Chainless
<1>4. CASE todo = <<Enact(Self), Route(Self, Raw)>>
  <2>1. Cmd = Enact(Self) /\ todo' = <<Route(Self, Raw)>>
    BY <1>1, <1>4, FewCommands DEF Cmd
  <2>2. routes' = routes /\ UNCHANGED <<chain, slots>> /\ policyKind' = policyKind
    BY <1>1, <2>1 DEF Enact
  <2> QED BY <1>1, <2>1, <2>2 DEF Finishing, Chainless, Ungrated
<1>5. CASE todo \in {NarrowRun.cmds, WideRun.cmds} /\ routes[Self] = Raw
  <2>1. PICK form \in {"narrow", "wide"} : todo = <<Measure({Main}, form, Self, Bare(NoPolicy), "ok")>>
    BY <1>5 DEF NarrowRun, WideRun, Keep, Wide
  <2>2. Cmd.do = "measure" /\ todo' = <<>>
    BY <1>1, <2>1, FewCommands DEF Cmd, Measure
  <2>3. routes' = routes /\ UNCHANGED <<chain, slots>> /\ policyKind' = policyKind
    BY <1>1, <2>2
  <2> QED BY <1>1, <1>5, <2>2, <2>3 DEF Finishing, Chainless, Ungrated
<1>6. CASE routes[Self] = Raw /\ Spreading
  <2>1. PICK i \in DOMAIN args.threads : \E k \in 0 .. args.threads[i] :
          /\ todo = Rest(Contention(args.threads[i]).cmds, k)
          /\ \A j \in 1 .. k : routes[Worker(j)] = Raw
    BY <1>6 DEF Spreading
  <2> DEFINE n == args.threads[i]
  <2> DEFINE c == Contention(n).cmds
  <2>2. n \in Nat /\ 1 .. n \subseteq Thread
    BY <1>2, HarnessOK DEF Argument
  <2>3. PICK k \in 0 .. n : todo = Rest(c, k) /\ \A j \in 1 .. k : routes[Worker(j)] = Raw
    BY <2>1
  <2>4. ASSUME k < n, todo' = Rest(c, k + 1), \A j \in 1 .. k + 1 : routes'[Worker(j)] = Raw
        PROVE  Spreading'
    <3>1. k + 1 \in 0 .. n
      BY <2>2, <2>4
    <3> QED BY <1>1, <2>4, <3>1 DEF Spreading
  <2> HIDE DEF n
  <2>5. /\ c \in Seq(Command) /\ Len(c) = n + 1
        /\ \A j \in 1 .. n : c[j] = Route(Worker(j), Raw)
        /\ c[n + 1] = Measure(1 .. n, "wide", Self, Bare(NoPolicy), "ok")
    BY <2>2, ContentionCmds
  <2> HIDE DEF c
  <2>6. Cmd = c[k + 1] /\ todo' = Rest(c, k + 1) /\ Rest(c, n + 1) = <<>>
    <3>1. /\ Rest(c, Len(c)) = <<>>
          /\ \A j \in 0 .. Len(c) - 1 : /\ Head(Rest(c, j)) = c[j + 1]
                                        /\ Tail(Rest(c, j)) = Rest(c, j + 1)
      BY <2>5, RestStep
    <3>2. k \in 0 .. Len(c) - 1
      BY <2>2, <2>5
    <3> QED BY <1>1, <2>3, <2>5, <3>1, <3>2 DEF Cmd
  <2>7. CASE k < n
    <3>1. k + 1 \in 1 .. n /\ k + 1 \in Thread \ {Main}
      BY <2>2, <2>7, HarnessOK
    <3>2. Cmd = Route(Worker(k + 1), Raw) /\ Worker(k + 1) \in Id
      BY <2>5, <2>6, <3>1, Ids
    <3>3. /\ routes' = [routes EXCEPT ![Worker(k + 1)] = Raw] /\ UNCHANGED <<chain, slots>>
          /\ policyKind' = policyKind
      BY <1>1, <3>2 DEF Route
    <3>4. /\ routes'[Worker(k + 1)] = Raw
          /\ \A d \in Id \ {Worker(k + 1)} : routes'[d] = routes[d]
          /\ Ungrated(Cage \ {Self}) => Ungrated(Cage \ {Self})'
      BY <1>2, <3>2, <3>3, RouteRaw
    <3>5. routes'[Self] = Raw
      BY <1>2, <1>6, <3>4
    <3>6. ASSUME NEW j \in 1 .. k + 1 PROVE routes'[Worker(j)] = Raw
      <4>1. CASE j = k + 1
        BY <3>4, <4>1
      <4>2. CASE j # k + 1
        <5>1. j \in 1 .. k /\ j \in Thread \ {Main}
          BY <2>2, <2>3, <4>2, HarnessOK
        <5>2. Worker(j) \in Id /\ routes[Worker(j)] = Raw
          BY <2>3, <5>1, Ids
        <5> QED BY <3>4, <5>2
      <4> QED BY <4>1, <4>2
    <3>7. Spreading'
      BY <2>4, <2>6, <2>7, <3>6
    <3> QED BY <1>1, <3>3, <3>4, <3>5, <3>7 DEF Finishing, Chainless
  <2>8. CASE k = n
    <3>1. Cmd = Measure(1 .. n, "wide", Self, Bare(NoPolicy), "ok") /\ todo' = <<>>
      BY <2>5, <2>6, <2>8
    <3>2. routes' = routes /\ UNCHANGED <<chain, slots>> /\ policyKind' = policyKind
      BY <1>1, <3>1 DEF Measure
    <3> QED BY <1>1, <1>6, <3>1, <3>2 DEF Finishing, Chainless, Ungrated
  <2> QED BY <2>2, <2>7, <2>8
<1> QED BY <1>1, <1>3, <1>4, <1>5, <1>6 DEF Finishing

\* Main stays in its stage, or goes to the next one.
LEMMA NextFollowing ==
  ASSUME TypeOK, Scripted, Following, [HarnessNext]_<<vars, hvars>>
  PROVE  Following'
<1>1. Installs' /\ args' = args /\ (Starts \/ Holds \/ Does)
  BY MainMoves DEF Following
<1>2. CASE Starting
  BY <1>1, <1>2, StartingStep DEF Following
<1>3. CASE Imposing
  BY <1>1, <1>3, ImposingStep DEF Following
<1>4. CASE Stacking
  BY <1>1, <1>4, StackingStep DEF Following
<1>5. CASE Finishing
  <2>1. CASE Holds
    <3>1. UNCHANGED <<plan, todo, policyKind, routes, chain, slots>>
      BY <2>1 DEF Holds
    <3>2. Spreading => Spreading'
      BY <1>1, <3>1 DEF Spreading
    <3> QED BY <1>1, <1>5, <3>1, <3>2 DEF Following, Finishing, Chainless, Ungrated
  <2> QED BY <1>1, <1>5, <2>1, FinishingStarts, FinishingDoes DEF Following
<1> QED BY <1>2, <1>3, <1>4, <1>5 DEF Following

-----------------------------------------------------------------------------
(* What a command finds                                                    *)

\* The filter matters to no policy but its own.
LEMMA PermitsPlain ==
  ASSUME NEW kind, kind # "bpf", NEW prog, NEW n, NEW r
  PROVE  Permits(kind, prog, n, r) <=> Permits(kind, NoProgram, n, r)
BY DEF Permits

\* A command of a scenario with grates that is not a route.
LEMMA LayingCmd ==
  ASSUME Scripted, Laying
  PROVE  /\ Cmd.do \notin {"policy", "ncheck", "current"}
         /\ Cmd.do = "route" => \/ Cmd.cage = Self
                                \/ \E n \in Heights(args) : \E i \in 1 .. n : Cmd.cage = GrateBase + i - 1
         /\ Cmd.do = "measure" =>
              \E n \in Heights(args), m \in {PerCall, Cached}, f \in Fptr :
                Laid(n, m, f, n + 2) /\ Cmd = Wide(Self, Behind(m, n, f), Told(f))
<1>1. PICK n \in Heights(args), m \in {PerCall, Cached}, f \in Fptr : \E k \in 0 .. n + 3 :
        todo = Rest(Stack(n, m, f, Told(f)).cmds, k) /\ Laid(n, m, f, k)
  BY DEF Laying
<1> DEFINE c == Stack(n, m, f, Told(f)).cmds
<1>2. PICK k \in 0 .. n + 3 : todo = Rest(c, k) /\ Laid(n, m, f, k)
  BY <1>1
<1>3. n \in 0 .. MaxGrates /\ n \in Nat /\ k \in Nat /\ Told(f) \in Ret
  BY HeightsTyped DEF Told, Ret, Scripted
<1>4. /\ c \in Seq(Command) /\ Len(c) = n + 4
      /\ c[1] = Build(n, m) /\ c[2] = Route(Self, ToGrate(GrateBase, f))
      /\ \A i \in 1 .. n : c[i + 2] = Route(GrateBase + i - 1, NextHop(n, i - 1))
      /\ c[n + 3] = Wide(Self, Behind(m, n, f), Told(f)) /\ c[n + 4] = Unbuild
  BY <1>3, StackCmds
<1> HIDE DEF c
<1>5. Cmd = c[k + 1]
  <2>1. \A j \in 0 .. Len(c) - 1 : Head(Rest(c, j)) = c[j + 1]
    BY <1>4, RestStep
  <2>2. k \in 0 .. Len(c) - 1
    BY <1>3, <1>4
  <2> QED BY <1>2, <2>1, <2>2 DEF Cmd
<1>6. CASE k = 0
  BY <1>3, <1>4, <1>5, <1>6 DEF Build
<1>7. CASE k = 1
  BY <1>3, <1>4, <1>5, <1>7 DEF Route
<1>8. CASE k \in 2 .. n + 1
  <2> DEFINE i == k - 1
  <2>1. i \in 1 .. n /\ i + 2 = k + 1
    BY <1>3, <1>8
  <2> HIDE DEF i
  <2>2. Cmd = Route(GrateBase + i - 1, NextHop(n, i - 1))
    BY <1>4, <1>5, <2>1
  <2>3. Cmd.do = "route" /\ Cmd.cage = GrateBase + i - 1
    BY <2>2 DEF Route
  <2> QED BY <2>1, <2>3
<1>9. CASE k = n + 2
  <2>1. k + 1 = n + 3
    BY <1>3, <1>9
  <2>2. Cmd = Wide(Self, Behind(m, n, f), Told(f))
    BY <1>4, <1>5, <2>1
  <2>3. Laid(n, m, f, n + 2) /\ Cmd.do = "measure"
    BY <1>2, <1>9, <2>2 DEF Wide, Measure
  <2> QED BY <2>2, <2>3
<1>10. CASE k = n + 3
  <2>1. k + 1 = n + 4
    BY <1>3, <1>10
  <2> QED BY <1>4, <1>5, <2>1 DEF Unbuild
<1>11. k = 0 \/ k = 1 \/ k \in 2 .. n + 1 \/ k = n + 2 \/ k = n + 3
  BY <1>3
<1> QED BY <1>6, <1>7, <1>8, <1>9, <1>10, <1>11

\* A command of a contention scenario.
LEMMA SpreadingCmd ==
  ASSUME Scripted, Spreading
  PROVE  /\ Cmd.do \notin {"policy", "ncheck"}
         /\ Cmd.do = "route" =>
              \E i \in DOMAIN args.threads : \E j \in 1 .. args.threads[i] : Cmd.cage = Worker(j)
         /\ Cmd.do = "measure" =>
              \E i \in DOMAIN args.threads :
                /\ \A j \in 1 .. args.threads[i] : routes[Worker(j)] = Raw
                /\ Cmd = Measure(1 .. args.threads[i], "wide", Self, Bare(NoPolicy), "ok")
<1>1. PICK i \in DOMAIN args.threads : \E k \in 0 .. args.threads[i] :
        /\ todo = Rest(Contention(args.threads[i]).cmds, k)
        /\ \A j \in 1 .. k : routes[Worker(j)] = Raw
  BY DEF Spreading
<1> DEFINE n == args.threads[i]
<1> DEFINE c == Contention(n).cmds
<1>2. n \in Nat /\ 1 .. n \subseteq Thread
  BY HarnessOK DEF Argument, Scripted
<1>3. PICK k \in 0 .. n : todo = Rest(c, k) /\ \A j \in 1 .. k : routes[Worker(j)] = Raw
  BY <1>1
<1> HIDE DEF n
<1>4. /\ c \in Seq(Command) /\ Len(c) = n + 1
      /\ \A j \in 1 .. n : c[j] = Route(Worker(j), Raw)
      /\ c[n + 1] = Measure(1 .. n, "wide", Self, Bare(NoPolicy), "ok")
  BY <1>2, ContentionCmds
<1> HIDE DEF c
<1>5. Cmd = c[k + 1]
  <2>1. \A j \in 0 .. Len(c) - 1 : Head(Rest(c, j)) = c[j + 1]
    BY <1>4, RestStep
  <2>2. k \in 0 .. Len(c) - 1
    BY <1>2, <1>4
  <2> QED BY <1>3, <2>1, <2>2 DEF Cmd
<1>6. CASE k < n
  <2>1. k + 1 \in 1 .. n
    BY <1>2, <1>6
  <2>2. Cmd = Route(Worker(k + 1), Raw)
    BY <1>4, <1>5, <2>1
  <2>3. Cmd.do = "route" /\ Cmd.cage = Worker(k + 1)
    BY <2>2 DEF Route
  <2> QED BY <2>1, <2>3 DEF n
<1>7. CASE k = n
  <2>1. Cmd = Measure(1 .. n, "wide", Self, Bare(NoPolicy), "ok")
    BY <1>4, <1>5, <1>7
  <2>2. Cmd.do = "measure"
    BY <2>1 DEF Measure
  <2> QED BY <1>3, <1>7, <2>1, <2>2 DEF n
<1> QED BY <1>2, <1>6, <1>7

\* In section B.
LEMMA JudgingReady ==
  ASSUME Chainless(Thread), Ungrated(Cage), routes[Self] = Raw, Judging, Cmd.do = "measure"
  PROVE  Ready
<1>1. PICK p \in Imposed(args), x \in {Self, Desc}, says \in Ret :
       /\ Says(p, x, says)
       /\ \/ todo = <<Impose(p), Wide(x, Bare(p), says)>>
          \/ todo = <<Wide(x, Bare(p), says)>> /\ Verified(p) /\ CurrentPolicy = p
  BY DEF Judging
<1>2. todo = <<Wide(x, Bare(p), says)>> /\ Verified(p) /\ CurrentPolicy = p
  <2>1. todo # <<Impose(p), Wide(x, Bare(p), says)>>
    BY FewCommands DEF Cmd, Impose
  <2> QED BY <1>1, <2>1
<1>3. Cmd = Wide(x, Bare(p), says)
  BY <1>2, FewCommands DEF Cmd
<1>4. /\ Cmd.threads = {Main} /\ Cmd.form = "wide" /\ Cmd.target = x /\ Cmd.says = says
      /\ Cmd.under = Bare(CurrentPolicy)
  BY <1>2, <1>3 DEF Wide, Measure
<1>5. p.kind = policyKind /\ p.prog = IF policyKind = "bpf" THEN bpfProg ELSE NoProgram
  BY <1>2 DEF CurrentPolicy
<1>6. /\ says \in {"ok", "EACCES_hook"}
      /\ \A n \in 0 .. NArgs : Permits(p.kind, p.prog, n, CallOf(Main, x)) <=> says = "ok"
  BY <1>1, <1>2 DEF Says
<1>7. \A n \in 0 .. NArgs : Permits(policyKind, bpfProg, n, CallOf(Main, x)) <=> says = "ok"
  BY <1>5, <1>6, PermitsPlain
<1>8. policyKind = "none" => says = "ok"
  <2>1. 0 \in 0 .. NArgs
    BY ConstantsOK
  <2> QED BY <1>7, <2>1 DEF Permits
<1>9. \A t \in Cmd.threads : routes[CallerAt(t, 1)] = Raw
  BY <1>4 DEF CallerAt
<1> QED BY <1>4, <1>6, <1>7, <1>8, <1>9 DEF Ready, Direct

\* In sections D and F.
LEMMA FinishingReady ==
  ASSUME Scripted, Finishing, Measuring
  PROVE  Ready
<1>1. /\ policyKind = "none" /\ Chainless(Thread) /\ Ungrated(Cage \ {Self}) /\ Cmd.do = "measure"
  BY DEF Finishing, Measuring
<1>2. routes[Self] = Raw /\ (todo \in {NarrowRun.cmds, WideRun.cmds} \/ Spreading)
  <2>1. Head(<<Route(Self, Raw)>>).do # "measure" /\ Head(<<Enact(Self), Route(Self, Raw)>>).do # "measure"
    BY FewCommands DEF Route, Enact
  <2> QED BY <2>1 DEF Finishing, Measuring, Cmd
<1>3. Ungrated(Cage)
  BY <1>1, <1>2 DEF Ungrated, Raw
<1>6. CurrentPolicy = NoPolicy
  BY <1>1 DEF CurrentPolicy, NoPolicy, Only
<1>4. CASE todo \in {NarrowRun.cmds, WideRun.cmds}
  <2>1. PICK form \in {"narrow", "wide"} : todo = <<Measure({Main}, form, Self, Bare(NoPolicy), "ok")>>
    BY <1>4 DEF NarrowRun, WideRun, Keep, Wide
  <2>2. Cmd.threads = {Main} /\ Cmd.says = "ok" /\ Cmd.under = Bare(NoPolicy)
    BY <2>1, FewCommands DEF Cmd, Measure
  <2> QED BY <1>1, <1>2, <1>3, <1>6, <2>2 DEF Ready, Direct, CallerAt
<1>5. CASE Spreading
  <2>1. PICK i \in DOMAIN args.threads :
          /\ \A j \in 1 .. args.threads[i] : routes[Worker(j)] = Raw
          /\ Cmd = Measure(1 .. args.threads[i], "wide", Self, Bare(NoPolicy), "ok")
    BY <1>1, <1>5, SpreadingCmd
  <2>2. /\ Cmd.threads = 1 .. args.threads[i] /\ Cmd.says = "ok" /\ Cmd.form = "wide"
        /\ Cmd.under = Bare(NoPolicy)
    BY <2>1 DEF Measure
  <2>3. \A t \in Cmd.threads : CallerAt(t, 1) = Worker(t)
    BY <2>2, HarnessOK DEF CallerAt
  <2> QED BY <1>1, <1>3, <1>6, <2>1, <2>2, <2>3 DEF Ready, Direct
<1> QED BY <1>2, <1>4, <1>5

\* Every measurement finds what its label speaks of.
LEMMA FollowingReady == Scripted /\ Following /\ Measuring => Ready
<1> SUFFICES ASSUME Scripted, Following, Measuring PROVE Ready
  OBVIOUS
<1>1. CASE Starting
  BY <1>1 DEF Starting, Measuring
<1>2. CASE Imposing
  <2>1. Judging /\ routes[Self] = Raw
    <3>1. Head(<<Ncheck(args.ncheck), Route(Self, Raw)>>).do # "measure"
          /\ Head(<<Route(Self, Raw)>>).do # "measure"
      BY FewCommands DEF Route, Ncheck
    <3> QED BY <1>2, <3>1 DEF Imposing, Measuring, Cmd
  <2> QED BY <1>2, <2>1, JudgingReady DEF Imposing, Measuring
<1>3. CASE Stacking
  <2>1. policyKind = "none" /\ Laying /\ Cmd.do = "measure"
    <3>1. Head(<<Impose(NoPolicy)>>).do # "measure"
      BY FewCommands DEF Impose
    <3> QED BY <1>3, <3>1 DEF Stacking, Measuring, Cmd
  <2>2. PICK n \in Heights(args), m \in {PerCall, Cached}, f \in Fptr :
          Laid(n, m, f, n + 2) /\ Cmd = Wide(Self, Behind(m, n, f), Told(f))
    BY <2>1, LayingCmd
  <2>3. n \in Nat
    BY HeightsTyped DEF Scripted
  <2>4. n + 2 # 0 /\ n + 2 > 1 /\ \A i \in 1 .. n : n + 2 > i + 1
    BY <2>3
  <2>5. /\ chain[Main] = m /\ slots[Main] = ChainOf(n) /\ routes[Self] = ToGrate(GrateBase, f)
        /\ \A i \in 1 .. n : routes[GrateBase + i - 1] = NextHop(n, i - 1)
    BY <2>2, <2>4 DEF Laid
  <2>6. /\ Cmd.threads = {Main} /\ Cmd.form = "wide" /\ Cmd.target = Self /\ Cmd.says = Told(f)
        /\ Cmd.under = Behind(m, n, f)
    BY <2>2 DEF Wide, Measure
  <2> QED BY <1>3, <2>1, <2>5, <2>6 DEF Ready, Chained, Stacking
<1>4. CASE Finishing
  BY <1>4, FinishingReady
<1> QED BY <1>1, <1>2, <1>3, <1>4 DEF Following

\* The flat table of a sensible command line has a row for every cage main routes.
LEMMA RowsEnough ==
  ASSUME Scripted, Sensible(args)
  PROVE  /\ HasRow(Self)
         /\ \A n \in Heights(args) : \A i \in 1 .. n : HasRow(GrateBase + i - 1)
         /\ \A i \in DOMAIN args.threads : \A j \in 1 .. args.threads[i] : HasRow(Worker(j))
<1>1. /\ args \in Arguments /\ args.threads \in Seq(Nat) /\ args.grates \in Seq(Nat)
  BY HarnessOK DEF Scripted, Argument
<1>2. /\ Self \in Nat /\ Depth \in Nat /\ First \in Nat /\ MaxCages \in Nat /\ GrateBase \in Nat
      /\ Desc < MaxCages /\ GrateBase < MaxCages
  BY HarnessOK, ConstantsOK
<1>3. HasRow(Self)
  BY <1>2 DEF HasRow, Desc
<1>4. ASSUME NEW n \in Heights(args), NEW i \in 1 .. n PROVE HasRow(GrateBase + i - 1)
  <2>1. n \in Nat
    BY <1>1, HeightsTyped
  <2>2. args.table = "flat" => GrateBase + n <= MaxCages
    BY <1>1, <1>2 DEF Heights, Sensible
  <2> QED BY <1>2, <2>1, <2>2 DEF HasRow
<1>5. ASSUME NEW i \in DOMAIN args.threads, NEW j \in 1 .. args.threads[i] PROVE HasRow(Worker(j))
  <2>1. args.threads[i] \in Nat
    BY <1>1
  <2>2. args.table = "flat" => Worker(args.threads[i]) < MaxCages
    BY DEF Sensible
  <2> QED BY <1>2, <2>1, <2>2 DEF HasRow, Worker
<1> QED BY <1>3, <1>4, <1>5

\* The policies, the NCHECK and the routes main sets.
LEMMA FollowingSets ==
  ASSUME Scripted, Following, todo # <<>>
  PROVE  /\ Cmd.do = "ncheck" => Cmd.n = args.ncheck
         /\ Cmd.do = "policy" => (Sensible(args) => Verified(Cmd.p))
         /\ Cmd.do = "route" => (Sensible(args) => HasRow(Cmd.cage))
<1>1. CASE Starting
  BY <1>1 DEF Starting
<1>2. CASE Imposing
  <2>1. CASE todo = <<Ncheck(args.ncheck), Route(Self, Raw)>>
    BY <2>1, FewCommands DEF Cmd, Ncheck
  <2>2. CASE todo = <<Route(Self, Raw)>>
    BY <2>2, FewCommands, RowsEnough DEF Cmd, Route
  <2>3. CASE Judging
    <3>1. PICK p \in Imposed(args), x \in {Self, Desc}, says \in Ret :
            todo = <<Impose(p), Wide(x, Bare(p), says)>> \/ todo = <<Wide(x, Bare(p), says)>>
      BY <2>3 DEF Judging
    <3>2. CASE todo = <<Impose(p), Wide(x, Bare(p), says)>>
      <4>1. Cmd.do = "policy" /\ Cmd.p = p
        BY <3>2, FewCommands DEF Cmd, Impose
      <4>2. Sensible(args) => Verified(p)
        BY ConstantsOK DEF Sensible, Verified, Imposed, PlainPolicy
      <4> QED BY <4>1, <4>2
    <3>3. CASE todo = <<Wide(x, Bare(p), says)>>
      BY <3>3, FewCommands DEF Cmd, Wide, Measure
    <3> QED BY <3>1, <3>2, <3>3
  <2> QED BY <1>2, <2>1, <2>2, <2>3 DEF Imposing
<1>3. CASE Stacking
  <2>1. CASE todo = <<Impose(NoPolicy)>>
    BY <2>1, FewCommands DEF Cmd, Impose, NoPolicy, Only, Verified
  <2>2. CASE Laying
    BY <2>2, LayingCmd, RowsEnough
  <2> QED BY <1>3, <2>1, <2>2 DEF Stacking
<1>4. CASE Finishing
  <2>1. CASE todo \in {<<Route(Self, Raw)>>, <<Enact(Self), Route(Self, Raw)>>}
    BY <2>1, FewCommands, RowsEnough DEF Cmd, Route, Enact
  <2>2. CASE todo \in {NarrowRun.cmds, WideRun.cmds}
    <3>1. PICK form \in {"narrow", "wide"} : todo = <<Measure({Main}, form, Self, Bare(NoPolicy), "ok")>>
      BY <2>2 DEF NarrowRun, WideRun, Keep, Wide
    <3> QED BY <3>1, FewCommands DEF Cmd, Measure
  <2>3. CASE Spreading
    BY <2>3, SpreadingCmd, RowsEnough
  <2> QED BY <1>4, <2>1, <2>2, <2>3 DEF Finishing
<1> QED BY <1>1, <1>2, <1>3, <1>4 DEF Following

-----------------------------------------------------------------------------
(* Every call is answered as the label says                                *)

LEMMA InitServing == HarnessInit => Serving
<1> SUFFICES ASSUME HarnessInit, NEW t \in Thread
             PROVE  stack[t] = <<>> /\ made[t] = 0 /\ Len(stack[t]) = 0
  BY DEF Serving
<1> QED BY DEF HarnessInit, Init

\* What the frames are said to be does not change during a measurement.
SameMeasurement == UNCHANGED <<args, todo, routes, chain, slots, policyKind>>

LEMMA SameChained == SameMeasurement => (Chained' <=> Chained) /\ Cmd' = Cmd /\ (Measuring' <=> Measuring)
  BY DEF SameMeasurement, Chained, Chainless, Cmd, Measuring, Ungrated

\* It is enough to look at the frame that is innermost after the step.
LEMMA ServingStep ==
  ASSUME Serving, SameMeasurement, NEW t \in Thread, Measuring, t \in Cmd.threads,
         \A u \in Thread \ {t} : stack'[u] = stack[u] /\ made'[u] = made[u] /\ answer'[u] = answer[u],
         NEW n \in Nat, stack'[t] \in Seq(Frame), Len(stack'[t]) = n,
         \A i \in 1 .. n - 1 : i <= Len(stack[t]) /\ stack'[t][i] = stack[t][i],
         Len(stack[t]) \in Nat,
         NEW f, n > 0 => stack'[t][n] = f /\ Fits(t, n, f),
         n = 0 => answer'[t] = Cmd.says
  PROVE  Serving'
<1>1. (Chained' <=> Chained) /\ Cmd' = Cmd /\ (Measuring' <=> Measuring)
  BY SameChained
<1>2. UNCHANGED <<args, todo, routes, chain, slots, policyKind>>
  BY DEF SameMeasurement
<1>3. ASSUME NEW u \in Thread \ {t}
      PROVE  /\ stack'[u] # <<>> \/ made'[u] > 0 => Measuring' /\ u \in Cmd'.threads
             /\ stack'[u] = <<>> /\ made'[u] > 0 => answer'[u] = Cmd'.says
  BY <1>1 DEF Serving
<1>4. ASSUME NEW u \in Thread \ {t}, NEW i \in 1 .. Len(stack'[u])
      PROVE  Fits(u, i, stack[u][i])'
  <2>1. stack'[u] = stack[u] /\ Fits(u, i, stack[u][i])
    BY DEF Serving
  <2> QED BY <1>1, <1>2, <2>1 DEF Fits
<1>5. ASSUME NEW i \in 1 .. n PROVE Fits(t, i, stack[t][i])'
  <2>1. CASE i = n
    <3>1. stack'[t][i] = f /\ Fits(t, i, f)
      BY <2>1
    <3> QED BY <1>1, <1>2, <3>1 DEF Fits
  <2>2. CASE i # n
    <3>1. i \in 1 .. n - 1
      BY <2>2
    <3>2. i \in 1 .. Len(stack[t]) /\ stack'[t][i] = stack[t][i]
      BY <3>1
    <3>3. Fits(t, i, stack[t][i])
      BY <3>2 DEF Serving
    <3> QED BY <1>1, <1>2, <3>2, <3>3 DEF Fits
  <2> QED BY <2>1, <2>2
<1>6. /\ Measuring' /\ t \in Cmd'.threads
      /\ stack'[t] = <<>> => answer'[t] = Cmd'.says
  BY <1>1
<1> QED BY <1>3, <1>4, <1>5, <1>6 DEF Serving

\* The chain a measurement of section C finds.
LEMMA ChainHops ==
  ASSUME Scripted, Chained
  PROVE  \E n \in Heights(args), m \in {PerCall, Cached}, g \in Fptr :
           /\ n \in Nat /\ slots[Main] = ChainOf(n) /\ Cmd.under = Behind(m, n, g)
           /\ routes[Self] = ToGrate(GrateBase, g) /\ Cmd.says = Told(g)
           /\ \A i \in 1 .. n : routes[GrateBase + i - 1] = NextHop(n, i - 1)
  BY HeightsTyped DEF Scripted, Chained

\* The handler a frame looks up, or has looked up, is the leaf or the next grate.
Onward(t, i, h) ==
  /\ Chained /\ t = Main /\ h.kind = "grate" /\ h.grate = CallerAt(t, i + 1)
  /\ \/ h.fptr = "deny" /\ Cmd.says = "EACCES_grate"
     \/ h.fptr # "deny" /\ Cmd.says = "ok"

LEMMA FrameHandler ==
  ASSUME TypeOK, Scripted, Ready, NEW t \in Thread, t \in Cmd.threads, NEW i \in Nat \ {0}, NEW f,
         Fits(t, i, f), f.pc \in {"lookup", "dispatch", "grate"}
  PROVE  /\ routes[f.self] = Hop(i)
         /\ \/ routes[f.self] = Raw /\ Cmd.says = "ok"
            \/ Onward(t, i, routes[f.self])
<1>1. /\ f.self = CallerAt(t, i) /\ Cmd.says # "EACCES_hook"
      /\ i > 1 => Cmd.says = "ok" /\ f.self \in slots[t] /\ Chained
  BY DEF Fits
<1>2. CASE Direct
  <2>1. i = 1
    BY <1>1, <1>2 DEF Direct, Chainless
  <2>2. routes[f.self] = Raw
    BY <1>1, <1>2, <2>1 DEF Direct
  <2>3. Cmd.says = "ok"
    BY <1>1, <1>2 DEF Direct
  <2>4. Hop(i) = Raw
    BY <1>2, <2>1 DEF Direct, Bare, Hop
  <2> QED BY <2>2, <2>3, <2>4
<1>3. CASE Chained
  <2>1. PICK n \in Heights(args), m \in {PerCall, Cached}, g \in Fptr :
           /\ n \in Nat /\ slots[Main] = ChainOf(n) /\ Cmd.under = Behind(m, n, g)
           /\ routes[Self] = ToGrate(GrateBase, g) /\ Cmd.says = Told(g)
           /\ \A j \in 1 .. n : routes[GrateBase + j - 1] = NextHop(n, j - 1)
    BY <1>3, ChainHops
  <2>2. t = Main /\ GrateBase \in Nat
    BY <1>3, ConstantsOK DEF Chained
  <2>5. Cmd.under.grates = n /\ Cmd.under.first = ToGrate(GrateBase, g)
    BY <2>1 DEF Behind
  <2>3. CASE i = 1
    <3>1. f.self = Self /\ CallerAt(t, i + 1) = GrateBase
      BY <1>1, <2>2, <2>3 DEF CallerAt
    <3>2. routes[f.self] = ToGrate(GrateBase, g)
      BY <2>1, <3>1
    <3>3. routes[f.self] = Hop(i)
      BY <2>3, <2>5, <3>2 DEF Hop
    <3> QED BY <1>3, <2>1, <2>2, <3>1, <3>2, <3>3 DEF Onward, ToGrate, Told
  <2>4. CASE i > 1
    <3> DEFINE j == i - 1
    <3>1. f.self = GrateBase + i - 2 /\ f.self \in ChainOf(n) /\ CallerAt(t, i + 1) = GrateBase + i - 1
      <4>1. i + 1 > 1 /\ GrateBase + (i + 1) - 2 = GrateBase + i - 1
        BY <2>2
      <4> QED BY <1>1, <2>1, <2>2, <2>4, <4>1 DEF CallerAt
    <3>2. j \in 1 .. n /\ f.self = GrateBase + j - 1
      BY <2>1, <2>2, <2>4, <3>1 DEF ChainOf
    <3>3. routes[f.self] = NextHop(n, j - 1)
      <4> HIDE DEF j
      <4> QED BY <2>1, <3>2
    <3>4. CASE j < n
      <4>1. routes[f.self] = ToGrate(GrateBase + i - 1, "forward")
        <5>1. j - 1 + 1 < n /\ GrateBase + (j - 1) + 1 = GrateBase + i - 1
          BY <2>2, <3>4
        <5> QED BY <3>3, <5>1 DEF NextHop
      <4>2. i > 1 /\ i <= n /\ i # 1
        BY <2>1, <2>4, <3>4
      <4>3. routes[f.self] = Hop(i)
        BY <2>5, <4>1, <4>2 DEF Hop
      <4> QED BY <1>1, <1>3, <2>2, <2>4, <3>1, <4>1, <4>3 DEF Onward, ToGrate
    <3>5. CASE ~(j < n)
      <4>1. ~(j - 1 + 1 < n)
        BY <3>5
      <4>2. ~(i <= n) /\ i # 1
        BY <2>1, <2>4, <3>5
      <4>3. Hop(i) = Raw
        BY <2>5, <4>2 DEF Hop
      <4> QED BY <1>1, <2>4, <3>3, <4>1, <4>3 DEF NextHop
    <3> QED BY <3>4, <3>5
  <2> QED BY <2>3, <2>4
<1> QED BY <1>2, <1>3 DEF Ready

\* The innermost frame of a call.
LEMMA FrameServed ==
  ASSUME TypeOK, Scripted, Serving, NEW t \in Thread, stack[t] # <<>>
  PROVE  /\ Len(stack[t]) \in Nat \ {0} /\ stack[t] \in Seq(Frame) /\ Top(t) \in Frame
         /\ Measuring /\ t \in Cmd.threads
         /\ Fits(t, Len(stack[t]), Top(t))
<1>1. stack[t] \in Seq(Frame) /\ Len(stack[t]) \in Nat \ {0}
  BY DEF TypeOK
<1>2. Len(stack[t]) \in 1 .. Len(stack[t]) /\ Top(t) = stack[t][Len(stack[t])]
  BY <1>1 DEF Top
<1>3. Fits(t, Len(stack[t]), stack[t][Len(stack[t])])
  BY <1>2 DEF Serving
<1>4. Measuring /\ t \in Cmd.threads
  BY DEF Serving
<1>5. Top(t) \in Frame
  BY <1>1, <1>2, ElementOfSeq
<1> QED BY <1>1, <1>2, <1>3, <1>4, <1>5

\* The innermost frame is replaced.
LEMMA ServingTop ==
  ASSUME Typed, Scripted, Serving, SameMeasurement, NEW t \in Thread, stack[t] # <<>>,
         NEW f \in Frame, SetTop(t, f), Fits(t, Len(stack[t]), f), UNCHANGED <<made, answer>>
  PROVE  Serving'
<1>1. /\ Len(stack[t]) \in Nat \ {0} /\ Measuring /\ t \in Cmd.threads
  BY FrameServed DEF Typed
<1>2. /\ stack' \in [Thread -> Seq(Frame)] /\ Len(stack'[t]) = Len(stack[t])
      /\ \A i \in 1 .. Len(stack[t]) : stack'[t][i] = IF i = Len(stack[t]) THEN f ELSE stack[t][i]
      /\ \A u \in Thread \ {t} : stack'[u] = stack[u]
  BY SetTopStack
<1>3. /\ \A i \in 1 .. Len(stack[t]) - 1 : i <= Len(stack[t]) /\ stack'[t][i] = stack[t][i]
      /\ stack'[t][Len(stack[t])] = f /\ stack'[t] \in Seq(Frame)
  BY <1>1, <1>2
<1> QED BY <1>1, <1>2, <1>3, ServingStep

\* The hook asks about the same ids whichever frame holds them.
LEMMA PermitsAlike ==
  ASSUME NEW kind, NEW prog, NEW n \in Nat, NEW r, NEW q,
         r.self = q.self, r.target = q.target, r.args = q.args
  PROVE  Permits(kind, prog, n, r) <=> Permits(kind, prog, n, q)
<1>1. \A m : Checked(m, r) = Checked(m, q)
  BY DEF Checked
<1> QED BY <1>1 DEF Permits, Accepts

\* The verdict of the hook is the one of the label.
LEMMA LoadKindServed ==
  ASSUME Typed, Scripted, Serving, Ready, NEW t \in Thread, LoadKind(t),
         UNCHANGED <<args, todo, made>>
  PROVE  Serving'
<1> DEFINE e == Top(t)
<1>1. stack[t] # <<>> /\ e.pc = "kind" /\ UNCHANGED <<config, routes, answer, grates>>
  BY DEF LoadKind, At, InCall
<1>2. SameMeasurement /\ UNCHANGED <<made, answer>>
  BY <1>1 DEF SameMeasurement, config, grates
<1>3. e \in Frame /\ Fits(t, Len(stack[t]), e) /\ policyKind \in Kind
  BY <1>1, FrameServed DEF Typed, TypeOK
<1>4. CASE policyKind = "none" /\ Verdict(t, "lookup", "none")
  <2> DEFINE f == [e EXCEPT !.pc = "lookup", !.ret = "none", !.kind = "none", !.n = 0]
  <2>1. SetTop(t, f)
    BY <1>4 DEF Verdict
  <2>2. /\ f \in Frame /\ f.pc = "lookup"
        /\ f.self = e.self /\ f.args = e.args /\ f.target = e.target
    BY <1>3 DEF Frame, Kind
  <2>3. Cmd.says # "EACCES_hook"
    BY <1>4 DEF Ready, Direct, Chained, Told
  <2> HIDE DEF f
  <2>4. Fits(t, Len(stack[t]), f)
    BY <1>3, <2>2, <2>3 DEF Fits
  <2> QED BY <1>1, <1>2, <2>1, <2>2, <2>4, ServingTop
<1>5. CASE policyKind # "none" /\ SetTop(t, [e EXCEPT !.pc = "ncheck", !.kind = policyKind])
  <2> DEFINE f == [e EXCEPT !.pc = "ncheck", !.kind = policyKind]
  <2>1. SetTop(t, f)
    BY <1>5
  <2>2. /\ f \in Frame /\ f.pc = "ncheck" /\ f.kind = policyKind
        /\ f.self = e.self /\ f.args = e.args /\ f.target = e.target
    BY <1>3 DEF Frame
  <2> HIDE DEF f
  <2>3. Fits(t, Len(stack[t]), f)
    BY <1>3, <1>5, <2>2 DEF Fits
  <2> QED BY <1>1, <1>2, <2>1, <2>2, <2>3, ServingTop
<1> QED BY <1>4, <1>5 DEF LoadKind, NoHook

LEMMA LoadNcheckServed ==
  ASSUME Typed, Scripted, Serving, NEW t \in Thread, LoadNcheck(t),
         UNCHANGED <<args, todo, made>>
  PROVE  Serving'
<1> DEFINE e == Top(t)
<1>1. /\ stack[t] # <<>> /\ e.pc = "ncheck" /\ UNCHANGED <<config, routes, answer, grates>>
      /\ ~(ncheck > NArgs)
  BY DEF LoadNcheck, At, InCall, PolicyPanics
<1>2. SameMeasurement /\ UNCHANGED <<made, answer>>
  BY <1>1 DEF SameMeasurement, config, grates
<1>3. e \in Frame /\ Fits(t, Len(stack[t]), e) /\ ncheck \in Nat /\ ncheck <= NArgs
  BY <1>1, FrameServed, ConstantsOK DEF Typed, TypeOK
<1> DEFINE f == [e EXCEPT !.pc = "judge", !.n = ncheck]
<1>4. SetTop(t, f)
  BY DEF LoadNcheck
<1>5. /\ f \in Frame /\ f.pc = "judge" /\ f.kind = e.kind /\ f.n = ncheck
      /\ f.self = e.self /\ f.args = e.args /\ f.target = e.target
  BY <1>3 DEF Frame
<1> HIDE DEF f
<1>6. Fits(t, Len(stack[t]), f)
  BY <1>1, <1>3, <1>5 DEF Fits
<1> QED BY <1>1, <1>2, <1>4, <1>5, <1>6, ServingTop

LEMMA Verdicts ==
  ASSUME Typed, Scripted, Serving, Ready, NEW t \in Thread, stack[t] # <<>>, Top(t).pc = "judge"
  PROVE  /\ Cmd.says \in {"ok", "EACCES_hook"}
         /\ Permits(Top(t).kind, bpfProg, Top(t).n, Top(t)) <=> Cmd.says = "ok"
<1> DEFINE e == Top(t)
<1> DEFINE i == Len(stack[t])
<1>1. e \in Frame /\ Fits(t, i, e) /\ i \in Nat \ {0} /\ t \in Cmd.threads
  BY FrameServed DEF Typed
<1>2. /\ e.kind = policyKind /\ policyKind # "none" /\ e.n \in 0 .. NArgs
      /\ e.self = CallerAt(t, i) /\ (i > 1 => Chained)
      /\ Cmd.form = "wide" => /\ e.args = CallOf(t, Cmd.target).args
                              /\ i = 1 => e.target = CallOf(t, Cmd.target).target
  BY <1>1, ConstantsOK DEF Fits, Frame
<1>3. /\ Cmd.threads = {Main} /\ Cmd.form = "wide" /\ Cmd.says \in {"ok", "EACCES_hook"}
      /\ \A n \in 0 .. NArgs :
           Permits(policyKind, bpfProg, n, CallOf(Main, Cmd.target)) <=> Cmd.says = "ok"
  BY <1>2 DEF Ready, Direct, Chained
<1>4. i = 1 /\ t = Main
  <2>1. ~Chained
    BY <1>2 DEF Chained
  <2>2. t = Main
    BY <1>1, <1>3
  <2>3. i \in Nat \ {0} /\ ~(i > 1)
    BY <1>1, <1>2, <2>1
  <2> HIDE DEF i
  <2> QED BY <2>2, <2>3
<1>5. e.self = Self /\ CallOf(Main, Cmd.target).self = Self
  BY <1>2, <1>4 DEF CallerAt, CallOf
<1>6. Permits(policyKind, bpfProg, e.n, e) <=> Permits(policyKind, bpfProg, e.n, CallOf(Main, Cmd.target))
  <2>1. e.n \in Nat
    BY <1>2
  <2> HIDE DEF e, i
  <2> QED BY <1>2, <1>3, <1>4, <1>5, <2>1, PermitsAlike
<1> QED BY <1>2, <1>3, <1>6

LEMMA JudgeServed ==
  ASSUME Typed, Scripted, Serving, Ready, NEW t \in Thread, Passes(t) \/ Refused(t),
         UNCHANGED <<args, todo, made>>
  PROVE  Serving'
<1> DEFINE e == Top(t)
<1>1. stack[t] # <<>> /\ e.pc = "judge" /\ UNCHANGED <<config, routes, answer, grates>>
  BY DEF Passes, Refused, At, InCall
<1>2. SameMeasurement /\ UNCHANGED <<made, answer>>
  BY <1>1 DEF SameMeasurement, config, grates
<1>3. e \in Frame /\ Fits(t, Len(stack[t]), e)
  BY <1>1, FrameServed DEF Typed
<1>4. /\ Cmd.says \in {"ok", "EACCES_hook"}
      /\ Permits(e.kind, bpfProg, e.n, e) <=> Cmd.says = "ok"
  BY <1>1, Verdicts
<1> DEFINE f(pc, r) == [e EXCEPT !.pc = pc, !.ret = r, !.kind = "none", !.n = 0]
<1>5. \/ Cmd.says = "ok" /\ SetTop(t, f("lookup", "none"))
      \/ Cmd.says = "EACCES_hook" /\ SetTop(t, f("return", "EACCES_hook"))
  BY <1>4 DEF Passes, Refused, Verdict
<1>6. ASSUME NEW pc \in {"lookup", "return"}, NEW r \in {"none", "EACCES_hook"}
      PROVE  /\ f(pc, r) \in Frame /\ f(pc, r).pc = pc /\ f(pc, r).ret = r
             /\ f(pc, r).self = e.self /\ f(pc, r).args = e.args /\ f(pc, r).target = e.target
  BY <1>3 DEF Frame, Ret, Kind
<1> HIDE DEF f
<1>7. CASE Cmd.says = "ok" /\ SetTop(t, f("lookup", "none"))
  <2> DEFINE g == f("lookup", "none")
  <2>1. /\ g \in Frame /\ g.pc = "lookup"
        /\ g.self = e.self /\ g.args = e.args /\ g.target = e.target
    BY <1>6
  <2>2. SetTop(t, g)
    BY <1>7
  <2> HIDE DEF g
  <2>3. Fits(t, Len(stack[t]), g)
    BY <1>3, <1>7, <2>1 DEF Fits
  <2> QED BY <1>1, <1>2, <2>1, <2>2, <2>3, ServingTop
<1>8. CASE Cmd.says = "EACCES_hook" /\ SetTop(t, f("return", "EACCES_hook"))
  <2> DEFINE g == f("return", "EACCES_hook")
  <2>1. /\ g \in Frame /\ g.pc = "return" /\ g.ret = "EACCES_hook"
        /\ g.self = e.self /\ g.args = e.args /\ g.target = e.target
    BY <1>6
  <2>2. SetTop(t, g)
    BY <1>8
  <2> HIDE DEF g
  <2>3. Fits(t, Len(stack[t]), g)
    BY <1>3, <1>8, <2>1 DEF Fits
  <2> QED BY <1>1, <1>2, <2>1, <2>2, <2>3, ServingTop
<1> QED BY <1>5, <1>7, <1>8

\* The handler found is the one the label speaks of.
LEMMA LookupServed ==
  ASSUME Typed, Scripted, Serving, Ready, NEW t \in Thread, Lookup(t),
         UNCHANGED <<args, todo, made>>
  PROVE  Serving'
<1> DEFINE e == Top(t)
<1> DEFINE h == routes[e.self]
<1>1. stack[t] # <<>> /\ e.pc = "lookup" /\ UNCHANGED <<config, routes, answer, grates>>
  BY DEF Lookup, At, InCall
<1>2. SameMeasurement /\ UNCHANGED <<made, answer>>
  BY <1>1 DEF SameMeasurement, config, grates
<1>3. /\ e \in Frame /\ Fits(t, Len(stack[t]), e) /\ TypeOK /\ Len(stack[t]) \in Nat \ {0}
      /\ t \in Cmd.threads
  BY <1>1, FrameServed DEF Typed
<1>4. h # NoHandler /\ h \in Handler \cup {NoHandler}
  <2>1. h = Raw \/ Onward(t, Len(stack[t]), h)
    BY <1>1, <1>3, FrameHandler
  <2>2. e.self \in Id
    BY <1>3 DEF Frame
  <2> QED BY <1>3, <2>1, <2>2 DEF Onward, Raw, NoHandler, TypeOK
<1> DEFINE f == [e EXCEPT !.pc = "dispatch", !.h = h]
<1>5. SetTop(t, f)
  BY <1>4 DEF Lookup
<1>6. /\ f \in Frame /\ f.pc = "dispatch" /\ f.h = h
      /\ f.self = e.self /\ f.args = e.args /\ f.target = e.target
  BY <1>3, <1>4 DEF Frame
<1> HIDE DEF f
<1>7. Fits(t, Len(stack[t]), f)
  BY <1>1, <1>3, <1>6 DEF Fits
<1> QED BY <1>1, <1>2, <1>5, <1>6, <1>7, ServingTop

LEMMA RunLeafServed ==
  ASSUME Typed, Scripted, Serving, Ready, NEW t \in Thread, RunLeaf(t),
         UNCHANGED <<args, todo, made>>
  PROVE  Serving'
<1> DEFINE e == Top(t)
<1>1. /\ stack[t] # <<>> /\ e.pc = "dispatch" /\ e.h.kind = "raw"
      /\ UNCHANGED <<config, routes, answer, grates>>
  BY DEF RunLeaf, At, InCall
<1>2. SameMeasurement /\ UNCHANGED <<made, answer>>
  BY <1>1 DEF SameMeasurement, config, grates
<1>3. /\ e \in Frame /\ Fits(t, Len(stack[t]), e) /\ TypeOK /\ Len(stack[t]) \in Nat \ {0}
      /\ t \in Cmd.threads
  BY <1>1, FrameServed DEF Typed
<1>4. Cmd.says = "ok"
  <2>1. e.h = routes[e.self]
    BY <1>1, <1>3 DEF Fits
  <2>2. Cmd.says = "ok" \/ Onward(t, Len(stack[t]), e.h)
    BY <1>1, <1>3, <2>1, FrameHandler
  <2> QED BY <1>1, <2>2 DEF Onward
<1> DEFINE f == [e EXCEPT !.pc = "return", !.ret = "ok"]
<1>5. SetTop(t, f)
  BY DEF RunLeaf, Return
<1>6. /\ f \in Frame /\ f.pc = "return" /\ f.ret = "ok"
      /\ f.self = e.self /\ f.args = e.args /\ f.target = e.target
  BY <1>3 DEF Frame, Ret
<1> HIDE DEF f
<1>7. Fits(t, Len(stack[t]), f)
  BY <1>1, <1>3, <1>4, <1>6 DEF Fits
<1> QED BY <1>1, <1>2, <1>5, <1>6, <1>7, ServingTop

LEMMA EnterGrateServed ==
  ASSUME Typed, Scripted, Serving, NEW t \in Thread, EnterGrate(t),
         UNCHANGED <<args, todo, made>>
  PROVE  Serving'
<1> DEFINE e == Top(t)
<1>1. /\ stack[t] # <<>> /\ e.pc = "dispatch" /\ UNCHANGED <<config, routes, answer, chain, slots>>
  BY DEF EnterGrate, At, InCall
<1>2. SameMeasurement /\ UNCHANGED <<made, answer>>
  BY <1>1 DEF SameMeasurement, config
<1>3. e \in Frame /\ Fits(t, Len(stack[t]), e)
  BY <1>1, FrameServed DEF Typed
<1> DEFINE f == [e EXCEPT !.pc = "grate"]
<1>4. SetTop(t, f)
  BY DEF EnterGrate, Goto
<1>5. /\ f \in Frame /\ f.pc = "grate" /\ f.h = e.h
      /\ f.self = e.self /\ f.args = e.args /\ f.target = e.target
  BY <1>3 DEF Frame
<1> HIDE DEF f
<1>6. Fits(t, Len(stack[t]), f)
  BY <1>1, <1>3, <1>5 DEF Fits
<1> QED BY <1>1, <1>2, <1>4, <1>5, <1>6, ServingTop

\* A grate that denies is the one whose label says so.
LEMMA InGrate ==
  ASSUME Typed, Scripted, Serving, Ready, NEW t \in Thread, stack[t] # <<>>, Top(t).pc = "grate"
  PROVE  /\ Onward(t, Len(stack[t]), Top(t).h)
         /\ Denies(Top(t)) <=> Cmd.says = "EACCES_grate"
<1> DEFINE e == Top(t)
<1>1. /\ e \in Frame /\ Fits(t, Len(stack[t]), e) /\ TypeOK /\ Len(stack[t]) \in Nat \ {0}
      /\ t \in Cmd.threads /\ FrameOK(e)
  BY FrameServed, TopType DEF Typed
<1>2. e.h = routes[e.self] /\ e.h.kind = "grate"
  BY <1>1 DEF Fits, FrameOK
<1>3. Onward(t, Len(stack[t]), e.h)
  <2>1. e.h = Raw \/ Onward(t, Len(stack[t]), e.h)
    BY <1>1, <1>2, FrameHandler
  <2> QED BY <1>2, <2>1 DEF Raw
<1>4. e.args[1] = Self /\ Self \in Allowlist
  <2>1. t = Main /\ Cmd.form = "wide" /\ Cmd.target = Self
    BY <1>3 DEF Onward, Chained
  <2>2. e.args = [i \in 1 .. NArgs |-> Self]
    BY <1>1, <2>1, MainCall DEF Fits
  <2>3. 1 \in 1 .. NArgs /\ Self \in Self .. (Self + 7)
    BY ConstantsOK, HarnessOK
  <2> QED BY <2>2, <2>3, HarnessOK
<1>5. Denies(e) <=> Cmd.says = "EACCES_grate"
  BY <1>3, <1>4 DEF Onward, Denies
<1> QED BY <1>3, <1>5

LEMMA GrateDeniesServed ==
  ASSUME Typed, Scripted, Serving, Ready, NEW t \in Thread, GrateDenies(t),
         UNCHANGED <<args, todo, made>>
  PROVE  Serving'
<1> DEFINE e == Top(t)
<1>1. /\ stack[t] # <<>> /\ e.pc = "grate" /\ Denies(e) /\ UNCHANGED <<config, routes, answer, chain, slots>>
  BY DEF GrateDenies, At, InCall, LeaveGrate
<1>2. SameMeasurement /\ UNCHANGED <<made, answer>>
  BY <1>1 DEF SameMeasurement, config
<1>3. e \in Frame /\ Fits(t, Len(stack[t]), e) /\ Cmd.says = "EACCES_grate"
  BY <1>1, FrameServed, InGrate DEF Typed
<1> DEFINE f == [e EXCEPT !.pc = "return", !.ret = "EACCES_grate"]
<1>4. SetTop(t, f)
  BY DEF GrateDenies, Return
<1>5. /\ f \in Frame /\ f.pc = "return" /\ f.ret = "EACCES_grate"
      /\ f.self = e.self /\ f.args = e.args /\ f.target = e.target
  BY <1>3 DEF Frame, Ret
<1> HIDE DEF f
<1>6. Fits(t, Len(stack[t]), f)
  BY <1>3, <1>5 DEF Fits
<1> QED BY <1>1, <1>2, <1>4, <1>5, <1>6, ServingTop

LEMMA GrateForwardsServed ==
  ASSUME Typed, Scripted, Serving, Ready, VmctxAccounted, NEW t \in Thread, GrateForwards(t),
         UNCHANGED <<args, todo, made>>
  PROVE  Serving'
<1> DEFINE e == Top(t)
<1> DEFINE g == e.h.grate
<1> DEFINE n == Len(stack[t])
<1> DEFINE f == NewFrame("kind", g, g, e.args)
<1>1. /\ stack[t] # <<>> /\ e.pc = "grate" /\ ~Denies(e) /\ Push(t, f)
      /\ UNCHANGED <<config, routes, answer, chain, slots>>
  BY DEF GrateForwards, At, InCall, Enter, grates
<1>2. SameMeasurement /\ UNCHANGED <<made, answer>>
  BY <1>1 DEF SameMeasurement, config
<1>3. /\ e \in Frame /\ Fits(t, n, e) /\ Onward(t, n, e.h) /\ Cmd.says = "ok"
      /\ n \in Nat \ {0} /\ Measuring /\ t \in Cmd.threads
  <2>1. Cmd.says = "ok"
    BY <1>1, InGrate DEF Onward
  <2> QED BY <1>1, <2>1, FrameServed, InGrate DEF Typed
<1>4. g \in slots[t]
  <2>1. n \in Inside(t) /\ e = stack[t][n]
    BY <1>1, <1>3 DEF Inside, Top
  <2>2. g \in Entered(t)
    BY <2>1 DEF Entered
  <2> QED BY <2>2 DEF VmctxAccounted, Accounted
<1>5. g = CallerAt(t, n + 1) /\ Chained /\ t = Main
  BY <1>3 DEF Onward
<1>6. /\ f.self = g /\ f.args = e.args /\ f.pc = "kind"
  BY DEF NewFrame
<1>7. f \in Frame
  <2>1. g \in Id /\ e.args \in Args
    BY <1>1, GrateForwardsStep
  <2> QED BY <2>1, NewFrameFresh DEF Fresh
<1> HIDE DEF f
<1>8. Fits(t, n + 1, f)
  <2>1. n + 1 > 1 /\ n + 1 # 1
    BY <1>3
  <2>2. Cmd.form = "wide" => e.args = CallOf(t, Cmd.target).args
    BY <1>3 DEF Fits
  <2> QED BY <1>3, <1>4, <1>5, <1>6, <2>1, <2>2 DEF Fits
<1>9. /\ stack'[t] \in Seq(Frame) /\ Len(stack'[t]) = n + 1
      /\ \A i \in 1 .. n : stack'[t][i] = stack[t][i]
      /\ stack'[t][n + 1] = f
      /\ \A u \in Thread \ {t} : stack'[u] = stack[u]
  BY <1>1, <1>7, PushStack
<1> DEFINE m == n + 1
<1>10. /\ m \in Nat /\ m # 0 /\ Len(stack'[t]) = m /\ stack'[t][m] = f /\ Fits(t, m, f)
       /\ \A i \in 1 .. m - 1 : i <= Len(stack[t]) /\ stack'[t][i] = stack[t][i]
  BY <1>3, <1>8, <1>9
<1> HIDE DEF m
<1> QED BY <1>2, <1>3, <1>9, <1>10, ServingStep

LEMMA GrateReturnsServed ==
  ASSUME Typed, Scripted, Serving, NEW t \in Thread, GrateReturns(t),
         UNCHANGED <<args, todo, made>>
  PROVE  Serving'
<1> DEFINE n == Len(stack[t])
<1> DEFINE e == stack[t][n - 1]
<1> DEFINE f == [e EXCEPT !.pc = "return", !.ret = GrateResult(Top(t).ret)]
<1>1. /\ stack[t] # <<>> /\ Top(t).pc = "return" /\ n > 1 /\ Unwind(t, f)
      /\ UNCHANGED <<config, routes, answer, chain, slots>>
  BY DEF GrateReturns, At, InCall, LeaveGrate
<1>2. SameMeasurement /\ UNCHANGED <<made, answer>>
  BY <1>1 DEF SameMeasurement, config
<1>3. /\ Fits(t, n, Top(t)) /\ n \in Nat \ {0} /\ Measuring /\ t \in Cmd.threads
      /\ Top(t) \in Frame /\ stack[t] \in Seq(Frame)
  BY <1>1, FrameServed DEF Typed
<1>4. n - 1 \in 1 .. n
  BY <1>1, <1>3
<1>5. e \in Frame /\ Fits(t, n - 1, e)
  BY <1>3, <1>4, ElementOfSeq DEF Serving
<1>6. Top(t).ret = Cmd.says /\ Cmd.says \in Ret \cup {"none"}
  BY <1>1, <1>3 DEF Fits, Frame
<1>7. /\ f \in Frame /\ f.pc = "return" /\ f.ret = Cmd.says
      /\ f.self = e.self /\ f.args = e.args /\ f.target = e.target
  BY <1>5, <1>6 DEF Frame, GrateResult
<1> HIDE DEF f
<1>8. Fits(t, n - 1, f)
  <2> HIDE DEF e
  <2> QED BY <1>5, <1>7 DEF Fits
<1>9. /\ stack' \in [Thread -> Seq(Frame)] /\ Len(stack'[t]) = n - 1
      /\ \A i \in 1 .. n - 1 : stack'[t][i] = IF i = n - 1 THEN f ELSE stack[t][i]
      /\ \A u \in Thread \ {t} : stack'[u] = stack[u]
  BY <1>1, <1>7, ReturnStack
<1> DEFINE m == n - 1
<1>10. /\ m \in Nat /\ m # 0 /\ Len(stack'[t]) = m /\ stack'[t][m] = f /\ Fits(t, m, f)
       /\ \A i \in 1 .. m - 1 : i <= Len(stack[t]) /\ stack'[t][i] = stack[t][i]
  <2>1. m \in Nat /\ m # 0 /\ \A i \in 1 .. m - 1 : i \in 1 .. n - 1 /\ i # n - 1 /\ i <= n
    <3>1. n \in Nat /\ n > 1
      BY <1>1, <1>3
    <3> HIDE DEF n
    <3> QED BY <3>1
  <2>2. m \in 1 .. n - 1
    BY <1>1, <1>3
  <2> HIDE DEF f, e
  <2> QED BY <1>8, <1>9, <2>1, <2>2
<1>11. stack'[t] \in Seq(Frame)
  BY <1>9
<1> HIDE DEF m
<1> QED BY <1>2, <1>3, <1>9, <1>10, <1>11, ServingStep

LEMMA AnswerServed ==
  ASSUME Typed, Scripted, Serving, NEW t \in Thread, Answer(t),
         UNCHANGED <<args, todo, made>>
  PROVE  Serving'
<1>1. /\ stack[t] # <<>> /\ Top(t).pc = "return"
      /\ answer' = [answer EXCEPT ![t] = Top(t).ret] /\ stack' = [stack EXCEPT ![t] = <<>>]
      /\ UNCHANGED <<config, routes, grates>>
  BY DEF Answer, At
<1>2. SameMeasurement
  BY <1>1 DEF SameMeasurement, config, grates
<1>3. /\ Fits(t, Len(stack[t]), Top(t)) /\ Measuring /\ t \in Cmd.threads
      /\ Len(stack[t]) \in Nat
  BY <1>1, FrameServed DEF Typed
<1>4. Top(t).ret = Cmd.says
  BY <1>1, <1>3 DEF Fits
<1>5. answer \in [Thread -> Ret \cup {"none"}] /\ stack \in [Thread -> Seq(Frame)]
  BY DEF Typed, TypeOK
<1>6. /\ stack'[t] = <<>> /\ answer'[t] = Cmd.says
      /\ \A u \in Thread \ {t} : stack'[u] = stack[u] /\ answer'[u] = answer[u]
  BY <1>1, <1>4, <1>5
<1>7. Len(stack'[t]) = 0 /\ stack'[t] \in Seq(Frame)
  BY <1>6
<1> DEFINE m == 0
<1>8. /\ m \in Nat /\ Len(stack'[t]) = m /\ (m = 0 => answer'[t] = Cmd.says)
      /\ m > 0 => stack'[t][m] = Top(t) /\ Fits(t, m, Top(t))
      /\ \A i \in 1 .. m - 1 : i <= Len(stack[t]) /\ stack'[t][i] = stack[t][i]
  BY <1>6, <1>7
<1>9. \A u \in Thread \ {t} : stack'[u] = stack[u] /\ made'[u] = made[u] /\ answer'[u] = answer[u]
  BY <1>6
<1> HIDE DEF m
<1> QED BY <1>2, <1>3, <1>7, <1>8, <1>9, ServingStep

\* A call is begun.
LEMMA IssueServed ==
  ASSUME Typed, Scripted, Serving, Ready, NEW t \in Thread, Issue(t)
  PROVE  Serving'
<1>1. /\ Measuring /\ t \in Cmd.threads /\ stack[t] = <<>>
      /\ made' = [made EXCEPT ![t] = made[t] + 1] /\ UNCHANGED <<args, plan, todo, current>>
      /\ UNCHANGED <<config, routes, grates, answer>>
  BY DEF Issue, Doing, Measuring, Call, CallNarrow, MayCall, Issued
<1>2. SameMeasurement
  BY <1>1 DEF SameMeasurement, config, grates
<1>3. stack[t] = <<>> /\ Len(stack[t]) = 0 /\ Len(stack[t]) \in Nat /\ made \in [Thread -> 0 .. Reps]
  BY <1>1 DEF Scripted
<1>4. ASSUME NEW f \in Frame, Push(t, f), Fits(t, 1, f) PROVE Serving'
  <2>1. /\ stack'[t] \in Seq(Frame) /\ Len(stack'[t]) = 1 /\ stack'[t][1] = f
        /\ \A u \in Thread \ {t} : stack'[u] = stack[u]
    <3>1. /\ stack' \in [Thread -> Seq(Frame)] /\ Len(stack'[t]) = Len(stack[t]) + 1
          /\ stack'[t][Len(stack[t]) + 1] = f
          /\ \A u \in Thread \ {t} : stack'[u] = stack[u]
      BY <1>4, PushStack
    <3>2. Len(stack[t]) + 1 = 1
      BY <1>3
    <3> QED BY <3>1, <3>2
  <2>2. \A u \in Thread \ {t} : stack'[u] = stack[u] /\ made'[u] = made[u] /\ answer'[u] = answer[u]
    BY <1>1, <1>3, <2>1
  <2> DEFINE m == 1
  <2>3. /\ m \in Nat /\ m # 0 /\ Len(stack'[t]) = m /\ stack'[t][m] = f /\ Fits(t, m, f)
        /\ \A i \in 1 .. m - 1 : i <= Len(stack[t]) /\ stack'[t][i] = stack[t][i]
    BY <1>4, <2>1
  <2> HIDE DEF m
  <2> QED BY <1>1, <1>2, <1>3, <2>1, <2>2, <2>3, ServingStep
<1>5. CASE Cmd.form = "wide" /\ Call(t, CallOf(t, Cmd.target))
  <2> DEFINE r == CallOf(t, Cmd.target)
  <2> DEFINE f == NewFrame("kind", r.self, r.target, r.args)
  <2>1. Push(t, f)
    BY <1>5 DEF Call, Enter
  <2>2. r \in Request
    <3>1. Cmd.target \in Id
      BY <1>1, CommandFields DEF Measuring
    <3> QED BY <3>1, CallTyped, ConstantsOK
  <2>3. f \in Frame
    <3>1. r.self \in Id /\ r.target \in Id /\ r.args \in Args
      BY <2>2 DEF Request, Id
    <3> HIDE DEF r
    <3> QED BY <3>1, NewFrameFresh DEF Fresh
  <2>4. f.self = r.self /\ f.target = r.target /\ f.args = r.args /\ f.pc = "kind"
    BY DEF NewFrame
  <2>5. r.self = CallerAt(t, 1)
    BY DEF CallOf, CallerAt
  <2> HIDE DEF f
  <2>6. Fits(t, 1, f)
    BY <2>4, <2>5 DEF Fits
  <2> QED BY <1>4, <2>1, <2>3, <2>6
<1>6. CASE Cmd.form = "narrow" /\ CallNarrow(t, current)
  <2> DEFINE f == NewFrame("lookup", current, current, [i \in 1 .. NArgs |-> Unpinned])
  <2>1. Push(t, f)
    BY <1>6 DEF CallNarrow
  <2>2. current = Self
    <3>1. ~(Head(todo) = Enact(Self)) /\ todo # <<>>
      BY <1>1 DEF Measuring, Cmd, Enact
    <3>2. todo \notin Seq(WideCommand)
      BY <1>1, <1>6, <3>1 DEF Measuring, Cmd, WideCommand
    <3> QED BY <3>1, <3>2 DEF Scripted, Enacted
  <2>3. f \in Frame
    <3>1. current \in Id /\ Unpinned \in Id
      BY <2>2, Ids DEF Id
    <3>2. [i \in 1 .. NArgs |-> Unpinned] \in Args
      BY <3>1 DEF Args
    <3> QED BY <3>1, <3>2, NewFrameFresh DEF Fresh
  <2>4. f.self = Self /\ f.pc = "lookup"
    BY <2>2 DEF NewFrame
  <2>5. t = Main /\ Cmd.says # "EACCES_hook"
    BY <1>1, <1>6 DEF Ready, Direct, Chained
  <2> HIDE DEF f
  <2>6. Fits(t, 1, f)
    BY <1>6, <2>4, <2>5 DEF Fits, CallerAt
  <2> QED BY <1>4, <2>1, <2>3, <2>6
<1> QED BY <1>5, <1>6 DEF Issue

\* Whoever is in no call is served.
LEMMA IdleServing ==
  ASSUME \A t \in Thread : stack'[t] = <<>> /\ ~(made'[t] > 0)
  PROVE  Serving'
BY DEF Serving

LEMMA NextServing ==
  ASSUME Typed, VmctxAccounted, Scripted, Following, Serving, [HarnessNext]_<<vars, hvars>>
  PROVE  Serving'
<1>1. Measuring => Ready
  BY FollowingReady
<1>2. made \in [Thread -> 0 .. Reps] /\ \A t \in Thread : ~(0 > 0)
  BY DEF Scripted
<1>3. ~Measuring => \A t \in Thread : stack[t] = <<>> /\ ~(made[t] > 0)
  BY DEF Serving
<1>4. ASSUME stack' = stack, answer' = answer, made' = made, SameMeasurement
      PROVE  Serving'
  <2>1. (Chained' <=> Chained) /\ Cmd' = Cmd /\ (Measuring' <=> Measuring)
    BY <1>4, SameChained
  <2> QED BY <1>4, <2>1 DEF Serving, Fits, SameMeasurement
<1>5. CASE UNCHANGED <<vars, hvars>>
  BY <1>4, <1>5 DEF vars, hvars, config, grates, SameMeasurement
<1>6. CASE Begin
  <2>1. ~Measuring /\ stack' = stack /\ made' = made
    BY <1>6 DEF Begin, Measuring, vars
  <2> QED BY <1>3, <2>1, IdleServing
<1>7. CASE ApplyPolicy \/ Arrange \/ SetCurrent
  <2>1. ~Measuring
    BY <1>7 DEF ApplyPolicy, Arrange, SetCurrent, Doing, Measuring
  <2>2. stack' = stack
    BY <1>7 DEF ApplyPolicy, Arrange, SetCurrent, SetPolicy, InstallFilter, SetKind, SetNcheck,
                Register, BuildChain, Teardown, Quiet, vars
  <2>3. made' = made \/ made' = [t \in Thread |-> 0]
    BY <1>7 DEF ApplyPolicy, Arrange, SetCurrent, Advance
  <2> QED BY <1>2, <1>3, <2>1, <2>2, <2>3, IdleServing
<1>8. CASE Measured
  <2>1. /\ \A t \in Cmd.threads : stack[t] = <<>>
        /\ stack' = stack /\ made' = [t \in Thread |-> 0]
    BY <1>8 DEF Measured, AllDone, Advance, vars
  <2>2. \A t \in Thread : stack[t] = <<>>
    BY <2>1 DEF Serving
  <2> QED BY <1>2, <2>1, <2>2, IdleServing
<1>9. CASE Panic
  BY <1>4, <1>9 DEF Panic, vars, config, grates, SameMeasurement
<1>10. ASSUME NEW t \in Thread, Issue(t) PROVE Serving'
  <2>1. Measuring
    BY <1>10 DEF Issue, Doing, Measuring
  <2> QED BY <1>1, <1>10, <2>1, IssueServed
<1>11. ASSUME NEW t \in Thread, InSyscall(t) PROVE Serving'
  <2>1. Step(t) /\ UNCHANGED <<args, todo, made>>
    BY <1>11 DEF InSyscall, hvars
  <2>2. stack[t] # <<>>
    BY <2>1 DEF Step, LoadKind, LoadNcheck, Passes, Refused, PolicyAborts, PolicyPanics, Lookup, RunLeaf,
                EnterGrate, EnterAborts, GrateDenies, GrateForwards, GrateReturns, Answer, At
  <2>3. Ready
    BY <1>1, <2>2 DEF Serving
  <2>4. CASE PolicyAborts(t) \/ EnterAborts(t)
    BY <1>4, <2>1, <2>4 DEF PolicyAborts, EnterAborts, Abort, config, grates, SameMeasurement
  <2>5. CASE LoadKind(t) \/ LoadNcheck(t) \/ Passes(t) \/ Refused(t) \/ Lookup(t) \/ RunLeaf(t)
    BY <2>1, <2>3, <2>5, LoadKindServed, LoadNcheckServed, JudgeServed, LookupServed, RunLeafServed
  <2>6. CASE EnterGrate(t) \/ GrateDenies(t) \/ GrateForwards(t) \/ GrateReturns(t) \/ Answer(t)
    BY <2>1, <2>3, <2>6, EnterGrateServed, GrateDeniesServed, GrateForwardsServed,
       GrateReturnsServed, AnswerServed
  <2> QED BY <2>1, <2>4, <2>5, <2>6 DEF Step
<1> QED BY <1>5, <1>6, <1>7, <1>8, <1>9, <1>10, <1>11 DEF HarnessNext

-----------------------------------------------------------------------------
(* Main keeps the discipline                                               *)

LEMMA InitBehaving == HarnessInit => Behaving
  BY ConstantsOK DEF HarnessInit, Init, Behaving

\* What a measurement finds is wired, if its command line makes sense.
LEMMA ReadyWired ==
  ASSUME Typed, Scripted, Ready, Sensible(args), NEW t \in Thread, t \in Cmd.threads
  PROVE  Wired(t)
<1>1. CASE Direct
  BY <1>1 DEF Direct, Chainless, Ungrated, Wired, Leads
<1>2. CASE Chained
  <2>1. PICK n \in Heights(args), m \in {PerCall, Cached}, g \in Fptr :
           /\ n \in Nat /\ slots[Main] = ChainOf(n)
           /\ routes[Self] = ToGrate(GrateBase, g) /\ Cmd.says = Told(g)
           /\ \A i \in 1 .. n : routes[GrateBase + i - 1] = NextHop(n, i - 1)
    BY <1>2, ChainHops
  <2>2. t = Main /\ Ungrated(Cage \ {Self}) /\ GrateBase \in Nat
    BY <1>2, ConstantsOK DEF Chained
  <2>3. n > 0
    BY <2>1 DEF Heights, Sensible
  <2>4. ASSUME NEW c \in Cage \ {Self} PROVE Leads(t, c, routes[c])
    BY <2>2, <2>4 DEF Ungrated, Leads
  <2>5. Leads(t, Self, routes[Self])
    <3>1. GrateBase \in slots[t]
      BY <2>1, <2>2, <2>3 DEF ChainOf
    <3>2. Self \notin GrateId
      BY Ids, ConstantsOK
    <3> QED BY <2>1, <3>1, <3>2 DEF Leads, ToGrate
  <2>6. ASSUME NEW c \in slots[t] PROVE Leads(t, c, routes[c])
    <3> DEFINE i == c - GrateBase + 1
    <3>1. c \in GrateBase .. (GrateBase + n - 1)
      BY <2>1, <2>2, <2>6 DEF ChainOf
    <3>2. i \in 1 .. n /\ c = GrateBase + i - 1 /\ c \in Int
      BY <2>1, <2>2, <3>1
    <3>3. routes[c] = NextHop(n, i - 1)
      <4> HIDE DEF i
      <4> QED BY <2>1, <3>2
    <3>4. CASE i < n
      <4>1. routes[c] = ToGrate(GrateBase + i, "forward")
        <5>1. i - 1 + 1 < n /\ GrateBase + (i - 1) + 1 = GrateBase + i
          BY <2>1, <2>2, <3>2, <3>4
        <5> HIDE DEF i
        <5> QED BY <3>3, <5>1 DEF NextHop
      <4>2. GrateBase + i \in slots[t] /\ c < GrateBase + i
        BY <2>1, <2>2, <3>2, <3>4 DEF ChainOf
      <4> HIDE DEF i
      <4> QED BY <4>1, <4>2 DEF Leads, ToGrate
    <3>5. CASE ~(i < n)
      <4>1. ~(i - 1 + 1 < n)
        BY <2>1, <2>2, <3>2, <3>5
      <4> HIDE DEF i
      <4> QED BY <3>3, <4>1 DEF NextHop, Raw, Leads
    <3> QED BY <3>4, <3>5
  <2> QED BY <2>4, <2>5, <2>6 DEF Wired
<1> QED BY <1>1, <1>2 DEF Ready

LEMMA NextBehaving ==
  ASSUME Typed, Scripted, Following, Serving, Behaving, [HarnessNext]_<<vars, hvars>>
  PROVE  Behaving'
<1> SUFFICES ASSUME Sensible(args) PROVE (ncheck <= NArgs /\ orderly /\ ~panicked)'
  <2>1. args' = args
    BY MainMoves DEF Typed, Following
  <2> QED BY <2>1 DEF Behaving, Sensible
<1>1. ncheck <= NArgs /\ orderly /\ ~panicked
  BY DEF Behaving
<1>2. Measuring => Ready
  BY FollowingReady
<1>3. ASSUME ~Measuring, stack' = stack PROVE Disciplined'
  BY <1>3 DEF Serving, Disciplined
<1>4. CASE UNCHANGED <<vars, hvars>> \/ Begin \/ SetCurrent \/ Measured
  <2>1. UNCHANGED vars /\ panicked' = panicked
    BY <1>4 DEF Begin, SetCurrent, Measured, hvars
  <2> QED BY <1>1, <2>1 DEF vars, config
<1>5. CASE ApplyPolicy
  BY <1>1, <1>5 DEF ApplyPolicy, SetPolicy, InstallFilter, SetKind
<1>6. CASE Arrange
  <2>1. panicked' = panicked /\ ~Measuring /\ todo # <<>>
    BY <1>6 DEF Arrange, Doing, Measuring
  <2>2. CASE Doing("ncheck") /\ SetNcheck(Cmd.n)
    <3>1. ncheck' = args.ncheck /\ stack' = stack /\ orderly' = (orderly /\ Disciplined')
      BY <2>1, <2>2, FollowingSets DEF Doing, SetNcheck, Quiet
    <3> QED BY <1>1, <1>3, <2>1, <3>1 DEF Sensible
  <2>3. CASE Doing("route") /\ HasRow(Cmd.cage) /\ Register(Cmd.cage, Cmd.h)
    <3>1. ncheck' = ncheck /\ stack' = stack /\ orderly' = (orderly /\ Disciplined')
      BY <2>3 DEF Register, Quiet, config
    <3> QED BY <1>1, <1>3, <2>1, <3>1
  <2>4. CASE BuildChain(Main, Cmd.mode, Cmd.n) \/ Teardown(Main)
    BY <1>1, <2>1, <2>4 DEF BuildChain, Teardown, config
  <2> QED BY <1>6, <2>2, <2>3, <2>4 DEF Arrange
<1>7. CASE Panic
  <2>1. ~(Doing("policy") /\ ~Verified(Cmd.p)) /\ ~(Doing("route") /\ ~HasRow(Cmd.cage))
    BY FollowingSets DEF Doing
  <2>2. ~(Doing("measure") /\ Cmd.threads = {})
    <3> SUFFICES ASSUME Measuring PROVE Cmd.threads # {}
      BY DEF Doing, Measuring
    <3>1. CASE Cmd.threads = {Main}
      BY <3>1
    <3>2. ASSUME NEW i \in DOMAIN args.threads, Cmd.threads = 1 .. args.threads[i]
          PROVE  Cmd.threads # {}
      <4>1. args.threads[i] > 0 /\ args.threads[i] \in Nat
        BY HarnessOK DEF Sensible, Scripted, Argument
      <4>2. 1 \in 1 .. args.threads[i]
        BY <4>1
      <4> QED BY <3>2, <4>2
    <3> QED BY <1>2, <3>1, <3>2 DEF Ready
  <2>3. ~(args.trials = 0)
    BY DEF Sensible
  <2> QED BY <1>7, <2>1, <2>2, <2>3 DEF Panic
<1>8. ASSUME NEW t \in Thread, Issue(t) PROVE (ncheck <= NArgs /\ orderly /\ ~panicked)'
  <2>1. /\ Measuring /\ t \in Cmd.threads
        /\ UNCHANGED <<config, routes, grates, todo, panicked>>
        /\ orderly' = (orderly /\ Disciplined')
    BY <1>8 DEF Issue, Doing, Measuring, Call, CallNarrow, Issued
  <2>2. \A u \in Thread \ {t} : stack'[u] = stack[u]
    <3>1. stack \in [Thread -> Seq(Frame)]
      BY DEF Typed, TypeOK
    <3>2. PICK f : Push(t, f)
      BY <1>8 DEF Issue, Call, CallNarrow, Enter
    <3> QED BY <3>1, <3>2 DEF Push
  <2>3. ASSUME NEW u \in Thread, stack'[u] # <<>> PROVE (ncheck <= NArgs /\ Wired(u))'
    <3>1. u \in Cmd.threads
      BY <2>1, <2>2, <2>3 DEF Serving
    <3>2. Wired(u)
      BY <1>2, <2>1, <3>1, ReadyWired
    <3> QED BY <1>1, <2>1, <3>2 DEF Wired, Leads, config, grates
  <2> QED BY <1>1, <2>1, <2>3 DEF Disciplined, config
<1>9. ASSUME NEW t \in Thread, InSyscall(t) PROVE (ncheck <= NArgs /\ orderly /\ ~panicked)'
  <2>1. UNCHANGED <<config, orderly>>
    BY <1>9 DEF InSyscall, Step, LoadKind, LoadNcheck, Passes, Refused, PolicyAborts, Abort, Lookup,
                RunLeaf, EnterGrate, EnterAborts, GrateDenies, GrateForwards, GrateReturns, Answer,
                InCall
  <2> QED BY <1>1, <1>9, <2>1 DEF InSyscall, hvars, config
<1> QED BY <1>4, <1>5, <1>6, <1>7, <1>8, <1>9 DEF HarnessNext

\* What main does, what its measurements find and what their calls do.
THEOREM ConductTheorem == HarnessSpec => []Conduct
<1>1. HarnessInit => Conduct
  BY InitFollowing, InitServing, InitBehaving DEF Conduct
<1>2. Typed /\ VmctxAccounted /\ Scripted /\ Conduct /\ [HarnessNext]_<<vars, hvars>> => Conduct'
  BY NextFollowing, NextServing, NextBehaving DEF Conduct, Typed
<1> QED BY <1>1, <1>2, ScriptTheorem, ClientTheorem, TypeSafety, Accounting, PTL DEF HarnessSpec

\* Given a sensible command line, main keeps the wiring discipline and the
\* process neither aborts nor panics.
THEOREM CrashTheorem == HarnessSpec => []NoCrash
<1>1. Conduct /\ AbortMeansMisuse => NoCrash
  BY DEF Conduct, Behaving, AbortMeansMisuse, NoCrash
<1> QED BY <1>1, ConductTheorem, ClientTheorem, AbortSafety, PTL

\* Every measurement is made under the policy and the chain its label names, and
\* its calls take the way and get the answer the label has.
THEOREM LabelTheorem == HarnessSpec => []AsLabelled
<1>1. Typed /\ Scripted /\ Conduct => AsLabelled
  <2> SUFFICES ASSUME Typed, Scripted, Conduct, Doing("measure")
               PROVE  /\ CurrentPolicy = Cmd.under.policy
                      /\ \A t \in Cmd.threads :
                           /\ chain[t] = Cmd.under.mode
                           /\ \A i \in 1 .. Len(stack[t]) :
                                stack[t][i].pc \in {"dispatch", "grate"} => stack[t][i].h = Hop(i)
                           /\ made[t] > 0 /\ stack[t] = <<>> => answer[t] = Cmd.says
    BY DEF AsLabelled
  <2>1. Measuring /\ Ready /\ Cmd.threads \subseteq Thread
    BY FollowingReady, CommandFields DEF Doing, Measuring, Conduct, Command
  <2>2. CurrentPolicy = Cmd.under.policy /\ \A t \in Cmd.threads : chain[t] = Cmd.under.mode
    <3>1. CASE Direct
      BY <2>1, <3>1 DEF Direct, Bare, Chainless
    <3>2. CASE Chained
      BY <2>1, <3>2 DEF Chained, Behind, CurrentPolicy, NoPolicy, Only
    <3> QED BY <2>1, <3>1, <3>2 DEF Ready
  <2>3. ASSUME NEW t \in Cmd.threads, NEW i \in 1 .. Len(stack[t]),
               stack[t][i].pc \in {"dispatch", "grate"}
        PROVE  stack[t][i].h = Hop(i)
    <3>1. t \in Thread /\ i \in Nat \ {0}
      BY <2>1
    <3>2. Fits(t, i, stack[t][i])
      BY <3>1 DEF Conduct, Serving
    <3>3. stack[t][i].h = routes[stack[t][i].self]
      BY <2>3, <3>2 DEF Fits
    <3>4. routes[stack[t][i].self] = Hop(i)
      BY <2>1, <2>3, <3>1, <3>2, FrameHandler DEF Typed
    <3> QED BY <3>3, <3>4
  <2>4. \A t \in Cmd.threads : made[t] > 0 /\ stack[t] = <<>> => answer[t] = Cmd.says
    BY <2>1 DEF Conduct, Serving
  <2> QED BY <2>2, <2>3, <2>4
<1> QED BY <1>1, ScriptTheorem, ConductTheorem, ClientTheorem, TypeSafety, PTL
=============================================================================
