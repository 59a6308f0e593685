------------------------------ MODULE Harness ------------------------------
(***************************************************************************)
(* The benchmark's main: the scenarios it measures, as the client of       *)
(* Dispatch it is.  Its program is a sequence of scenarios, each a         *)
(* sequence of commands: set NCHECK or a policy, register a handler, build *)
(* a chain or tear it down, and measure, that is call over and over.       *)
(* `--only' can leave out the scenarios that ask `keep'; what stands       *)
(* between them is done in any case.                                       *)
(*                                                                         *)
(* Left out: the isolated lookups and checks (A and B1) and the set-up     *)
(* costs (E), which work on objects of their own; what is printed.         *)
(***************************************************************************)
EXTENDS Dispatch

CONSTANTS
  Main,       \* the main thread; 1, 2, ... are those a contention scenario spawns
  Self,       \* SELF_CAGE
  Depth,      \* --depth: how far below SELF_CAGE the cage `desc' is
  First,      \* 900, the cage of the first spawned thread
  MaxCages,   \* MAX_CAGES: the rows of the flat handler table
  Arguments,  \* the command lines
  Reps        \* bound: the calls one measurement makes on one thread

Desc      == Self + Depth
Descent   == Self .. Desc
Worker(t) == First + t - 1

\* --ncheck, --trials, --table, --grates and --threads.
Argument == [ncheck : Nat, trials : Nat, table : {"mutex", "dash", "flat"},
             grates : Seq(Nat), threads : Seq(Nat)]

\* The cages are forked one below the other, and SELF_CAGE is granted them all.
ASSUME HarnessOK ==
  /\ Main = 0 /\ Main \in Thread \cap Installer /\ Thread \subseteq Nat
  /\ Self \in Nat /\ Depth \in Nat /\ First \in Nat /\ Reps \in Nat \ {0}
  /\ MaxCages \in Nat /\ Desc < MaxCages /\ GrateBase < MaxCages
  /\ Cage = Descent \cup {Worker(t) : t \in Thread \ {Main}}
  /\ Subtree = [c \in Id |-> IF c \in Descent THEN c .. Desc ELSE {}]
  /\ Granted = [c \in Id |-> IF c = Self THEN Descent ELSE {}]
  /\ Allowlist = Self .. (Self + 7)
  /\ Arguments \subseteq Argument
  /\ \A a \in Arguments : /\ \A i \in DOMAIN a.grates : a.grates[i] <= MaxGrates
                          /\ \A i \in DOMAIN a.threads : 1 .. a.threads[i] \subseteq Thread

\* Main may do anything Dispatch has an operation for; what it does is below.
ASSUME ClientOK ==
  /\ Policies = {p \in Policy : p.kind = "bpf" <=> p.prog # NoProgram}
  /\ {a.ncheck : a \in Arguments} \subseteq Nchecks
  /\ Offers = Id \X Handler
  /\ Requests = Request /\ Current = Cage
  /\ Modes = {PerCall, Cached} /\ Lengths = 0 .. MaxGrates /\ MaxGrates > 0

VARIABLES
  args,      \* the command line
  plan,      \* the scenarios still to come
  todo,      \* the commands of the present one still to do
  made,      \* made[t]: the calls t has begun in the present measurement
  current,   \* the main thread's CURRENT_CAGE
  panicked   \* main has panicked outside of a call, and the process has ended

hvars == <<args, plan, todo, made, current, panicked>>

-----------------------------------------------------------------------------
(* Commands                                                                *)

Ncheck(n)      == [do |-> "ncheck", n |-> n]
Impose(p)      == [do |-> "policy", p |-> p]
Route(c, h)    == [do |-> "route", cage |-> c, h |-> h]
Build(n, mode) == [do |-> "build", n |-> n, mode |-> mode]
Unbuild        == [do |-> "teardown"]
Enact(c)       == [do |-> "current", cage |-> c]

\* A policy other than a filter, and a filter.
Only(kind)      == [kind |-> kind, prog |-> NoProgram]
Filter(name, n) == [kind |-> "bpf", prog |-> [name |-> name, nargs |-> n]]
NoPolicy        == Only("none")

\* What the label of a measurement says it is made under: a policy and no grate,
\* or no policy and a chain of n grates, the first of which is entered at f.
Bare(p)            == [policy |-> p, mode |-> NoChain, grates |-> 0, first |-> Raw]
Behind(mode, n, f) == [policy |-> NoPolicy, mode |-> mode, grates |-> n,
                       first |-> ToGrate(GrateBase, f)]

\* Calls by the given threads, and what the label says of them: they are made
\* under `under' and answered `says'.
Measure(threads, form, target, under, says) ==
  [do |-> "measure", threads |-> threads, form |-> form, target |-> target,
   under |-> under, says |-> says]
Wide(target, under, says) == Measure({Main}, "wide", target, under, says)

Always(cmds) == [optional |-> FALSE, cmds |-> cmds]
Keep(cmds)   == [optional |-> TRUE, cmds |-> cmds]

-----------------------------------------------------------------------------
(* The script                                                              *)

SetUp(a) == <<Always(<<Ncheck(a.ncheck), Route(Self, Raw)>>)>>

\* B: one policy after the other, and none at the end.
HookRun(p, target, says) == Keep(<<Impose(p), Wide(target, Bare(p), says)>>)

\* Fault: the last policy stays unless its reset is asked for.
NoPolicyKept == Keep(<<Impose(NoPolicy)>>)

\* Done in any case.
NoPolicyAgain == Always(<<Impose(NoPolicy)>>)

SectionB(a) ==
  <<HookRun(NoPolicy, Self, "ok"),
    HookRun(Only("subtree_walk"), Self, "ok"), HookRun(Only("subtree_walk"), Desc, "ok"),
    HookRun(Only("subtree_bits"), Self, "ok"), HookRun(Only("subtree_bits"), Desc, "ok"),
    HookRun(Only("grants_hash"), Desc, "ok"), HookRun(Only("grants_bits"), Desc, "ok"),
    HookRun(Filter("allow_all", 0), Desc, "ok"),
    HookRun(Filter("deny_all", 0), Desc, "EACCES_hook"),
    HookRun(Filter("allowlist", 0), Desc, "ok"), HookRun(Filter("allowlist", 0), Desc, "ok"),
    HookRun(Filter("subtree_check", a.ncheck), Desc, "ok"),
    NoPolicyAgain>>

\* Fault: the last grate forwards to one more.
NextHopPast(n, i) == ToGrate(GrateBase + i + 1, "forward")

\* Where the i-th of n grates, counted from 0, forwards to.
NextHop(n, i) == IF i + 1 < n THEN ToGrate(GrateBase + i + 1, "forward") ELSE Raw

\* cage -> grate0 -> ... -> grate(n-1) -> rawposix
Stack(n, mode, f, says) ==
  Keep(<<Build(n, mode), Route(Self, ToGrate(GrateBase, f))>>
       \o [k \in 1 .. n |-> Route(GrateBase + k - 1, NextHop(n, k - 1))]
       \o <<Wide(Self, Behind(mode, n, f), says), Unbuild>>)

SectionC(a) ==
  [i \in 1 .. 2 * Len(a.grates) |->
     Stack(a.grates[(i + 1) \div 2], IF i % 2 = 1 THEN PerCall ELSE Cached, "forward", "ok")]
  \o <<Stack(1, PerCall, "deny", "EACCES_grate"),
       Stack(1, PerCall, "policy_forward", "ok"),
       Always(<<Route(Self, Raw)>>)>>

\* D: the narrow form against the wide one.
SectionD ==
  <<Always(<<Enact(Self), Route(Self, Raw)>>),
    Keep(<<Measure({Main}, "narrow", Self, Bare(NoPolicy), "ok")>>),
    Keep(<<Wide(Self, Bare(NoPolicy), "ok")>>),
    Always(<<Route(Self, Raw)>>)>>

\* F: nt threads, each on a cage of its own.
Contention(nt) ==
  Keep([k \in 1 .. nt |-> Route(Worker(k), Raw)]
       \o <<Measure(1 .. nt, "wide", Self, Bare(NoPolicy), "ok")>>)
SectionF(a) == [i \in DOMAIN a.threads |-> Contention(a.threads[i])]

Script(a) == SetUp(a) \o SectionB(a) \o SectionC(a) \o SectionD \o SectionF(a)

-----------------------------------------------------------------------------
(* Running it                                                              *)

Cmd         == Head(todo)
Doing(name) == ~aborted /\ ~panicked /\ todo # <<>> /\ Cmd.do = name
Advance     == todo' = Tail(todo) /\ made' = [t \in Thread |-> 0]

\* The next scenario, or none of it.
Begin ==
  /\ ~aborted /\ ~panicked /\ todo = <<>> /\ plan # <<>>
  /\ plan' = Tail(plan)
  /\ \/ todo' = Head(plan).cmds
     \/ Head(plan).optional /\ todo' = <<>>
  /\ UNCHANGED <<vars, args, made, current, panicked>>

\* verify() of a built program: it asks about six ids at most.
Verified(p) == p.kind = "bpf" => p.prog.nargs <= NArgs

ApplyPolicy ==
  /\ Doing("policy") /\ Verified(Cmd.p)
  /\ SetPolicy(Main, Cmd.p)
  /\ IF installing'[Main] = NoProgram THEN Advance ELSE UNCHANGED <<todo, made>>
  /\ UNCHANGED <<args, plan, current, panicked>>

\* The flat table is indexed by the cage.
HasRow(c) == args.table = "flat" => c < MaxCages

Arrange ==
  /\ \/ Doing("ncheck") /\ SetNcheck(Cmd.n)
     \/ Doing("route") /\ HasRow(Cmd.cage) /\ Register(Cmd.cage, Cmd.h)
     \/ Doing("build") /\ BuildChain(Main, Cmd.mode, Cmd.n)
     \/ Doing("teardown") /\ Teardown(Main)
  /\ Advance
  /\ UNCHANGED <<args, plan, current, panicked>>

SetCurrent ==
  /\ Doing("current")
  /\ current' = Cmd.cage
  /\ Advance
  /\ UNCHANGED <<vars, args, plan, panicked>>

\* Fault: the cages are counted from the thread after.
CallOfNext(t, target) ==
  LET c == IF t = Main THEN Self ELSE Worker(t + 1)
      x == IF t = Main THEN target ELSE c
  IN  [self |-> c, target |-> x, args |-> [i \in 1 .. NArgs |-> x]]

\* call16: all six argument cage ids are the target.
CallOf(t, target) ==
  LET c == IF t = Main THEN Self ELSE Worker(t)
      x == IF t = Main THEN target ELSE c
  IN  [self |-> c, target |-> x, args |-> [i \in 1 .. NArgs |-> x]]

\* bench calls as often as its clock makes it, and at least once.
Issue(t) ==
  /\ Doing("measure") /\ t \in Cmd.threads /\ made[t] < Reps
  /\ \/ Cmd.form = "narrow" /\ CallNarrow(t, current)
     \/ Cmd.form = "wide" /\ Call(t, CallOf(t, Cmd.target))
  /\ made' = [made EXCEPT ![t] = made[t] + 1]
  /\ UNCHANGED <<args, plan, todo, current, panicked>>

InSyscall(t) == ~panicked /\ Step(t) /\ UNCHANGED hvars

\* All threads are done and, if they were spawned, have been joined.
AllDone == \A t \in Cmd.threads : made[t] > 0 /\ stack[t] = <<>>

Measured ==
  /\ Doing("measure") /\ Cmd.threads # {} /\ AllDone /\ args.trials > 0
  /\ Advance
  /\ UNCHANGED <<vars, args, plan, current, panicked>>

\* A filter that is not verified; a cage the flat table has no row for; n / nt
\* with no thread; samples[0] of no trial.
Panic ==
  /\ \/ Doing("policy") /\ ~Verified(Cmd.p)
     \/ Doing("route") /\ ~HasRow(Cmd.cage)
     \/ Doing("measure") /\ Cmd.threads = {}
     \/ Doing("measure") /\ Cmd.threads # {} /\ AllDone /\ args.trials = 0
  /\ panicked' = TRUE
  /\ UNCHANGED <<vars, args, plan, todo, made, current>>

-----------------------------------------------------------------------------
(* The specification                                                       *)

HarnessInit ==
  /\ Init
  /\ args \in Arguments
  /\ plan = Script(args)
  /\ todo = <<>>
  /\ made = [t \in Thread |-> 0]
  /\ current = 0
  /\ panicked = FALSE

HarnessNext ==
  \/ Begin \/ ApplyPolicy \/ Arrange \/ SetCurrent \/ Measured \/ Panic
  \/ \E t \in Thread : Issue(t) \/ InSyscall(t)

\* The process runs.
HarnessSpec == HarnessInit /\ [][HarnessNext]_<<vars, hvars>> /\ WF_<<vars, hvars>>(HarnessNext)

-----------------------------------------------------------------------------
(* Properties                                                              *)

\* Every variable has its type, those of Dispatch included: the script stays
\* within the cages, chains and policies that exist.
HarnessTypeOK ==
  /\ TypeOK
  /\ args \in Arguments
  /\ made \in [Thread -> 0 .. Reps]
  /\ current \in Cage \cup {0}
  /\ panicked \in BOOLEAN

\* A command line that makes sense: with the flat table, its grates and threads
\* fit the table.
Sensible(a) ==
  /\ a.ncheck <= NArgs /\ a.trials > 0
  /\ \A i \in DOMAIN a.grates : a.grates[i] > 0
  /\ \A i \in DOMAIN a.threads : a.threads[i] > 0
  /\ a.table = "flat" =>
       /\ \A i \in DOMAIN a.grates : GrateBase + a.grates[i] <= MaxCages
       /\ \A i \in DOMAIN a.threads : Worker(a.threads[i]) < MaxCages

\* Given a sensible command line, main keeps the wiring discipline Dispatch
\* relies on and the process neither aborts nor panics, whichever scenarios are
\* left out and whatever handlers and chains the ones before have left behind.
NoCrash == Sensible(args) => orderly /\ ~aborted /\ ~panicked

\* The handler the i-th frame of a measured call goes through, counted from the
\* caller, as the label has it.
Hop(i) == CASE i = 1 -> Cmd.under.first
            [] i > 1 /\ i <= Cmd.under.grates -> ToGrate(GrateBase + i - 1, "forward")
            [] OTHER -> Raw

\* Every scenario measures what its label says: whichever of those before it
\* were left out, the policy in force is the label's, the callers have the chain
\* the label names or none, and each call goes from its caller through the
\* grates the label has and no other, and is answered as the label has it.
AsLabelled ==
  Doing("measure") =>
    /\ CurrentPolicy = Cmd.under.policy
    /\ \A t \in Cmd.threads :
         /\ chain[t] = Cmd.under.mode
         /\ \A i \in 1 .. Len(stack[t]) :
              stack[t][i].pc \in {"dispatch", "grate"} => stack[t][i].h = Hop(i)
         /\ made[t] > 0 /\ stack[t] = <<>> => answer[t] = Cmd.says

\* Given a sensible command line, main gets to the end of its script.
RunsThrough == Sensible(args) ~> (plan = <<>> /\ todo = <<>>)
=============================================================================
