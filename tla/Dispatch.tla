------------------------------ MODULE Dispatch ------------------------------
(***************************************************************************)
(* The make_syscall of the mini-3i, in its 16-argument form (policy hook,  *)
(* handler-table lookup, then the rawposix leaf or a wasm grate that       *)
(* re-enters make_syscall on its own behalf) and in the narrow one.        *)
(*                                                                         *)
(* Calls run on threads and interleave with set_policy, set_ncheck and the *)
(* register_* functions of any other thread.  One step is one access to    *)
(* state that threads share: a relaxed load or store, or the region one    *)
(* lock covers.  A grate chain is thread-local, so entering a grate is one *)
(* step.  A panic anywhere below make_syscall (an extern "C" function)     *)
(* cannot unwind and takes the process down: `aborted'.                    *)
(***************************************************************************)
EXTENDS Integers, Sequences, FiniteSets

CONSTANTS
  Thread,       \* threads that issue system calls
  Installer,    \* threads that call set_policy
  Cage,         \* ids of the cages whose calls the threads issue
  GrateBase,    \* GRATE_BASE: the id of the first grate of a chain
  MaxGrates,    \* bound: the length of the longest chain
  Lengths,      \* the chain lengths build_chain is called with
  NArgs,        \* argument cage ids of the ABI (6 in the code)
  Subtree,      \* Subtree[c]: the ids whose ancestor set holds c (Option 2a)
  Granted,      \* Granted[c]: the ids granted to c (Option 2b)
  Allowlist,    \* the allowlist seeded into every grate's memory
  NoProgram,    \* BPF_PROG holds None
  NoChain,      \* the thread-local CHAIN holds None
  Policies,     \* the policies set_policy is called with
  Nchecks,      \* the numbers set_ncheck is called with
  Offers,       \* the <<cage, handler>> pairs the register_* calls register
  Requests,     \* the calls threads issue
  Current,      \* the cages CURRENT_CAGE names when the narrow form is called
  Modes,        \* the trampoline modes of build_chain
  MaxDenied     \* bound: no call starts once `denied' has reached this

(***************************************************************************)
(* A chain of n holds the grates GrateBase .. GrateBase+n-1.  One more id  *)
(* than the longest chain uses stands for a grate no chain holds, which a  *)
(* handler may name all the same.  Unpinned is the argument cage id of a   *)
(* handler that was registered without any.                                *)
(***************************************************************************)
ChainOf(n) == GrateBase .. (GrateBase + n - 1)
Grate      == ChainOf(MaxGrates)
GrateId    == ChainOf(MaxGrates + 1)
Unpinned   == 0
Id         == Cage \cup GrateId \cup {Unpinned}

Fptr      == {"forward", "deny", "policy_forward"}
NoHandler == [kind |-> "none"]
Raw       == [kind |-> "raw"]
ToGrate(g, f) == [kind |-> "grate", grate |-> g, fptr |-> f]
Handler   == {Raw} \cup [kind : {"grate"}, grate : GrateId, fptr : Fptr]

GrantsKind == {"grants_hash", "grants_bits"}
Kind       == {"none", "bpf", "subtree_walk", "subtree_bits"} \cup GrantsKind

Program == [name : {"allow_all", "deny_all", "allowlist", "subtree_check"}, nargs : 0 .. NArgs]
Policy  == [kind : Kind, prog : Program \cup {NoProgram}]

Args    == [1 .. NArgs -> Id]
Request == [self : Cage, target : Id, args : Args]

PerCall == "per_call"
Cached  == "cached"

\* What a make_syscall frame can return.  Both EACCES are -13 in the code.
Ret == {"ok", "ENOSYS", "EACCES_hook", "EACCES_grate"}

ASSUME ConstantsOK ==
  /\ GrateBase \in Nat /\ MaxGrates \in Nat /\ NArgs \in Nat /\ NArgs >= 2
  /\ Lengths \subseteq 0 .. MaxGrates
  /\ Cage \subseteq Nat /\ Cage \cap GrateId = {}
  /\ Subtree \in [Id -> SUBSET Id] /\ Granted \in [Id -> SUBSET Id]
  /\ NoProgram \notin Program
  /\ NoChain \notin {PerCall, Cached}
  /\ Policies \subseteq Policy /\ Nchecks \subseteq Nat
  /\ \A p \in Policies : p.kind = "bpf" <=> p.prog # NoProgram
  /\ Offers \subseteq Id \X Handler
  /\ Requests \subseteq Request /\ Current \subseteq Cage
  /\ Modes \subseteq {PerCall, Cached}
  /\ MaxDenied \in Nat

VARIABLES
  policyKind,   \* POLICY_KIND
  bpfProg,      \* BPF_PROG
  ncheck,       \* NCHECK
  installing,   \* installing[i]: i is between the two stores of set_policy(Bpf)
  routes,       \* the handler table, one callnum: Id -> Handler or NoHandler
  chain,        \* chain[t]: the mode of t's CHAIN, or NoChain
  slots,        \* slots[t]: the grates of t's CHAIN
  pool,         \* pool[t]: the grates whose vmctx is in t's vmctx_pool
  borrowed,     \* borrowed[t]: the grates whose Store t has borrowed
  stack,        \* stack[t]: t's make_syscall frames, innermost last
  denied,       \* Threei::denied
  answer,       \* answer[t]: what t's last call returned
  aborted,      \* the process has aborted
  (* history, read by properties only *)
  seen,         \* seen[t]: the policies and ncheck values current since the
                \* innermost call of t began, until its verdict
  told,         \* how many calls have been answered EACCES by the hook
  orderly       \* every caller so far has kept to the wiring discipline

config == <<policyKind, bpfProg, ncheck, installing>>
grates == <<chain, slots, pool, borrowed>>
vars   == <<config, routes, grates, stack, denied, answer, aborted, seen, told, orderly>>

-----------------------------------------------------------------------------
(* The policy hook                                                         *)

\* The ids the hook looks at: the target and the first n argument cage ids.
Checked(n, r) == {r.target} \cup {r.args[i] : i \in 1 .. n}

\* What the filter program p answers (module Bpf runs the programs themselves).
\* The hook hands every filter 0 for the call number, which the lists hold.
Accepts(p, r) ==
  \/ p.name \in {"allow_all", "allowlist"}
  \/ p.name = "subtree_check" /\ Checked(p.nargs, r) \subseteq Subtree[r.self]

\* The verdict of policy_ok under the given policy and NCHECK.
Permits(kind, prog, n, r) ==
  \/ kind = "none"
  \/ kind = "subtree_walk" /\ Checked(n, r) \subseteq Subtree[r.self] \cup {r.self}
  \/ kind = "subtree_bits" /\ Checked(n, r) \subseteq Subtree[r.self]
  \/ kind \in GrantsKind   /\ Checked(n, r) \subseteq Granted[r.self] \cup {r.self}
  \/ kind = "bpf"          /\ Accepts(prog, r)

\* The policy in effect.
CurrentPolicy ==
  [kind |-> policyKind, prog |-> IF policyKind = "bpf" THEN bpfProg ELSE NoProgram]

-----------------------------------------------------------------------------
(* Frames                                                                  *)

\* pc: "kind" before POLICY_KIND is loaded, "ncheck" before NCHECK is, "judge"
\* before the relation or the filter is read, "lookup" before the table is,
\* "dispatch" before the handler is called, "grate" inside one, "return" with
\* the result in ret.  What was loaded is in kind, n and h.
Frame == [self : Id, target : Id, args : Args,
          pc : {"kind", "ncheck", "judge", "lookup", "dispatch", "grate", "return"},
          kind : Kind, n : Nat, h : Handler \cup {NoHandler}, ret : Ret \cup {"none"}]

NewFrame(pc, self, target, args) ==
  [self |-> self, target |-> target, args |-> args, pc |-> pc,
   kind |-> "none", n |-> 0, h |-> NoHandler, ret |-> "none"]

Top(t)     == stack[t][Len(stack[t])]
At(t, pc)  == ~aborted /\ stack[t] # <<>> /\ Top(t).pc = pc
SetTop(t, f) == stack' = [stack EXCEPT ![t] = [stack[t] EXCEPT ![Len(stack[t])] = f]]
Goto(t, pc)  == SetTop(t, [Top(t) EXCEPT !.pc = pc])
Return(t, r) == SetTop(t, [Top(t) EXCEPT !.pc = "return", !.ret = r])

Push(t, f) == stack' = [stack EXCEPT ![t] = Append(stack[t], f)]

Unwind(t, f) ==
  stack' = [stack EXCEPT ![t] = [SubSeq(stack[t], 1, Len(stack[t]) - 1) EXCEPT
                                   ![Len(stack[t]) - 1] = f]]

NothingSeen == [policies |-> {}, nchecks |-> {}]

\* The history starts afresh when make_syscall is entered ...
Enter(t, self, target, args) ==
  /\ Push(t, NewFrame("kind", self, target, args))
  /\ seen' = [seen EXCEPT ![t] = [policies |-> {CurrentPolicy}, nchecks |-> {ncheck}]]

\* ... records the configuration until the frame's verdict ...
Undecided(t) == stack[t] # <<>> /\ Top(t).pc \in {"kind", "ncheck", "judge"}
SeePolicy(p) ==
  seen' = [t \in Thread |-> IF Undecided(t)
                              THEN [seen[t] EXCEPT !.policies = seen[t].policies \cup {p}]
                              ELSE seen[t]]
SeeNcheck(n) ==
  seen' = [t \in Thread |-> IF Undecided(t)
                              THEN [seen[t] EXCEPT !.nchecks = seen[t].nchecks \cup {n}]
                              ELSE seen[t]]

\* ... and ends with it, as what was loaded on the way is dropped.
Forget(t) == seen' = [seen EXCEPT ![t] = NothingSeen]
Verdict(t, pc, r) ==
  /\ SetTop(t, [Top(t) EXCEPT !.pc = pc, !.ret = r, !.kind = "none", !.n = 0])
  /\ Forget(t)

\* A panic below make_syscall.
Abort ==
  /\ aborted' = TRUE
  /\ UNCHANGED <<config, routes, grates, stack, denied, answer, seen, told, orderly>>

\* What a step of a call leaves alone, its answer apart.
InCall == UNCHANGED <<config, routes, answer, aborted, told, orderly>>

-----------------------------------------------------------------------------
(* The wiring discipline                                                   *)

\* A handler of caller c leads thread t into its own chain and, if c is a grate,
\* to a later one: "cage -> grate0 -> ... -> grate(n-1) -> rawposix".
Leads(t, c, h) ==
  h.kind = "grate" => h.grate \in slots[t] /\ (c \in GrateId => c < h.grate)

\* What callers owe the trampoline and the hook while they are inside a call.
\* It binds a thread without a chain too: no cage may be routed to a grate then.
Wired(t)    == \A c \in Cage \cup slots[t] : Leads(t, c, routes[c])
Disciplined == \A t \in Thread : stack[t] # <<>> => ncheck <= NArgs /\ Wired(t)

-----------------------------------------------------------------------------
(* set_policy, set_ncheck and the register_* functions                     *)

Quiet == UNCHANGED <<grates, stack, denied, answer, aborted, told>>

\* Fault: the kind is published before the program it needs.
InstallFilterLate(i, p) ==
  /\ ~aborted
  /\ \/ /\ installing[i] = NoProgram
        /\ policyKind' = "bpf"
        /\ installing' = [installing EXCEPT ![i] = p.prog]
        /\ UNCHANGED bpfProg
     \/ /\ installing[i] = p.prog
        /\ bpfProg' = p.prog
        /\ installing' = [installing EXCEPT ![i] = NoProgram]
        /\ UNCHANGED policyKind
  /\ SeePolicy([kind |-> "bpf", prog |-> bpfProg'])
  /\ UNCHANGED <<ncheck, routes, orderly>> /\ Quiet

\* set_policy(Bpf): the program is written under the BPF_PROG lock; then, with
\* the lock released, the kind is stored.
InstallFilter(i, p) ==
  /\ ~aborted
  /\ \/ /\ installing[i] = NoProgram
        /\ bpfProg' = p.prog
        /\ installing' = [installing EXCEPT ![i] = p.prog]
        /\ UNCHANGED policyKind
     \/ /\ installing[i] = p.prog
        /\ policyKind' = "bpf"
        /\ installing' = [installing EXCEPT ![i] = NoProgram]
        /\ UNCHANGED bpfProg
  /\ SeePolicy([kind |-> "bpf", prog |-> bpfProg'])
  /\ UNCHANGED <<ncheck, routes, orderly>> /\ Quiet

\* set_policy of any other policy is one store; the old program stays behind.
SetKind(i, p) ==
  /\ ~aborted /\ installing[i] = NoProgram
  /\ policyKind' = p.kind
  /\ SeePolicy(p)
  /\ UNCHANGED <<bpfProg, ncheck, installing, routes, orderly>> /\ Quiet

SetPolicy(i, p) == IF p.kind = "bpf" THEN InstallFilter(i, p) ELSE SetKind(i, p)

SetNcheck(n) ==
  /\ ~aborted
  /\ ncheck' = n
  /\ SeeNcheck(n)
  /\ UNCHANGED <<policyKind, bpfProg, installing, routes>> /\ Quiet
  /\ orderly' = (orderly /\ Disciplined')

\* register_raw, register_grate: the new handler replaces the old one.
Register(c, h) ==
  /\ ~aborted
  /\ routes' = [routes EXCEPT ![c] = h]
  /\ UNCHANGED <<config, seen>> /\ Quiet
  /\ orderly' = (orderly /\ Disciplined')

-----------------------------------------------------------------------------
(* build_chain and teardown, on a thread that is not inside a call         *)

BuildChain(t, mode, n) ==
  /\ ~aborted /\ stack[t] = <<>>
  /\ chain' = [chain EXCEPT ![t] = mode]
  /\ slots' = [slots EXCEPT ![t] = ChainOf(n)]
  /\ pool' = [pool EXCEPT ![t] = ChainOf(n)]
  /\ borrowed' = [borrowed EXCEPT ![t] = {}]
  /\ UNCHANGED <<config, routes, stack, denied, answer, aborted, seen, told, orderly>>

Teardown(t) ==
  /\ ~aborted /\ stack[t] = <<>> /\ chain[t] # NoChain
  /\ chain' = [chain EXCEPT ![t] = NoChain]
  /\ slots' = [slots EXCEPT ![t] = {}]
  /\ pool' = [pool EXCEPT ![t] = {}]
  /\ borrowed' = [borrowed EXCEPT ![t] = {}]
  /\ UNCHANGED <<config, routes, stack, denied, answer, aborted, seen, told, orderly>>

-----------------------------------------------------------------------------
(* make_syscall                                                            *)

\* A thread that is not inside a call may issue one.
MayCall(t) == ~aborted /\ stack[t] = <<>> /\ denied < MaxDenied
Issued == /\ UNCHANGED <<config, routes, grates, denied, answer, aborted, told>>
          /\ orderly' = (orderly /\ Disciplined')

Call(t, r) ==
  /\ MayCall(t)
  /\ Enter(t, r.self, r.target, r.args)
  /\ Issued

\* make_syscall_narrow: the caller is CURRENT_CAGE, no policy is asked, and the
\* argument cage ids are the handler's: a grate's handler has none pinned (and
\* what a raw handler has pinned only the leaf sees).  That the mutex table may
\* find a grate the pins of a record since replaced is left to HandlerTables.
CallNarrow(t, c) ==
  /\ MayCall(t)
  /\ Push(t, NewFrame("lookup", c, c, [i \in 1 .. NArgs |-> Unpinned]))
  /\ UNCHANGED seen
  /\ Issued

\* Fault: a kind without an arm of its own, which falls to `_ => true'.
NoHookNorArm(kind) == kind \in {"none", "grants_hash"}

\* The kind that passes every call.
NoHook(kind) == kind = "none"

\* policy_ok loads POLICY_KIND; P_NONE passes at once.
LoadKind(t) ==
  /\ At(t, "kind")
  /\ \/ NoHook(policyKind) /\ Verdict(t, "lookup", "none")
     \/ /\ ~NoHook(policyKind)
        /\ SetTop(t, [Top(t) EXCEPT !.pc = "ncheck", !.kind = policyKind])
        /\ UNCHANGED seen
  /\ InCall /\ UNCHANGED <<grates, denied>>

\* policy_ok panics on its slice of the six ids when NCHECK is beyond them, and
\* on a filter that is not there: expect("no filter installed").
PolicyPanics(t) ==
  \/ At(t, "ncheck") /\ ncheck > NArgs
  \/ At(t, "judge") /\ Top(t).kind = "bpf" /\ bpfProg = NoProgram
PolicyAborts(t) == PolicyPanics(t) /\ Abort

\* policy_ok loads NCHECK.
LoadNcheck(t) ==
  /\ At(t, "ncheck") /\ ~PolicyPanics(t)
  /\ SetTop(t, [Top(t) EXCEPT !.pc = "judge", !.n = ncheck])
  /\ InCall /\ UNCHANGED <<grates, denied, seen>>

\* policy_ok reads the relation, or runs the filter under the BPF_PROG lock.
Passes(t) ==
  /\ At(t, "judge") /\ ~PolicyPanics(t)
  /\ Permits(Top(t).kind, bpfProg, Top(t).n, Top(t))
  /\ Verdict(t, "lookup", "none")
  /\ InCall /\ UNCHANGED <<grates, denied>>

Refused(t) ==
  /\ At(t, "judge") /\ ~PolicyPanics(t)
  /\ ~Permits(Top(t).kind, bpfProg, Top(t).n, Top(t))
  /\ denied' = denied + 1
  /\ Verdict(t, "return", "EACCES_hook")
  /\ InCall /\ UNCHANGED grates

\* table.get(self_cageid, syscall_num)
Lookup(t) ==
  /\ At(t, "lookup")
  /\ LET h == routes[Top(t).self]
     IN  IF h = NoHandler
           THEN Return(t, "ENOSYS")
           ELSE SetTop(t, [Top(t) EXCEPT !.pc = "dispatch", !.h = h])
  /\ InCall /\ UNCHANGED <<grates, denied, seen>>

\* HandlerKind::Raw: the leaf runs.
RunLeaf(t) ==
  /\ At(t, "dispatch") /\ Top(t).h.kind = "raw"
  /\ Return(t, "ok")
  /\ InCall /\ UNCHANGED <<grates, denied, seen>>

-----------------------------------------------------------------------------
(* call_grate                                                              *)

\* Fault: a slot index that is not checked.
EnterPanicsUnchecked(t, g) ==
  \/ chain[t] = NoChain
  \/ chain[t] = PerCall /\ g \notin pool[t]
  \/ g \in borrowed[t]

\* No chain; the vmctx is out of the pool (or was never in it); the slot index
\* is out of range; the slot's Store is already borrowed.
EnterPanics(t, g) ==
  \/ chain[t] = NoChain
  \/ chain[t] = PerCall /\ g \notin pool[t]
  \/ chain[t] = Cached /\ g \notin slots[t]
  \/ g \in borrowed[t]

EnterGrate(t) ==
  /\ At(t, "dispatch") /\ Top(t).h.kind = "grate"
  /\ LET g == Top(t).h.grate
     IN  /\ ~EnterPanics(t, g)
         /\ pool' = IF chain[t] = PerCall
                      THEN [pool EXCEPT ![t] = pool[t] \ {g}] ELSE pool
         /\ borrowed' = [borrowed EXCEPT ![t] = borrowed[t] \cup {g}]
  /\ Goto(t, "grate")
  /\ InCall /\ UNCHANGED <<chain, slots, denied, seen>>

EnterAborts(t) ==
  /\ At(t, "dispatch") /\ Top(t).h.kind = "grate"
  /\ EnterPanics(t, Top(t).h.grate)
  /\ Abort

\* Handler 2 denies outright; handler 3 denies a first argument cage id that
\* the allowlist does not hold; any other handler forwards.
Denies(f) == \/ f.h.fptr = "deny"
             \/ f.h.fptr = "policy_forward" /\ f.args[1] \notin Allowlist

\* Fault: the vmctx is not pushed back.
LeaveGrateKeeping(t, g) ==
  /\ borrowed' = [borrowed EXCEPT ![t] = borrowed[t] \ {g}]
  /\ UNCHANGED <<chain, slots, pool>>

\* call_grate's epilogue: the vmctx goes back and the Store borrow ends.
LeaveGrate(t, g) ==
  /\ pool' = IF chain[t] = PerCall
               THEN [pool EXCEPT ![t] = pool[t] \cup {g}] ELSE pool
  /\ borrowed' = [borrowed EXCEPT ![t] = borrowed[t] \ {g}]
  /\ UNCHANGED <<chain, slots>>

GrateDenies(t) ==
  /\ At(t, "grate") /\ Denies(Top(t))
  /\ LeaveGrate(t, Top(t).h.grate)
  /\ Return(t, "EACCES_grate")
  /\ InCall /\ UNCHANGED <<denied, seen>>

\* The grate forwards: make_syscall again, with the grate as caller and target
\* and the caller's arguments.
GrateForwards(t) ==
  /\ At(t, "grate") /\ ~Denies(Top(t))
  /\ Enter(t, Top(t).h.grate, Top(t).h.grate, Top(t).args)
  /\ InCall /\ UNCHANGED <<grates, denied>>

\* Fault: the grate answers for itself.
GrateResultOk(r) == "ok"

\* The wasm handler's last expression is its call of make_syscall.
GrateResult(r) == r

\* Fault: the grate calls again instead of returning.
GrateReturnsNever(t) ==
  /\ At(t, "return") /\ Len(stack[t]) > 1
  /\ stack' = [stack EXCEPT ![t] = SubSeq(stack[t], 1, Len(stack[t]) - 1)]
  /\ InCall /\ UNCHANGED <<grates, denied, seen>>

\* A forwarded call returns into its grate, which returns the same value.
GrateReturns(t) ==
  /\ At(t, "return") /\ Len(stack[t]) > 1
  /\ LET f == stack[t][Len(stack[t]) - 1]
     IN  /\ LeaveGrate(t, f.h.grate)
         /\ Unwind(t, [f EXCEPT !.pc = "return", !.ret = GrateResult(Top(t).ret)])
  /\ InCall /\ UNCHANGED <<denied, seen>>

\* The outermost frame returns to the cage.
Answer(t) ==
  /\ At(t, "return") /\ Len(stack[t]) = 1
  /\ answer' = [answer EXCEPT ![t] = Top(t).ret]
  /\ told' = IF Top(t).ret = "EACCES_hook" THEN told + 1 ELSE told
  /\ stack' = [stack EXCEPT ![t] = <<>>]
  /\ UNCHANGED <<config, routes, grates, denied, aborted, seen, orderly>>

-----------------------------------------------------------------------------
(* The specification                                                       *)

\* The statics as they are declared; an empty table; no chain on any thread.
Init ==
  /\ policyKind = "none" /\ bpfProg = NoProgram /\ ncheck = 2
  /\ installing = [i \in Installer |-> NoProgram]
  /\ routes = [c \in Id |-> NoHandler]
  /\ chain = [t \in Thread |-> NoChain]
  /\ slots = [t \in Thread |-> {}]
  /\ pool = [t \in Thread |-> {}]
  /\ borrowed = [t \in Thread |-> {}]
  /\ stack = [t \in Thread |-> <<>>]
  /\ denied = 0
  /\ answer = [t \in Thread |-> "none"]
  /\ aborted = FALSE
  /\ seen = [t \in Thread |-> NothingSeen]
  /\ told = 0
  /\ orderly = TRUE

\* What a thread does inside a call.
Step(t) ==
  \/ LoadKind(t) \/ LoadNcheck(t) \/ Passes(t) \/ Refused(t) \/ PolicyAborts(t)
  \/ Lookup(t) \/ RunLeaf(t)
  \/ EnterGrate(t) \/ EnterAborts(t)
  \/ GrateDenies(t) \/ GrateForwards(t) \/ GrateReturns(t)
  \/ Answer(t)

Configure ==
  \/ \E i \in Installer, p \in Policies : SetPolicy(i, p)
  \/ \E n \in Nchecks : SetNcheck(n)
  \/ \E o \in Offers : Register(o[1], o[2])

Next ==
  \/ Configure
  \/ \E t \in Thread :
       \/ \E m \in Modes, n \in Lengths : BuildChain(t, m, n)
       \/ Teardown(t)
       \/ \E r \in Requests : Call(t, r)
       \/ \E c \in Current : CallNarrow(t, c)
       \/ Step(t)

Spec == Init /\ [][Next]_vars

\* A thread inside a call is a runnable OS thread: no step of a call waits for
\* another thread beyond a lock that is held for a bounded time.
FairSpec == Spec /\ \A t \in Thread : WF_vars(Step(t))

-----------------------------------------------------------------------------
(* Properties                                                              *)

\* Every variable has its type.
TypeOK ==
  /\ policyKind \in Kind
  /\ bpfProg \in Program \cup {NoProgram}
  /\ ncheck \in Nat
  /\ installing \in [Installer -> Program \cup {NoProgram}]
  /\ routes \in [Id -> Handler \cup {NoHandler}]
  /\ chain \in [Thread -> {PerCall, Cached, NoChain}]
  /\ slots \in [Thread -> SUBSET Grate]
  /\ pool \in [Thread -> SUBSET Grate]
  /\ borrowed \in [Thread -> SUBSET Grate]
  /\ stack \in [Thread -> Seq(Frame)]
  /\ denied \in Nat
  /\ answer \in [Thread -> Ret \cup {"none"}]
  /\ aborted \in BOOLEAN
  /\ seen \in [Thread -> [policies : SUBSET Policy, nchecks : SUBSET Nat]]
  /\ told \in Nat
  /\ orderly \in BOOLEAN

\* The grates whose handler t is inside.
Inside(t) == {i \in 1 .. Len(stack[t]) : stack[t][i].pc = "grate"}
Entered(t) == {stack[t][i].h.grate : i \in Inside(t)}

Accounted(t) ==
  /\ borrowed[t] = Entered(t)
  /\ chain[t] = PerCall => pool[t] = slots[t] \ Entered(t)
  /\ chain[t] = Cached => pool[t] = slots[t]
  /\ chain[t] = NoChain => slots[t] = {} /\ pool[t] = {}
  /\ Entered(t) \subseteq slots[t]
  /\ \A i, j \in Inside(t) : stack[t][i].h.grate = stack[t][j].h.grate => i = j

\* Bookkeeping of the trampoline: a vmctx is out of the pool and a Store is
\* borrowed for exactly the grates a thread is inside, each entered once, on
\* every path out of call_grate and through any number of nested grates.  Were
\* one lost, the next call of that grate would take the process down.
VmctxAccounted == \A t \in Thread : Accounted(t)

\* The process never aborts while its callers keep the discipline: during a call
\* every caller it can go through is routed within the thread's own chain and
\* forwards, and NCHECK counts ids that exist.  In particular no order of
\* set_policy against calls in progress reaches expect("no filter installed").
AbortMeansMisuse == aborted => ~orderly

\* Threei::denied counts the refusals callers are told of: each refusal by the
\* hook, at whatever depth of a grate chain, reaches the outermost caller as
\* EACCES exactly once, and nothing else is counted.
DenialsTold ==
  denied = told + Cardinality({t \in Thread :
                     stack[t] # <<>> /\ Top(t).pc = "return" /\ Top(t).ret = "EACCES_hook"})

\* t's innermost call gets the given verdict from a policy and an NCHECK that
\* were each in force, or were being put in force, during that call.
Judged(t, verdict) ==
  \E p \in seen[t].policies, n \in seen[t].nchecks :
    /\ p.kind = "none" \/ n <= NArgs
    /\ Permits(p.kind, p.prog, n, Top(t)) = verdict

\* The three relaxed reads of policy_ok, however set_policy and set_ncheck
\* interleave with them, never pass or refuse a call that no policy of its
\* time would have passed or refused.
PolicyRespected ==
  [][\A t \in Thread : Undecided(t) =>
       /\ Top(t)'.pc = "lookup" => Judged(t, TRUE)
       /\ Top(t)'.pc = "return" => Judged(t, FALSE)]_vars

\* Seen from its caller a call is one atomic decision: module SyscallService.
Outcome(r) == IF r \in {"EACCES_hook", "EACCES_grate"} THEN "EACCES" ELSE r
Phase(t) == IF stack[t] = <<>> THEN "idle"
            ELSE IF Top(t).pc = "return" THEN Outcome(Top(t).ret) ELSE "pending"

Service == INSTANCE SyscallService WITH
  Errno  <- {"ENOSYS", "EACCES"},
  phase  <- [t \in Thread |-> Phase(t)],
  answer <- [t \in Thread |-> Outcome(answer[t])],
  down   <- aborted

\* However many grates a call goes through, its outcome is decided once and is
\* what the caller gets.
ServiceSpec == Service!Spec

\* Every call ends: with an answer, or with the process.  Grates that call each
\* other in a ring do not recurse for ever.
CallsEnd == \A t \in Thread : stack[t] # <<>> ~> (stack[t] = <<>> \/ aborted)
=============================================================================
