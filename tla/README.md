# A TLA+ verification of threei-dispatch-bench

`threei-dispatch-bench` measures design options for the system-call layer of
lind-wasm ("3i"): a small but complete re-implementation of the 3i dispatch path
(handler tables, policy hook, wasm grates) in Rust, and a harness that times it.
This directory holds TLA+ models of the dispatch path, the TLC configurations that
check them, and TLAPS proofs of what they show, for every value of the constants.

Paths such as `dispatch.rs:148` are relative to `src/src/` of the repository.
`PROJECT.json` maps every definition to the lines it models.

## 1. The system

A *cage* is an isolated process. A cage calls `make_syscall(self, number, target,
six arguments, six argument cage ids)`. That call

1. asks the **policy hook** whether the caller may act on the target and on the first
   `NCHECK` argument cages,
2. looks up who handles this call number for this caller in the **handler table**,
3. and runs the **rawposix leaf**, or enters a **grate**: a wasm module in the role of
   a library OS, which refuses by itself or forwards the call by calling `make_syscall`
   again with itself as caller and target. Grates stack.

| Component | State | Operations | Talks to |
|---|---|---|---|
| Dispatch, `dispatch.rs` | statics `POLICY_KIND`, `NCHECK`, `BPF_PROG` (one lock), counter `denied`; the process itself, since a panic below an `extern "C"` function aborts it | `set_policy`, `set_ncheck`, `policy_ok`, `make_syscall`, `from_grate`, `register_*` | tables, lineage, grants, filter, grates |
| Narrow ABI, `make_syscall_narrow` | thread-local `CURRENT_CAGE` | the same without hook; pins come from the table | tables, grates |
| Grate trampoline, `grate.rs` | thread-local `CHAIN`: slots with a `RefCell<Store>` each, mode, vmctx pool | `build_chain`, `teardown`, `call_grate` | re-enters `make_syscall` |
| Handler tables, `handler.rs` | `MutexNested` (table mutex + `meta` lock), `DashNested` (shards), `Flat` (one lock) | `register`, `get`, `copy_to_cage` | — |
| Lineage, `cage.rs` | `parent`, `depth`, `ancestors`, one lock each | `fork`, `exit`, walk and bitset checks | — |
| Grants, `cage.rs` | `sets`, `bits`, one lock each | `grant`, `revoke`, `inherit`, checks | — |
| Filter machine, `bpf.rs` | a program; `pc` and accumulator of a run | `verify`, `run`, program builders | lineage (helper) |
| Harness, `main.rs`, `timing.rs` | — | sets everything up in order, measures | all |

### What is hard about it

- **Concurrency without one lock.** The hook reads three statics by separate relaxed
  loads while `set_policy` writes two of them; lineage, grants and `MutexNested` keep one
  fact in several structures under different locks; the filter takes the lineage lock
  once per helper call.
- **Re-entrancy.** A grate chain is `make_syscall` on top of `make_syscall` on one stack,
  with a resource taken at each level (vmctx, `Store` borrow). How it ends depends on how
  handlers, which all threads share, are wired.
- **Failure is fatal.** Every `expect`, index and borrow below `make_syscall` is a
  potential abort of the whole process.
- **Legal calls, illegal state.** `fork`, `exit` and `register_*` take whatever they are
  given.

Nothing is persisted and nothing is sent: there is no crash recovery, loss or timeout.

### What makes each part correct

- *Dispatch*: a call is decided once, by a policy of its time, and what was decided
  reaches the caller; nothing aborts while callers keep the wiring discipline.
- *Trampoline*: what is taken on the way in is given back on every way out.
- *Tables*: one target per call number; a lookup never pairs a target with another key's
  pins; the side table catches up with the table.
- *Lineage*: the two representations agree, so that the two policies decide alike;
  a walk ends.
- *Grants*: each flavour is a relation that changes atomically; the two agree wherever
  operations on a cell do not overlap.
- *Composition*: when the leaf acts on an id, the verdict on it still holds if the id
  still is the cage that was asked about; no caller is cut off from its descendants.
- *Harness*: whichever scenarios are left out, each measures what its label says (under
  its policy, through its grates), and nothing crashes on a sensible command line.
- *Filter*: a verified program runs a bounded number of instructions inside its arrays,
  and the built programs decide what their comments say.

## 2. Modules

| Module | Models |
|---|---|
| `SyscallService` | the abstract specification of a call: issued, decided once, answered |
| `Dispatch` | hook, `make_syscall`, `register_*`, chains, trampoline and grates |
| `DispatchProofs`, `DispatchVerdicts` | proofs about `Dispatch`: what a call may do, and what is decided about it and told |
| `Harness`, `HarnessProofs` | `main`'s script, a client of `Dispatch`, which it extends, the proof that it is one, and that its measurements are what their labels say |
| `ForkTree` | the abstract specification of the lineage: an atomic tree |
| `Lineage`, `LineageProofs` | `Lineage` of `cage.rs`, and its proofs |
| `Threei`, `ThreeiProofs` | calls under the subtree policies over `Lineage`, which it extends, and its proofs |
| `GrantRelation` | the abstract specification of one flavour of the grants table |
| `Grants`, `GrantsProofs` | `Grants` of `cage.rs`, both flavours, and its proofs |
| `Bpf`, `BpfProofs` | `bpf.rs`, and its proofs |
| `HandlerTables`, `HandlerTablesProofs` | the three backends of `handler.rs`, and their proofs |
| `MCDispatch`, `MCHarness`, `MCLineage`, `MCThreei`, `MCGrants`, `MCBpf`, `MCHandlerTables` | values of the constants for TLC |

A definition commented "Fault:" is a plausible bug in the code it stands next to. No
specification uses one; with it in place of the definition that follows, TLC finds the
property named for it in `PROJECT.json` violated.

### Dispatch

`stack[t]` is the stack of `make_syscall` frames of thread `t`; `pc` in a frame says
what it does next. One step is one access to shared state:

| Code | Action |
|---|---|
| `set_policy`, `Bpf`: program, then kind | `InstallFilter`, two steps, `installing` between |
| `set_policy`, otherwise; `set_ncheck` | `SetKind`; `SetNcheck` |
| `policy_ok`: load the kind, `P_NONE` returns | `LoadKind` |
| load `NCHECK`, slice | `LoadNcheck`, or `PolicyAborts` |
| read relation or filter; verdict | `Passes`, `Refused` (with `denied.fetch_add`), or `PolicyAborts` |
| `table.get` | `Lookup` |
| leaf | `RunLeaf` |
| `call_grate` up to `func.call` | `EnterGrate`, or `EnterAborts` |
| the wasm handler | `GrateDenies`, `GrateForwards` |
| its return, and the epilogue of `call_grate` | `GrateReturns` (and within `GrateDenies`) |
| return to the cage | `Answer` |
| `make_syscall_narrow` | `CallNarrow`, then from `Lookup` on as above |
| `build_chain`, `teardown` | `BuildChain`, `Teardown` |

Chains are thread-local, so what happens inside `call_grate` between two shared
accesses is one step. Abstracted: the table is one call number wide (a call never
changes its number on the way); a leaf's result is "ok"; lineage and grants are fixed
relations (`Subtree`, `Granted`); a filter is the relation it decides (what filters
decide is `Bpf`'s business). The counter `fetch_add` is merged with the verdict before
it, which only that thread acts on. The wasm engine is taken to find and run the
exported function, as the module always exports it.

`orderly` is history: it stays true while callers do what `main.rs` does. During a call of
thread `t`, every cage and every grate of the chain of `t` has either no handler, the raw
one, or a grate of that chain, a later one if it is a grate itself (`Wired`); and `NCHECK`
counts no more than six ids. It is looked at when a call is issued and when a handler or
NCHECK changes under one (`Disciplined`). The code enforces none of it. `seen` is history
too: the policies and NCHECKs that were current since the innermost call began.

### Harness

`plan` is what is left of `main`'s scenarios, `todo` what is left of the commands of the
present one; a command is one call into `dispatch.rs` or `grate.rs`, taken as the action
of `Dispatch` it is, or a measurement: some calls by the main thread, or by the threads a
contention scenario spawns and joins, each of which then runs through `Dispatch`. `Begin`
leaves out any scenario that asks `keep`, which is more than `--only` with one substring
can; the set-up and the resets between sections always happen. The command line is chosen
at the start, sensible or not. `Panic` is a panic of `main` itself: a filter that does not
verify, a division by no threads, the minimum of no trials, and a registration for a cage
`Flat` has no row for. That table is a vector of `MAX_CAGES` = 1024 rows indexed by the cage
(`handler.rs:183`), so `--table flat` panics with `--threads 125` (`main.rs:458` registers
the cages 900, 901, ...) and with `--grates 925` (`main.rs:290`, grate ids count from 100).

A measurement carries its label: `under` is the policy, the chain and the first handler the
label names, `says` the answer. `AsLabelled` compares them with the state `Dispatch` is in
while the calls run: the policy in force, the chain of each calling thread, the handler
every frame of a call goes through (`Hop`), and the answer. So a permissive policy left
behind, or a grate stack that is still routed to the leaf, violates it although the calls
are answered ok.

### Lineage

One step per lock region: `fork` is `ForkLink`, `ForkRank`, `ForkDepth`, `ForkCopy`;
`exit` is `ExitUnlink`, `ExitClear`; a walk is one `WalkHop` per hop under the parent
lock, which is held shared until the verdict, so `ForkLink` and `ExitUnlink` wait for
walkers. `life` is history, and restricts callers to what processes do: a cage forks
while it is alive, and a child's id belongs to no living cage. `Orphans` (a cage may exit
before its children) and `Reuse` (the id of an exited cage may be forked again) say how
much further callers may go. The code excludes neither.

`ForkTree` is what this amounts to without orphans: a fork takes effect when it sets the
child's bits, an exit when it unlinks the cage, and a walk when it has its verdict. About
an id that is not living at that moment a walk may say anything.

### Threei

A call is `Make`, then one question (`walk`, `bits`) or one per id (the filter's) until the
verdict, then `Finish`, all of them steps between which other threads fork and exit any
cage, the caller too. A walk is `Lineage`'s own `WalkStart` and `WalkHop`. The rest of a
call (lookup, grates) is in `Dispatch` and touches no lineage. `gone[t]` is history: the
ids whose cage has exited since the call began. Without it in `LeafInside`, TLC shows what
is not guaranteed: 1 acts on its child 2, which exits after the verdict and is forked anew
from 0 before the leaf runs.

### Grants

`grant` and `revoke` are `EditSet` then `EditBits`; `inherit` is `InheritRead`,
`InheritWrite`, `InheritReadBits`, `InheritWriteBits`; a check is one step under one read
lock. Callers are restricted in one way: no one else uses a row while `inherit` fills it,
as its cage is only being forked. Two edits of the same cell, or an edit of the parent
during `inherit`, may overlap, and then the flavours may come to differ for good: `clash`
is the history of those cells.

### Bpf

One step per instruction, as another thread may fork or exit between two helper calls
(`Relate`). `Panic` is every out-of-bounds index `run` and the helper can reach. `ticks`
counts instructions, `seen` the lineages of a run; both are history. `BitAnd` is a
parameter, given by the `Bitwise` module in TLC's runs.

### HandlerTables

One step per lock region: `register` of `MutexNested` is `Register` then `Note`, its `get`
is `Lookup` then `ReadMeta`; `copy_to_cage` of `DashNested` is `CopyToCage` then `Insert`.
The others are one step each. `own`, `raced` and `known` are history.

## 3. Runs

| Run | Instance | States | Shows |
|---|---|---|---|
| `dispatch_chain` | 1 thread, 1 installer, chains of 1 and 2 grates, both modes, 7 registrations in any order, wide and narrow calls | 103 thousand | `TypeOK`, `VmctxAccounted`, `AbortMeansMisuse`, `DenialsTold`; implements `SyscallService`; calls end |
| `dispatch_policy` | 2 threads, 1 installer, 3 policies, NCHECK 0, 2 and out of range | 298 thousand | `PolicyRespected`, `AbortMeansMisuse` |
| `harness` | `main`'s script, 2 spawned threads, chains of up to 2 grates, 8 command lines, 5 of them senseless | 46 thousand | `NoCrash`, `AsLabelled`, `RunsThrough` |
| `lineage_orderly` | 2 threads, 4 cages, `Reuse`, depth up to 3 | 265 thousand | `BitsAreAncestors`, `DepthIsRank`, `WalkMatchesBits`, `WalkReturns`; implements `ForkTree` |
| `threei` | 2 threads, 3 cages, `Reuse`, 4 calls, 4 policies | 229 thousand | `LeafInside`, `DescendantsServed`, `CallsReturn` |
| `grants_race` | 2 threads, a parent, its child and a target | 784 thousand | `FlavoursAgree`, `EditsTake`; each flavour implements `GrantRelation` |
| `bpf_filter` | all programs of up to 3 of 9 instructions, and the built ones; 4 cages, 3-bit words | 6.6 thousand | `BoundedExecution`, `VerifiedStaysInside`, `SubtreeCheckFaithful`, `RunsEnd` |
| `tables_race` | 3 backends, 2 threads, 2 cages, 2 handlers | 417 thousand | `OneTarget`, `NoForeignArgs`, `SettledPins` |
| `lineage_orphans` | 1 thread, `Orphans` | violation | finding 1 |
| `lineage_recycled` | 1 thread, `Orphans`, `Reuse` | violation | finding 2 |
| `bpf_allowlist` | allowlists of one number | violation | finding 3 |
| `tables_narrow` | `MutexNested`, 1 thread | violation | finding 4 |

Why the bounds are enough:

- *dispatch_chain.* Two grates are the fewest with a ring, a chain and a handler left
  over from a longer chain (the id `GrateBase + 2`). One thread is enough because chains
  and stacks are thread-local: another thread only matters through its registrations and
  policies, which interleave here anyhow. `MaxDenied = 1` bounds the counter; a call may
  still start when nothing has been refused yet, and a refusal can occur at any level of it.
- *dispatch_policy.* Between two reads of one call the kind, the filter and NCHECK can
  each change more than once. The caller's request is one that the three policies judge
  differently depending on NCHECK, so every mixture would show. No grates: the hook reads
  the same three statics at every level.
- *lineage_orderly.* Four cages give chains of three hops, siblings, and an id reused at
  another depth; the two threads give every overlap of two operations. `MaxDepth` is the
  number of cages minus one, and so does not cut anything off.
- *harness.* Grate lists `1,2` and `2,1` leave behind handlers of a longer and of a shorter
  chain; two calls per measurement are one after the first. Three command lines are
  sensible, one for each table; the senseless ones are `--ncheck` beyond the ids,
  `--trials 0`, `--grates 0`, `--threads 0`, and `--table flat` with a thread too many:
  `MaxCages` is 901 here, so that the cage 900 of the first thread has the last row.
- *threei.* Three cages are a caller, a descendant that can exit and be forked again
  elsewhere, and the elsewhere. One argument id makes the filter ask twice, in both
  orders of target and argument. The second thread does whatever the first one's call
  can be overtaken by.
- *grants_race.* Two threads are the two sides of an overlap; the edits are two cells of
  one row and the same cell of parent and child. Threads are interchangeable (symmetry);
  the temporal formulas of the run are safety properties.
- *bpf_filter.* Three instructions are enough for a load, a helper and a jump with
  both targets, with every off-by-one at the end of a program; `SubtreeCheck` has up
  to 13 instructions (three arguments are one too many for `NArgs = 2`, so the
  verifier refuses it). Lengths beyond that are covered by the proofs.
- *tables_race.* Two threads are the two sides of every race in the module; two cages are
  a source and a target of a copy. Records differ in kind, id, function and pins. Threads
  are interchangeable (symmetry); no property of the run is temporal.

`CHECK_DEADLOCK FALSE` appears in the `Dispatch` and `Bpf` configurations, where the
process may abort and then nothing happens any more, and in `Harness`, which ends. The
other modules never stop, and TLC checks that.

### Fairness

Weak fairness per thread, on the steps inside a call (`Dispatch`), past the first lock of
an operation (`Lineage`), inside a call or an operation (`Threei`), and of the interpreter
(`Bpf`); in `Harness`, whose runs are all finite, that the process runs. It says that a runnable thread
is scheduled: in `Dispatch` and `Bpf` no step inside waits for another thread for longer
than a short lock region. In `Lineage` only the first step of a fork or exit, which is not
under fairness, waits for walkers. No fairness is assumed of callers, of `set_policy`, or
of starting anything.

### Findings

1. **`lineage_orphans`**: after 0 forks 1, 1 forks 2 and 1 exits, cage 2 still carries the
   bit of 0 while its pointers end at 1. `cage.rs:24` says the bits are the ancestors. The
   policies `SubtreeWalk` and `SubtreeBits` then decide differently for 2.
2. **`lineage_recycled`**: if 2 now forks a cage with the free id 1, the pointers of 1 and
   2 form a ring, and a walk towards an outside root never ends, with the parent lock held.
   `cage.rs:61` calls the walk O(depth).
3. **`bpf_allowlist`**: the last comparison of `prog_syscall_allowlist` falls through into
   `Ret(ALLOW)`; the filter allows every number, where `bpf.rs:131` says "deny otherwise".
   `AllowlistTheorem` says so of lists of any length.
4. **`tables_narrow`**: `MutexNested::get` returns zeros as pins of a raw handler, where
   `dispatch.rs:273` says that all six come from the registration record. Only `Flat` keeps
   them.

## 4. Proofs

Everything below holds for all values of the constants that satisfy the named
assumptions, and TLC evaluates these on the instances of section 3.

- `ConstantsOK` (`Dispatch`), `LineageOK`, `GrantsOK`, `BpfOK` and `InputsOK` (`Bpf`),
  `TablesOK` type the constants, and say: grate ids are not cage ids; only `Bpf` policies
  come with a program; the root is a cage; 0 and 1 are words, and `BitAnd` is closed on
  words; a cage is not forked from itself; a handler is raw just if its grate id is the
  leaf's; and the values that stand for "none" are not values of the other kind.
- `ThreeiOK`: requests name cages and have at least `NCHECK` argument ids; every set of
  ids a call may ask about is a question `Lineage` allows.
- `HarnessOK` and `ClientOK`: the cages, the relations and the lists of the command line
  are those `main` makes, and the ids of cages and of the first grate have a row in the flat
  table, as far as no list of the command line exceeds it. With `ConstantsOK` this leaves
  out a `--depth` of 99 or more, whose cages would have the ids of grates, and with spawned
  threads stacks of 800 grates or more, which would run into the cages 900, 901, ...; the inputs of `Dispatch` are all those it has operations for, so
  that what `main` does is up to its script alone.

| Theorem | Property | Argument |
|---|---|---|
| `DispatchProofs!TypeCorrect` | `TypeOK` | `Typed` adds the shape of stacks: every frame but the innermost is inside a grate, and a frame inside one names a grate of the chain |
| `DispatchProofs!Accounting` | `VmctxAccounted` | inductive with `Typed`; one lemma per way the stack changes |
| `DispatchProofs!AbortSafety` | `AbortMeansMisuse` | `FilterThere`: whoever may ask for the filter finds one, since it is written before the kind is published and never removed. `Discipline`: while `orderly`, the frames of a stack name grates of the thread's own chain, in ascending order, so no grate is missing and none is entered twice |
| `DispatchVerdicts!VerdictTheorem` | `PolicyRespected` | `Witnesses`: what a call has loaded so far was current at some time of the call; the verdict step turns that into the two witnesses |
| `DispatchVerdicts!DenialTheorem` | `DenialsTold` | `Counted`: `denied` is what callers have been told and the cardinality of the set of threads about to tell. `StepSummary` reduces every step to what it does to the ending of one call |
| `DispatchVerdicts!ServiceTheorem` | `ServiceSpec` (refinement) | the same summary: a verdict decides a call that is pending, an answer is what was decided, and everything else is a stutter |
| `HarnessProofs!ClientTheorem` | — | `HarnessSpec => Spec`: what is proved of `Dispatch` holds of the process `main` runs. `Scripted` types the commands; its part `Enacted` says that no narrow measurement comes before `CURRENT_CAGE` is set, whatever scenarios are left out |
| `HarnessProofs!HarnessTypes` | `HarnessTypeOK` | from `Scripted` and `TypeCorrect` |
| `HarnessProofs!CrashTheorem` | `NoCrash` | `AbortSafety` leaves it to show that a sensible command line keeps `orderly` and does not make `main` panic. `Following` says which handlers, chain and policy the scenarios so far have left, whichever of them were left out; so every measurement finds the leaf or a complete chain (`Ready`), which is wired (`ReadyWired`), and `main` registers handlers only when no call is in progress. The routes still to do stay within the flat table, since the lists of a sensible command line do |
| `HarnessProofs!LabelTheorem` | `AsLabelled` | `Ready`: a measurement finds the policy, chain and handlers its label names. `Serving`: each frame of a measured call is that of the next grate of the label's chain, or of the cage itself, has the ids of the call, has looked up the label's handler, and has got from the hook and the grates what the label says |
| `LineageProofs!LineageTypes` | `TypeOK` | inductive by itself |
| `LineageProofs!Agreement` | `WalkMatchesBits`, if `~Orphans` | `Tree`: living cages form a tree, and a child's set is its parent's and itself. `Ways`: a walk holds the parent lock, so the root it looks for stays in or out of the sets along its way |
| `LineageProofs!RankTheorem` | `DepthIsRank`, if `~Orphans` | `Ranks`: a fork carries its parent's depth plus one, and a depth never changes while its cage lives |
| `LineageProofs!BitsTheorem` | `BitsAreAncestors`, if `~Orphans` | `Reached`: a living cage's set is the least set that has the cage and is closed under parent pointers |
| `LineageProofs!TreeTheorem` | `TreeSpec` (refinement), if `~Orphans` | each step is that of `ForkTree` or a stutter, by `Tree` and `Ways`; a walk's verdict needs `Ways` also for cages being forked |
| `ThreeiProofs!Composes` | — | `ThreeiSpec => Spec` of `Lineage`: the calls do nothing to the lineage but walk, so the theorems above hold in the composition |
| `ThreeiProofs!CallTypes` | `CallTypeOK` | inductive with: a call asks about its own ids only |
| `ThreeiProofs!LeafTheorem` | `LeafInside`, if `~Orphans` | `Knows`: an id found inside is that of a cage below the caller, now or as soon as its fork is complete, until it begins to exit, which `gone` notes |
| `ThreeiProofs!ServedTheorem` | `DescendantsServed`, if `~Orphans` | `Knows`: an id that was below the caller when the call began stays below it until it begins to exit, so no question about it is answered no before |
| `GrantsProofs!TypeTheorem` | `TypeOK` | inductive by itself |
| `GrantsProofs!AgreeTheorem` | `FlavoursAgree` | `Apart`: no other operation uses a row that is being inherited. `Doubts`: operations that overlap on a cell both know. `Certain`: about any other cell, an operation knows what the hash set holds, and its write of the bits makes them agree |
| `GrantsProofs!EditsTheorem` | `EditsTake` | `Certain`: an edit nobody overlapped finds, when it is done, both flavours as it wrote them |
| `GrantsProofs!SetsTheorem`, `BitsTheorem` | `SetsSpec`, `BitsSpec` (refinements) | the write of each flavour is the step of `GrantRelation`, and for `inherit` already the read: `May` gives the child the row from then on, which nobody can tell by `Apart` |
| `HandlerTablesProofs!TypeTheorem` | `TypeOK` | `Types`: a row has for each call number nothing or what its backend keeps of one record |
| `HandlerTablesProofs!OneTheorem` | `OneTarget` | from `Types`; a copied row, read in one lock region and written in another, is still one |
| `HandlerTablesProofs!SourceTheorem` | `NoForeignArgs` | `Sourced`: whatever carries argument ids carries ids known at its key |
| `HandlerTablesProofs!PinTheorem` | `SettledPins` | `CaughtUp`: of registrations of a key that did not overlap, one has still to note its record in the side table, and it is the one the table holds. Keys whose registrations overlapped, or that a row was copied over, are not settled: their two records may differ for good |
| `BpfProofs!FilterTypes` | `TypeOK` | with `Sound` |
| `BpfProofs!Bounded` | `BoundedExecution` | `Sound`: `ticks <= pc - 1`, as jumps only go forward |
| `BpfProofs!Contained` | `VerifiedStaysInside` | `Sound`: `pc` stays inside, since the verifier checked every jump and the last instruction is a `Ret` |
| `BpfProofs!Faithful` | `SubtreeCheckFaithful` | `Checking`: what a run has found out about the k-th id at each of its four instructions, for any number of ids |
| `BpfProofs!AllowlistTheorem` | — | `AllowlistNeverDenies`: nothing in an allowlist leads to its `Ret(DENY)`, so no list of any length denies, and cutting offsets to a byte does no harm. It is finding 3 for every list |
| `BpfProofs!BuiltVerified` | — | the verifier takes the built programs if they fit; of the subtree filters those, and only those, with at most `NArgs` arguments |

`~Orphans` is not a convenience: without it findings 1 and 2 refute the properties.

`Following`, on which `CrashTheorem` and `LabelTheorem` rest, goes by stages: before section B, in it, in C, and
after it. A plan of a stage is any sequence of the stage's scenarios up to the one, done in
any case, that ends it (`Before`), so the proof is about scenarios and their commands, not
about positions in the script, and holds for lists of any length on the command line.

Every safety invariant and action property that a run checks is proved, those under
`~Orphans` for lineages without orphans. Only model-checked: `CallsEnd`, `CallsReturn`, `RunsThrough`,
`WalkReturns` and `RunsEnd`, as liveness under fairness and ENABLED are beyond the prover.
No module uses RECURSIVE operators; `Upward` of `Lineage` and `May` of `Grants` are not
recursive either, and so can be reasoned about. `Bitwise` is only used by `MCBpf`, which no
proof reaches.

## 5. Not modelled

- `raw_leaf`'s arithmetic (a served call may return -13 or -38 by chance), `set_leaf`.
- Ids outside the tables, except as the filter's `Stranger` and as the cages and grates
  `main` registers in the flat table. What other ids of 1024 or more do to the lineage, the
  grants or a lookup (an index panic) is not modelled.
- Of `main.rs`: the isolated measurements (sections A, B1 and E), which use tables and
  relations of their own that nothing else sees, and the printed output. Of `timing.rs`:
  the clock and the sizes it leads to; a measurement is a number of calls.
- A `--depth` of 99 or more, whose cages share ids with grates (and which, beyond the 1024
  cages, panics in the first `fork` that is too far), and stacks of 800 grates or more
  together with spawned threads. `ConstantsOK` keeps these ids apart.
- Exhausted resources: a thread that cannot be spawned, a native stack too deep for the
  grates on it, memory.
- Stale pins of a grate on the narrow call: `MutexNested::get` (`handler.rs:101`) may hand a
  grate the argument ids of a record that was replaced; `CallNarrow` hands it zeros. No
  property of `Dispatch` depends on these ids, and `HandlerTables` has the lookup in full.
- The comment at `grate.rs:107` says that `build_chain` wires the handler table. It does
  not; `main` does, and so do the models.
- Grants in the composition: a revoke between a verdict and the leaf goes unnoticed, and
  nothing weaker is promised.
- `AbiProbe`: a loop of calls that touches no state.
- The wasm engine.

### What some properties do not say

- `SetsSpec` and `BitsSpec`: a lost edit would be a stutter of `GrantRelation`; that none
  nobody overlapped is lost is `EditsTake`.
- `FlavoursAgree`, `EditsTake`, `SettledPins`: nothing about a cell or a key on which
  operations overlapped. There the two flavours, or the table and its side table, may stay
  different, as the models show; the properties say that nowhere else they do.
- `OneTarget` and `NoForeignArgs`: not that a registration survives a concurrent copy of its
  row, nor that a target and its pins are of the same record; only that there is one target,
  and that the pins are of a record of that key.
- `ServiceSpec`: the abstract call is decided by one choice of outcome; that ok is the
  leaf's comes from the refinement mapping, in which only `RunLeaf` decides it.

## 6. Plan

All modules above are written, with their runs, and the proofs of section 4. What is left
open lies outside of them: grants in the composition (section 5), and liveness, which stays
with TLC.
