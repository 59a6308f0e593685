-------------------------------- MODULE Bpf --------------------------------
(***************************************************************************)
(* The filter machine of Option 2c: the verifier, the interpreter and the  *)
(* programs the code builds.                                               *)
(*                                                                         *)
(* A program is installed once it is verified and is then run for one call *)
(* after another.  One step is one instruction.  A run holds BPF_PROG      *)
(* shared, so the program stays; but each CallInSubtree takes the lineage  *)
(* lock by itself, so the lineage may change between two instructions.     *)
(* Programs are numbered from 1 here and from 0 in the code.               *)
(***************************************************************************)
EXTENDS Integers, Sequences

CONSTANTS
  Word,         \* u64
  BitAnd(_, _), \* `&' on Word
  Cage,         \* ids inside the lineage tables: 0 .. MAX_CAGES-1
  NArgs,        \* 6
  MaxLen,       \* 4096
  Byte,         \* 256: jump offsets are u8
  NoProgram,    \* BPF_PROG holds None
  Programs,     \* the programs installed
  Contexts,     \* the contexts the filter is run in
  Lineages      \* the subtree relations fork and exit bring about

ALLOW == 0
DENY  == -1

ASSUME BpfOK ==
  /\ Word \subseteq Nat /\ {0, 1} \subseteq Word
  /\ \A a, k \in Word : BitAnd(a, k) \in Word
  /\ Cage \subseteq Word /\ NArgs \in Nat /\ MaxLen \in Nat /\ Byte \in Nat \ {0}

Load1 == {"LdSyscall", "LdSelf", "LdTarget"}
LoadI == {"LdArgCage", "LdArg"}
JumpK == {"JeqK", "JgtK"}

Insn == [op : Load1 \cup {"CallInSubtree"}]
   \cup [op : LoadI, i : Nat]
   \cup [op : {"AndK"}, k : Word]
   \cup [op : JumpK, k : Word, jt : Nat, jf : Nat]
   \cup [op : {"Ret"}, v : Int]

Context == [self : Word, target : Word, sysno : Word,
            args : [1 .. NArgs -> Word], argcages : [1 .. NArgs -> Word], bits : BOOLEAN]

\* The context while there is no run.
NoContext == [self |-> 0, target |-> 0, sysno |-> 0, args |-> [i \in 1 .. NArgs |-> 0],
              argcages |-> [i \in 1 .. NArgs |-> 0], bits |-> FALSE]

Lineage == [Cage -> SUBSET Cage]

ASSUME InputsOK ==
  /\ NoProgram \notin Programs
  /\ Programs \subseteq Seq(Insn) /\ Contexts \subseteq Context /\ Lineages \subseteq Lineage

VARIABLES
  prog,     \* BPF_PROG
  below,    \* below[r]: the ids whose ancestor set holds r
  ctx,      \* the context of the run
  pc, a,    \* the interpreter's locals
  state,    \* "idle", "running", "returned" or "panicked"
  ret,      \* what the last run returned
  (* history, read by properties only *)
  seen,     \* the values of `below' during the run
  ticks     \* the instructions the run has executed

vars == <<prog, below, ctx, pc, a, state, ret, seen, ticks>>

-----------------------------------------------------------------------------
(* verify                                                                  *)

\* Fault: a jump may land one past the end.
InRangeSlack(p, i, off) == i + 1 + off <= Len(p) + 1

InRange(p, i, off) == i + 1 + off <= Len(p)

\* Fault: the last instruction is not looked at.
EndsInRetAny(p) == TRUE

EndsInRet(p) == p[Len(p)].op = "Ret"

\* Fault: the index is compared with <=.
ArgOKSlack(i) == i <= NArgs

ArgOK(i) == i < NArgs

Verify(p) ==
  /\ p # <<>> /\ Len(p) <= MaxLen
  /\ \A i \in 1 .. Len(p) :
       /\ p[i].op \in JumpK => InRange(p, i, p[i].jt) /\ InRange(p, i, p[i].jf)
       /\ p[i].op \in LoadI => ArgOK(p[i].i)
  /\ EndsInRet(p)

-----------------------------------------------------------------------------
(* The programs the code builds                                            *)

Ret(v)      == [op |-> "Ret", v |-> v]
Load(r)     == [op |-> r]
LdArgCage(i) == [op |-> "LdArgCage", i |-> i]
Jeq(k, jt, jf) == [op |-> "JeqK", k |-> k, jt |-> jt, jf |-> jf]

AllowAll == <<Ret(ALLOW)>>
DenyAll  == <<Ret(DENY)>>

\* prog_syscall_allowlist: n comparisons that jump to Ret(ALLOW) on a match.
Allowlist(allowed) ==
  LET n == Len(allowed)
  IN  [j \in 1 .. n + 3 |->
         IF j = 1 THEN Load("LdSyscall")
         ELSE IF j <= n + 1 THEN Jeq(allowed[j - 1], (n + 1 - j) % Byte, 0)
         ELSE IF j = n + 2 THEN Ret(ALLOW) ELSE Ret(DENY)]

\* Fault: the last argument is left out.
IdsShort(nargs) == nargs

\* The target and nargs argument cage ids are checked ...
Ids(nargs) == nargs + 1

\* ... by four instructions each: prog_subtree_check.
SubtreeCheck(nargs) ==
  [j \in 1 .. 4 * Ids(nargs) + 1 |->
     LET k == (j - 1) \div 4
     IN  IF j = 4 * Ids(nargs) + 1 THEN Ret(ALLOW)
         ELSE IF j % 4 = 1 THEN (IF k = 0 THEN Load("LdTarget") ELSE LdArgCage(k - 1))
         ELSE IF j % 4 = 2 THEN Load("CallInSubtree")
         ELSE IF j % 4 = 3 THEN Jeq(0, 0, 1)
         ELSE Ret(DENY)]

-----------------------------------------------------------------------------
(* Around a run                                                            *)

\* The harness verifies a program, and set_policy(Bpf) installs it.  The locals
\* of the last run are gone.
Install(p) ==
  /\ state \in {"idle", "returned"}
  /\ Verify(p)
  /\ prog' = p /\ state' = "idle"
  /\ ctx' = NoContext /\ pc' = 1 /\ a' = 0 /\ ret' = ALLOW /\ seen' = {} /\ ticks' = 0
  /\ UNCHANGED below

\* policy_ok runs the filter.
Start(c) ==
  /\ state \in {"idle", "returned"} /\ prog # NoProgram
  /\ ctx' = c /\ pc' = 1 /\ a' = 0
  /\ state' = "running"
  /\ seen' = {below} /\ ticks' = 0
  /\ UNCHANGED <<prog, below, ret>>

\* A fork or an exit on another thread (module Lineage).
Relate(r) ==
  /\ state # "panicked"
  /\ below' = r
  /\ seen' = IF state = "running" THEN seen \cup {r} ELSE seen
  /\ UNCHANGED <<prog, ctx, pc, a, state, ret, ticks>>

-----------------------------------------------------------------------------
(* run                                                                     *)

Running == state = "running"
Fetched(ops) == Running /\ pc \in 1 .. Len(prog) /\ prog[pc].op \in ops

\* The count stops one past the longest program.
Tick == IF ticks <= MaxLen THEN ticks + 1 ELSE ticks

\* A step that goes on at the given instruction, with the given accumulator.
Go(to, acc) ==
  /\ pc' = to /\ a' = acc
  /\ ticks' = Tick
  /\ UNCHANGED <<prog, below, ctx, state, ret, seen>>

LoadCtx ==
  /\ Fetched(Load1)
  /\ Go(pc + 1, IF prog[pc].op = "LdSyscall" THEN ctx.sysno
                ELSE IF prog[pc].op = "LdSelf" THEN ctx.self ELSE ctx.target)

LoadIndexed ==
  /\ Fetched(LoadI) /\ prog[pc].i < NArgs
  /\ Go(pc + 1, IF prog[pc].op = "LdArg" THEN ctx.args[prog[pc].i + 1]
                ELSE ctx.argcages[prog[pc].i + 1])

Mask == Fetched({"AndK"}) /\ Go(pc + 1, BitAnd(a, prog[pc].k))

\* Fault: a jump that does not step over its own instruction.
TargetOf0(i, off) == i + off

TargetOf(i, off) == i + 1 + off

Taken(insn) == IF insn.op = "JeqK" THEN a = insn.k ELSE a > insn.k

Jump ==
  /\ Fetched(JumpK)
  /\ Go(TargetOf(pc, IF Taken(prog[pc]) THEN prog[pc].jt ELSE prog[pc].jf), a)

\* An id the lineage has no row for: in_subtree_walk first compares it with the
\* caller, in_subtree_bits indexes at once, and by the caller too.
Stranger(c) == IF c.bits THEN a \notin Cage \/ c.self \notin Cage
               ELSE a # c.self /\ a \notin Cage

Inside(r, c, id) == \/ ~c.bits /\ id = c.self
                    \/ c.self \in Cage /\ id \in r[c.self]

\* Fault: the helper answers as a filter does.
AnswerCode(ok) == IF ok THEN ALLOW ELSE DENY

Answer(ok) == IF ok THEN 1 ELSE 0

CallHelper ==
  /\ Fetched({"CallInSubtree"}) /\ ~Stranger(ctx)
  /\ Go(pc + 1, Answer(Inside(below, ctx, a)))

\* Indexing out of bounds: insns[pc], one of the six-element arrays, a row of
\* the lineage.
OutOfBounds ==
  \/ pc \notin 1 .. Len(prog)
  \/ Fetched(LoadI) /\ prog[pc].i >= NArgs
  \/ Fetched({"CallInSubtree"}) /\ Stranger(ctx)

Panic ==
  /\ Running /\ OutOfBounds
  /\ state' = "panicked"
  /\ UNCHANGED <<prog, below, ctx, pc, a, ret, seen, ticks>>

Return ==
  /\ Fetched({"Ret"})
  /\ ret' = prog[pc].v /\ state' = "returned" /\ ticks' = Tick
  /\ UNCHANGED <<prog, below, ctx, pc, a, seen>>

-----------------------------------------------------------------------------
(* The specification                                                       *)

Init ==
  /\ prog = NoProgram /\ below \in Lineages
  /\ ctx = NoContext /\ pc = 1 /\ a = 0 /\ state = "idle" /\ ret = ALLOW
  /\ seen = {} /\ ticks = 0

Execute == LoadCtx \/ LoadIndexed \/ Mask \/ Jump \/ CallHelper \/ Return \/ Panic

Next == \/ \E p \in Programs : Install(p)
        \/ \E c \in Contexts : Start(c)
        \/ \E r \in Lineages : Relate(r)
        \/ Execute

Spec == Init /\ [][Next]_vars

\* The thread inside make_syscall keeps executing instructions.
FairSpec == Spec /\ WF_vars(Execute)

-----------------------------------------------------------------------------
(* Properties                                                              *)

\* Every variable has its type; the accumulator stays a u64.
TypeOK ==
  /\ prog \in Programs \cup {NoProgram}
  /\ below \in Lineages /\ ctx \in Contexts \cup {NoContext}
  /\ pc \in Nat \ {0} /\ a \in Word
  /\ state \in {"idle", "running", "returned", "panicked"}
  /\ ret \in Int /\ seen \in SUBSET Lineages /\ ticks \in Nat

\* "Bounded-execution verifier: forward-only jumps, in-range targets, every
\* path terminates in a Ret": a run of a verified program executes no more
\* instructions than the program has.
BoundedExecution == Running \/ state = "returned" => ticks <= Len(prog)

\* The only panic a verified program can run into is the helper's, on an id
\* that the lineage tables have no row for; the verifier cannot exclude that.
VerifiedStaysInside ==
  state = "panicked" => pc \in 1 .. Len(prog) /\ prog[pc].op = "CallInSubtree" /\ Stranger(ctx)

CheckedIds(n) == {ctx.target} \cup {ctx.argcages[i] : i \in 1 .. n}

\* "Option 2a expressed as an eBPF filter: every arg cage id must be inside the
\* caller's subtree".  The filter asks about one id at a time and the batched
\* check about all at once: an ALLOW means that each id was inside, and a DENY
\* that one was outside, at some moment of the run.  With the lineage at rest
\* the two therefore decide alike.
SubtreeCheckFaithful ==
  \A n \in 0 .. NArgs :
    state = "returned" /\ prog = SubtreeCheck(n) =>
      /\ ret = ALLOW => \A id \in CheckedIds(n) : \E r \in seen : Inside(r, ctx, id)
      /\ ret = DENY => \E id \in CheckedIds(n) : \E r \in seen : ~Inside(r, ctx, id)
      /\ ret \in {ALLOW, DENY}

\* "A seccomp-style allowlist: linear scan over n syscall numbers, deny
\* otherwise": an allowlist of one number allows exactly that number.
AllowlistDecides ==
  \A k \in Word :
    state = "returned" /\ prog = Allowlist(<<k>>) => (ret = ALLOW <=> ctx.sysno = k)

\* Every run ends.
RunsEnd == Running ~> ~Running
=============================================================================
