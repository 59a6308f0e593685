----------------------------- MODULE BpfProofs -----------------------------
(***************************************************************************)
(* Proof that the verifier does its work: a run of a verified program, of  *)
(* any length and in any context, stays inside the program and executes at *)
(* most as many instructions as there are.                                 *)
(*                                                                         *)
(* The argument: every instruction but Ret moves pc forward by at least    *)
(* one, so pc - 1 bounds the instructions executed.  A jump lands in the   *)
(* program by InRange; any other instruction but Ret is not the last one,  *)
(* by EndsInRet, so there is one after it.                                 *)
(*                                                                         *)
(* Then what the programs the code builds decide, for any number of ids    *)
(* or of allowed numbers: the subtree filter, by what the run has found    *)
(* out at each of its instructions (Checking), and the allowlist, none of  *)
(* whose instructions leads to its Ret(DENY) (Scan).                       *)
(***************************************************************************)
EXTENDS Bpf, TLAPS, SequenceTheorems

Sound ==
  /\ prog # NoProgram => prog \in Programs /\ Verify(prog)
  /\ Running => prog # NoProgram /\ pc \in 1 .. Len(prog) /\ ticks <= pc - 1
  /\ state = "returned" => ticks <= Len(prog)
  /\ VerifiedStaysInside

Inv == TypeOK /\ Sound

\* The operands of an instruction by its name.
LEMMA InsnTypes ==
  ASSUME NEW i \in Insn
  PROVE  /\ i.op \in LoadI => i.i \in Nat
         /\ i.op = "AndK" => i.k \in Word
         /\ i.op \in JumpK => i.jt \in Nat /\ i.jf \in Nat
         /\ i.op = "Ret" => i.v \in Int
         /\ i.op \in Load1 \cup LoadI \cup JumpK \cup {"AndK", "CallInSubtree", "Ret"}
  BY DEF Insn, Load1, LoadI, JumpK

\* The context holds words.
LEMMA ContextTypes ==
  ASSUME TypeOK
  PROVE  /\ ctx.self \in Word /\ ctx.target \in Word /\ ctx.sysno \in Word
         /\ \A i \in 1 .. NArgs : ctx.args[i] \in Word /\ ctx.argcages[i] \in Word
<1>1. NoContext \in Context
  <2>1. [i \in 1 .. NArgs |-> 0] \in [1 .. NArgs -> Word] /\ 0 \in Word
    BY BpfOK
  <2> QED BY <2>1 DEF Context, NoContext
<1>2. ctx \in Context
  BY <1>1, InputsOK DEF TypeOK
<1> QED BY <1>2 DEF Context

\* The invariant holds initially.
LEMMA InitInv == Init => Inv
  BY BpfOK, InputsOK DEF Init, Inv, TypeOK, Sound, Running, VerifiedStaysInside, ALLOW

\* What the verifier guarantees at the instruction about to be executed.
LEMMA Fetch ==
  ASSUME Inv, Running
  PROVE  /\ prog \in Programs /\ Len(prog) \in Nat /\ pc \in 1 .. Len(prog)
         /\ ticks \in Nat /\ ticks <= pc - 1 /\ prog[pc] \in Insn
         /\ prog[pc].op \in JumpK => /\ TargetOf(pc, prog[pc].jt) \in pc + 1 .. Len(prog)
                                     /\ TargetOf(pc, prog[pc].jf) \in pc + 1 .. Len(prog)
         /\ prog[pc].op \in LoadI => prog[pc].i \in Nat /\ prog[pc].i < NArgs
         /\ prog[pc].op # "Ret" /\ prog[pc].op \notin JumpK => pc + 1 <= Len(prog)
<1>1. prog \in Programs /\ Verify(prog) /\ pc \in 1 .. Len(prog) /\ ticks <= pc - 1 /\ ticks \in Nat
  BY DEF Inv, Sound, TypeOK
<1>2. prog \in Seq(Insn) /\ Len(prog) \in Nat /\ prog[pc] \in Insn
  BY <1>1, InputsOK
<1>3. prog[pc].op \in JumpK => /\ TargetOf(pc, prog[pc].jt) \in pc + 1 .. Len(prog)
                               /\ TargetOf(pc, prog[pc].jf) \in pc + 1 .. Len(prog)
  BY <1>1, <1>2, InsnTypes DEF Verify, InRange, TargetOf
<1>4. prog[pc].op \in LoadI => prog[pc].i \in Nat /\ prog[pc].i < NArgs
  BY <1>1, <1>2, InsnTypes DEF Verify, ArgOK
<1>5. prog[pc].op # "Ret" => pc # Len(prog)
  BY <1>1 DEF Verify, EndsInRet
<1> QED BY <1>1, <1>2, <1>3, <1>4, <1>5

\* A step to another instruction further on.
LEMMA GoInv ==
  ASSUME Inv, Running, NEW to \in pc + 1 .. Len(prog), NEW acc \in Word, Go(to, acc)
  PROVE  Inv'
<1>1. /\ Len(prog) \in Nat /\ pc \in Nat \ {0} /\ ticks \in Nat /\ ticks <= pc - 1
      /\ pc' = to /\ a' = acc /\ UNCHANGED <<prog, below, ctx, state, ret, seen>>
      /\ ticks' = Tick
  BY Fetch DEF Go
<1>2. ticks' \in Nat /\ ticks' <= pc' - 1 /\ pc' \in 1 .. Len(prog) /\ pc' \in Nat \ {0}
  BY <1>1 DEF Tick
<1>3. TypeOK'
  BY <1>1, <1>2 DEF Inv, TypeOK
<1>4. Sound'
  BY <1>1, <1>2 DEF Inv, Sound, Running, VerifiedStaysInside
<1> QED BY <1>3, <1>4 DEF Inv

\* The invariant is inductive.
LEMMA NextInv == Inv /\ [Next]_vars => Inv'
<1> SUFFICES ASSUME Inv, [Next]_vars PROVE Inv'
  OBVIOUS
<1>1. CASE UNCHANGED vars
  BY <1>1 DEF vars, Inv, TypeOK, Sound, Running, VerifiedStaysInside, Stranger
<1>2. ASSUME NEW p \in Programs, Install(p) PROVE Inv'
  BY <1>2, BpfOK DEF Install, Inv, TypeOK, Sound, Running, VerifiedStaysInside, ALLOW
<1>3. ASSUME NEW c \in Contexts, Start(c) PROVE Inv'
  <2>1. prog \in Programs /\ Verify(prog) /\ prog \in Seq(Insn)
    BY <1>3, InputsOK DEF Start, Inv, Sound
  <2>2. 1 \in 1 .. Len(prog)
    BY <2>1 DEF Verify
  <2> QED BY <1>3, <2>1, <2>2, BpfOK
      DEF Start, Inv, TypeOK, Sound, Running, VerifiedStaysInside
<1>4. ASSUME NEW r \in Lineages, Relate(r) PROVE Inv'
  BY <1>4 DEF Relate, Inv, TypeOK, Sound, Running, VerifiedStaysInside
<1>5. CASE LoadCtx
  <2>1. Running /\ pc + 1 \in pc + 1 .. Len(prog)
    BY <1>5, Fetch DEF LoadCtx, Fetched, Load1, JumpK
  <2>2. PICK acc \in Word : Go(pc + 1, acc)
    BY <1>5, ContextTypes DEF LoadCtx, Inv
  <2> QED BY <2>1, <2>2, GoInv
<1>6. CASE LoadIndexed
  <2>1. Running /\ pc + 1 \in pc + 1 .. Len(prog) /\ prog[pc].i + 1 \in 1 .. NArgs
    BY <1>6, Fetch, BpfOK DEF LoadIndexed, Fetched, LoadI, JumpK
  <2>2. PICK acc \in Word : Go(pc + 1, acc)
    BY <1>6, <2>1, ContextTypes DEF LoadIndexed, Inv
  <2> QED BY <2>1, <2>2, GoInv
<1>7. CASE Mask
  <2>1. Running /\ pc + 1 \in pc + 1 .. Len(prog) /\ prog[pc].k \in Word /\ a \in Word
    BY <1>7, Fetch, InsnTypes DEF Mask, Fetched, JumpK, Inv, TypeOK
  <2>2. PICK acc \in Word : Go(pc + 1, acc)
    BY <1>7, <2>1, BpfOK DEF Mask
  <2> QED BY <2>1, <2>2, GoInv
<1>8. CASE Jump
  <2>1. PICK to \in pc + 1 .. Len(prog) : Go(to, a)
    BY <1>8, Fetch DEF Jump, Fetched
  <2> QED BY <1>8, <2>1, GoInv DEF Jump, Fetched, Inv, TypeOK
<1>9. CASE CallHelper
  <2>1. Running /\ pc + 1 \in pc + 1 .. Len(prog)
    BY <1>9, Fetch DEF CallHelper, Fetched, JumpK
  <2>2. PICK acc \in Word : Go(pc + 1, acc)
    BY <1>9, BpfOK DEF CallHelper, Answer
  <2> QED BY <2>1, <2>2, GoInv
<1>10. CASE Return
  <2>1. /\ Len(prog) \in Nat /\ pc \in 1 .. Len(prog) /\ ticks \in Nat /\ ticks <= pc - 1
        /\ prog[pc].v \in Int
    BY <1>10, Fetch, InsnTypes DEF Return, Fetched
  <2>2. ticks' \in Nat /\ ticks' <= Len(prog)
    BY <1>10, <2>1 DEF Return, Tick
  <2> QED BY <1>10, <2>1, <2>2 DEF Return, Inv, TypeOK, Sound, Running, VerifiedStaysInside
<1>11. CASE Panic
  <2>1. pc \in 1 .. Len(prog) /\ prog[pc].op = "CallInSubtree" /\ Stranger(ctx)
    <3>1. Running /\ OutOfBounds
      BY <1>11 DEF Panic
    <3>2. pc \in 1 .. Len(prog)
      BY <3>1, Fetch
    <3>3. ~(Fetched(LoadI) /\ prog[pc].i >= NArgs)
      BY <3>1, Fetch, BpfOK DEF Fetched
    <3> QED BY <3>1, <3>2, <3>3 DEF OutOfBounds, Fetched
  <2> QED BY <1>11, <2>1 DEF Panic, Inv, TypeOK, Sound, Running, VerifiedStaysInside, Stranger
<1> QED BY <1>1, <1>2, <1>3, <1>4, <1>5, <1>6, <1>7, <1>8, <1>9, <1>10, <1>11
    DEF Next, Execute

\* Every variable keeps its type: the accumulator is always a word.
THEOREM FilterTypes == Spec => []TypeOK
<1>1. Inv => TypeOK
  BY DEF Inv
<1> QED BY <1>1, InitInv, NextInv, PTL DEF Spec

\* A run of a verified program executes no more instructions than it has.
THEOREM Bounded == Spec => []BoundedExecution
<1>1. Inv => BoundedExecution
  <2>1. ASSUME Inv, Running PROVE ticks <= Len(prog)
    BY <2>1, Fetch
  <2>2. ASSUME Inv, state = "returned" PROVE ticks <= Len(prog)
    BY <2>2 DEF Inv, Sound
  <2> QED BY <2>1, <2>2 DEF BoundedExecution
<1> QED BY <1>1, InitInv, NextInv, PTL DEF Spec

\* A run of a verified program never indexes out of the program or of the six
\* arguments; only the helper can panic, on an id the lineage has no row for.
THEOREM Contained == Spec => []VerifiedStaysInside
<1>1. Inv => VerifiedStaysInside
  BY DEF Inv, Sound
<1> QED BY <1>1, InitInv, NextInv, PTL DEF Spec

-----------------------------------------------------------------------------
(* The subtree filter                                                      *)
(*                                                                         *)
(* prog_subtree_check has four instructions for each id: load it, ask the  *)
(* helper, jump over the next one if the answer is yes, deny.  `Checking'  *)
(* says what a run that is at one of the four knows of the k-th id.        *)

\* The k-th id the filter asks about.
IdAt(k) == IF k = 0 THEN ctx.target ELSE ctx.argcages[k]

WasInside(id)  == \E r \in seen : Inside(r, ctx, id)
WasOutside(id) == \E r \in seen : ~Inside(r, ctx, id)

Checking(k) ==
  /\ pc = 4 * k + 2 => a = IdAt(k)
  /\ pc = 4 * k + 3 => IF a = 0 THEN WasOutside(IdAt(k)) ELSE WasInside(IdAt(k))
  /\ pc = 4 * k + 4 => WasOutside(IdAt(k))
  /\ pc > 4 * k + 4 => WasInside(IdAt(k))

Walk(n) ==
  prog = SubtreeCheck(n) =>
    /\ Running => below \in seen /\ \A k \in 0 .. n : Checking(k)
    /\ state = "returned" =>
         /\ ret \in {ALLOW, DENY}
         /\ ret = ALLOW => \A k \in 0 .. n : WasInside(IdAt(k))
         /\ ret = DENY => \E k \in 0 .. n : WasOutside(IdAt(k))

Walks == \A n \in 0 .. NArgs : Walk(n)

\* The four instructions of the k-th id, and the last one.
LEMMA SubtreeInsns ==
  ASSUME NEW n \in Nat, NEW k \in 0 .. n
  PROVE  LET p == SubtreeCheck(n) IN
         /\ DOMAIN p = 1 .. 4 * n + 5
         /\ p[4 * k + 1] = IF k = 0 THEN Load("LdTarget") ELSE LdArgCage(k - 1)
         /\ p[4 * k + 2] = Load("CallInSubtree")
         /\ p[4 * k + 3] = Jeq(0, 0, 1)
         /\ p[4 * k + 4] = Ret(DENY)
         /\ p[4 * n + 5] = Ret(ALLOW)
<1> DEFINE p == SubtreeCheck(n)
<1> DEFINE At(j) == LET m == (j - 1) \div 4
                    IN  IF j = 4 * Ids(n) + 1 THEN Ret(ALLOW)
                        ELSE IF j % 4 = 1 THEN (IF m = 0 THEN Load("LdTarget") ELSE LdArgCage(m - 1))
                        ELSE IF j % 4 = 2 THEN Load("CallInSubtree")
                        ELSE IF j % 4 = 3 THEN Jeq(0, 0, 1)
                        ELSE Ret(DENY)
<1>1. p = [j \in 1 .. 4 * Ids(n) + 1 |-> At(j)]
  BY DEF SubtreeCheck
<1>2. 4 * Ids(n) + 1 = 4 * n + 5
  BY DEF Ids
<1>3. /\ (4 * k + 1) % 4 = 1 /\ (4 * k + 2) % 4 = 2 /\ (4 * k + 3) % 4 = 3
      /\ (4 * k + 4) % 4 = 0 /\ (4 * k + 1 - 1) \div 4 = k
  OBVIOUS
<1>4. /\ 4 * k + 1 \in 1 .. 4 * n + 4 /\ 4 * k + 2 \in 1 .. 4 * n + 4
      /\ 4 * k + 3 \in 1 .. 4 * n + 4 /\ 4 * k + 4 \in 1 .. 4 * n + 4
  OBVIOUS
<1>5. /\ At(4 * k + 1) = IF k = 0 THEN Load("LdTarget") ELSE LdArgCage(k - 1)
      /\ At(4 * k + 2) = Load("CallInSubtree")
      /\ At(4 * k + 3) = Jeq(0, 0, 1)
      /\ At(4 * k + 4) = Ret(DENY)
      /\ At(4 * n + 5) = Ret(ALLOW)
  BY <1>2, <1>3, <1>4
<1> HIDE DEF p, At
<1>6. \A j \in 1 .. 4 * n + 5 : p[j] = At(j)
  BY <1>1, <1>2
<1> QED BY <1>1, <1>2, <1>4, <1>5, <1>6 DEF p

\* A place in the program is one of the four of some id, or the last.
LEMMA Places ==
  ASSUME NEW n \in Nat, NEW i \in 1 .. 4 * n + 5
  PROVE  \/ i = 4 * n + 5
         \/ \E k \in 0 .. n : i \in {4 * k + 1, 4 * k + 2, 4 * k + 3, 4 * k + 4}
<1> DEFINE k == (i - 1) \div 4
<1>1. k \in Int /\ 4 * k <= i - 1 /\ i - 1 < 4 * k + 4
  OBVIOUS
<1> HIDE DEF k
<1>2. i # 4 * n + 5 => k \in 0 .. n
  BY <1>1
<1>3. i \in {4 * k + 1, 4 * k + 2, 4 * k + 3, 4 * k + 4}
  BY <1>1
<1> QED BY <1>2, <1>3

\* What was inside or outside at some moment of the run is so for good.
LEMMA KeepsChecking ==
  ASSUME UNCHANGED <<ctx, seen>>
  PROVE  \A k : /\ IdAt(k)' = IdAt(k)
                /\ WasInside(IdAt(k))' <=> WasInside(IdAt(k))
                /\ WasOutside(IdAt(k))' <=> WasOutside(IdAt(k))
  BY DEF IdAt, WasInside, WasOutside, Inside

\* One step of the subtree filter, from each of its places.
LEMMA SubtreeStep ==
  ASSUME Inv, Walks, Running, LoadCtx \/ LoadIndexed \/ Mask \/ Jump \/ CallHelper,
         NEW n \in 0 .. NArgs, prog = SubtreeCheck(n), NEW k \in 0 .. n
  PROVE  Checking(k)'
<1>1. /\ n \in Nat /\ pc \in 1 .. 4 * n + 5 /\ pc \in Nat
      /\ below \in seen /\ \A m \in 0 .. n : Checking(m)
  <2>1. n \in Nat
    BY BpfOK
  <2>2. prog \in Seq(Insn) /\ pc \in 1 .. Len(prog)
    BY Fetch, InputsOK
  <2>3. DOMAIN prog = 1 .. 4 * n + 5
    BY <2>1, SubtreeInsns
  <2>4. pc \in 1 .. 4 * n + 5
    BY <2>2, <2>3
  <2>5. Walk(n)
    BY DEF Walks
  <2> QED BY <2>1, <2>4, <2>5 DEF Walk
<1>2. UNCHANGED <<ctx, seen, below>>
  BY DEF LoadCtx, LoadIndexed, Mask, Jump, CallHelper, Go
<1>3. pc # 4 * n + 5
  <2>1. prog[4 * n + 5] = Ret(ALLOW)
    BY <1>1, SubtreeInsns
  <2>2. prog[4 * n + 5].op = "Ret"
    BY <2>1 DEF Ret
  <2> QED BY <2>2 DEF LoadCtx, LoadIndexed, Mask, Jump, CallHelper, Fetched, Load1, LoadI, JumpK
<1>4. PICK m \in 0 .. n : pc \in {4 * m + 1, 4 * m + 2, 4 * m + 3, 4 * m + 4}
  BY <1>1, <1>3, Places
<1>5. m \in Nat /\ k \in Nat /\ Checking(m) /\ Checking(k)
  BY <1>1
<1>6. /\ prog[4 * m + 1] = IF m = 0 THEN Load("LdTarget") ELSE LdArgCage(m - 1)
      /\ prog[4 * m + 2] = Load("CallInSubtree")
      /\ prog[4 * m + 3] = Jeq(0, 0, 1)
      /\ prog[4 * m + 4] = Ret(DENY)
  BY <1>1, SubtreeInsns
<1>7. CASE pc = 4 * m + 1
  <2>1. pc' = pc + 1 /\ a' = IdAt(m)
    <3>1. CASE m = 0
      <4>1. prog[pc].op = "LdTarget"
        BY <1>6, <1>7, <3>1 DEF Load
      <4>2. LoadCtx
        BY <4>1 DEF LoadIndexed, Mask, Jump, CallHelper, Fetched, LoadI, JumpK
      <4> QED BY <3>1, <4>1, <4>2 DEF LoadCtx, Go, IdAt
    <3>2. CASE m # 0
      <4>1. prog[pc].op = "LdArgCage" /\ prog[pc].i + 1 = m
        BY <1>5, <1>6, <1>7, <3>2 DEF LdArgCage
      <4>2. LoadIndexed
        BY <4>1 DEF LoadCtx, Mask, Jump, CallHelper, Fetched, Load1, JumpK
      <4> QED BY <3>2, <4>1, <4>2 DEF LoadIndexed, Go, IdAt
    <3> QED BY <3>1, <3>2
  <2> QED BY <1>2, <1>5, <1>7, <2>1, KeepsChecking DEF Checking
<1>8. CASE pc = 4 * m + 2
  <2>1. prog[pc].op = "CallInSubtree"
    BY <1>6, <1>8 DEF Load
  <2>2. CallHelper
    BY <2>1 DEF LoadCtx, LoadIndexed, Mask, Jump, Fetched, Load1, LoadI, JumpK
  <2>3. a = IdAt(m)
    BY <1>5, <1>8 DEF Checking
  <2>4. pc' = pc + 1 /\ a' = Answer(Inside(below, ctx, IdAt(m)))
    BY <2>2, <2>3 DEF CallHelper, Go
  <2>5. IF a' = 0 THEN WasOutside(IdAt(m)) ELSE WasInside(IdAt(m))
    BY <1>1, <2>4 DEF Answer, WasInside, WasOutside
  <2> QED BY <1>2, <1>5, <1>8, <2>4, <2>5, KeepsChecking DEF Checking
<1>9. CASE pc = 4 * m + 3
  <2>1. /\ prog[pc].op = "JeqK" /\ prog[pc].k = 0
        /\ prog[pc].jt = 0 /\ prog[pc].jf = 1
    BY <1>6, <1>9 DEF Jeq
  <2>2. Jump
    BY <2>1 DEF LoadCtx, LoadIndexed, Mask, CallHelper, Fetched, Load1, LoadI
  <2>3. pc' = IF a = 0 THEN pc + 1 ELSE pc + 2
    BY <1>1, <2>1, <2>2 DEF Jump, Go, Taken, TargetOf
  <2>4. IF a = 0 THEN WasOutside(IdAt(m)) ELSE WasInside(IdAt(m))
    BY <1>5, <1>9 DEF Checking
  <2> QED BY <1>2, <1>5, <1>9, <2>3, <2>4, KeepsChecking DEF Checking
<1>10. CASE pc = 4 * m + 4
  <2>1. prog[pc].op = "Ret"
    BY <1>6, <1>10 DEF Ret
  <2> QED BY <2>1 DEF LoadCtx, LoadIndexed, Mask, Jump, CallHelper, Fetched, Load1, LoadI, JumpK
<1> QED BY <1>4, <1>7, <1>8, <1>9, <1>10

\* What a run knows of the ids is inductive, whatever the lineage does meanwhile.
LEMMA NextWalks == Inv /\ Walks /\ [Next]_vars => Walks'
<1> SUFFICES ASSUME Inv, Walks, [Next]_vars PROVE Walks'
  OBVIOUS
<1>1. CASE UNCHANGED vars
  BY <1>1 DEF vars, Walks, Walk, Running, Checking, IdAt, WasInside, WasOutside, Inside
<1>2. ASSUME NEW p \in Programs, Install(p) PROVE Walks'
  BY <1>2 DEF Install, Walks, Walk, Running
<1>3. ASSUME NEW c \in Contexts, Start(c) PROVE Walks'
  <2>1. pc' = 1 /\ state' = "running" /\ seen' = {below} /\ below' = below
    BY <1>3 DEF Start
  <2>2. ASSUME NEW n \in 0 .. NArgs, NEW k \in 0 .. n PROVE Checking(k)'
    BY <2>1, BpfOK DEF Checking
  <2> QED BY <2>1, <2>2 DEF Walks, Walk, Running
<1>4. ASSUME NEW r \in Lineages, Relate(r) PROVE Walks'
  <2>1. /\ UNCHANGED <<prog, ctx, pc, a, state, ret>>
        /\ seen \subseteq seen'
        /\ Running => below' \in seen'
    BY <1>4 DEF Relate, Running
  <2>2. \A k : /\ IdAt(k)' = IdAt(k)
               /\ WasInside(IdAt(k)) => WasInside(IdAt(k))'
               /\ WasOutside(IdAt(k)) => WasOutside(IdAt(k))'
    BY <2>1 DEF IdAt, WasInside, WasOutside, Inside
  <2>3. \A k : Checking(k) => Checking(k)'
    BY <2>1, <2>2 DEF Checking
  <2> QED BY <2>1, <2>2, <2>3 DEF Walks, Walk, Running
<1>5. CASE LoadCtx \/ LoadIndexed \/ Mask \/ Jump \/ CallHelper
  <2>1. Running
    BY <1>5 DEF LoadCtx, LoadIndexed, Mask, Jump, CallHelper, Fetched
  <2>2. UNCHANGED <<prog, below, state, seen>>
    BY <1>5 DEF LoadCtx, LoadIndexed, Mask, Jump, CallHelper, Go
  <2>3. ASSUME NEW n \in 0 .. NArgs, prog = SubtreeCheck(n), NEW k \in 0 .. n
        PROVE  Checking(k)'
    BY <1>5, <2>1, <2>3, SubtreeStep
  <2> QED BY <2>1, <2>2, <2>3 DEF Walks, Walk, Running
<1>6. CASE Return
  <2>1. Running /\ ret' = prog[pc].v /\ state' = "returned" /\ UNCHANGED <<prog, ctx, seen>>
    BY <1>6 DEF Return, Fetched
  <2>2. ASSUME NEW n \in 0 .. NArgs, prog = SubtreeCheck(n)
        PROVE  \/ ret' = ALLOW /\ \A k \in 0 .. n : WasInside(IdAt(k))
               \/ ret' = DENY /\ \E k \in 0 .. n : WasOutside(IdAt(k))
    <3>1. n \in Nat /\ \A k \in 0 .. n : Checking(k)
      BY <2>1, <2>2, BpfOK DEF Walks, Walk
    <3>2. pc \in 1 .. 4 * n + 5
      <4>1. prog \in Seq(Insn) /\ pc \in 1 .. Len(prog)
        BY <2>1, Fetch, InputsOK
      <4>2. DOMAIN prog = 1 .. 4 * n + 5
        BY <2>2, <3>1, SubtreeInsns
      <4> QED BY <4>1, <4>2
    <3>3. CASE pc = 4 * n + 5
      <4>1. ret' = ALLOW
        BY <2>1, <2>2, <3>1, <3>3, SubtreeInsns DEF Ret
      <4>2. \A k \in 0 .. n : WasInside(IdAt(k))
        BY <3>1, <3>3 DEF Checking
      <4> QED BY <4>1, <4>2
    <3>4. CASE pc # 4 * n + 5
      <4>1. PICK m \in 0 .. n : pc \in {4 * m + 1, 4 * m + 2, 4 * m + 3, 4 * m + 4}
        BY <3>1, <3>2, <3>4, Places
      <4>2. /\ prog[4 * m + 1] = IF m = 0 THEN Load("LdTarget") ELSE LdArgCage(m - 1)
            /\ prog[4 * m + 2] = Load("CallInSubtree")
            /\ prog[4 * m + 3] = Jeq(0, 0, 1)
            /\ prog[4 * m + 4] = Ret(DENY)
        BY <2>2, <3>1, SubtreeInsns
      <4>3. prog[pc].op = "Ret"
        BY <1>6 DEF Return, Fetched
      <4>4. pc = 4 * m + 4
        BY <4>1, <4>2, <4>3 DEF Load, LdArgCage, Jeq
      <4>5. ret' = DENY
        BY <2>1, <4>2, <4>4 DEF Ret
      <4>6. WasOutside(IdAt(m))
        BY <3>1, <4>4 DEF Checking
      <4> QED BY <4>5, <4>6
    <3> QED BY <3>3, <3>4
  <2>3. ALLOW # DENY
    BY DEF ALLOW, DENY
  <2> QED BY <2>1, <2>2, <2>3, KeepsChecking DEF Walks, Walk, Running
<1>7. CASE Panic
  BY <1>7 DEF Panic, Walks, Walk, Running
<1> QED BY <1>1, <1>2, <1>3, <1>4, <1>5, <1>6, <1>7 DEF Next, Execute

\* The ids the filter asks about are those it is to check.
LEMMA WalkFaithful == Walks => SubtreeCheckFaithful
<1> SUFFICES ASSUME Walks, NEW n \in 0 .. NArgs, state = "returned", prog = SubtreeCheck(n)
             PROVE  /\ ret = ALLOW => \A id \in CheckedIds(n) : \E r \in seen : Inside(r, ctx, id)
                    /\ ret = DENY => \E id \in CheckedIds(n) : \E r \in seen : ~Inside(r, ctx, id)
                    /\ ret \in {ALLOW, DENY}
  BY DEF SubtreeCheckFaithful
<1>1. CheckedIds(n) = {IdAt(k) : k \in 0 .. n}
  BY BpfOK DEF CheckedIds, IdAt
<1>2. Walk(n)
  BY DEF Walks
<1> QED BY <1>1, <1>2 DEF Walk, WasInside, WasOutside

\* The filter of Option 2a decides as the batched check does: an ALLOW means that
\* every id was inside the caller's subtree at some moment of the run, a DENY that
\* one was outside, for any number of ids and under any lineage changes.
THEOREM Faithful == Spec => []SubtreeCheckFaithful
<1>1. Init => Walks
  BY DEF Init, Walks, Walk, Running
<1> QED BY <1>1, InitInv, NextInv, NextWalks, WalkFaithful, PTL DEF Spec

-----------------------------------------------------------------------------
(* The syscall allowlist                                                   *)

\* A remainder is no larger than what it is the remainder of.
LEMMA Remainder ==
  ASSUME NEW x \in Nat, NEW b \in Nat \ {0}
  PROVE  x % b \in 0 .. x
<1>1. x % b \in 0 .. b - 1
  OBVIOUS
<1>2. CASE x < b
  BY <1>2
<1>3. CASE x >= b
  BY <1>1, <1>3
<1> QED BY <1>2, <1>3

\* The ends of an allowlist.
LEMMA AllowlistEnds ==
  ASSUME NEW l \in Seq(Word)
  PROVE  LET p == Allowlist(l) IN
         /\ DOMAIN p = 1 .. Len(l) + 3
         /\ p[1] = Load("LdSyscall")
         /\ p[Len(l) + 2] = Ret(ALLOW)
         /\ p[Len(l) + 3] = Ret(DENY)
  BY DEF Allowlist

\* The comparisons between them: none jumps beyond the Ret(ALLOW), its offset cut
\* to a byte or not.
LEMMA AllowlistJumps ==
  ASSUME NEW l \in Seq(Word), NEW j \in 2 .. Len(l) + 1
  PROVE  \E k \in Word, off \in 0 .. Len(l) + 1 - j : Allowlist(l)[j] = Jeq(k, off, 0)
<1> DEFINE off == (Len(l) + 1 - j) % Byte
<1>1. off \in 0 .. Len(l) + 1 - j
  BY BpfOK, Remainder
<1>2. l[j - 1] \in Word
  OBVIOUS
<1>3. Allowlist(l)[j] = Jeq(l[j - 1], off, 0)
  BY DEF Allowlist
<1> QED BY <1>1, <1>2, <1>3

\* Where a run of an allowlist can be, and how it ends.
Scan(l) ==
  prog = Allowlist(l) => /\ Running => pc <= Len(l) + 2
                         /\ state = "returned" => ret = ALLOW

\* The allowlist allows what is on it and everything else: its last comparison
\* falls through to Ret(ALLOW), and nothing leads to Ret(DENY).
AllowlistNeverDenies ==
  \A l \in Seq(Word) : state = "returned" /\ prog = Allowlist(l) => ret = ALLOW

LEMMA NextScan ==
  ASSUME Inv, [Next]_vars, NEW l \in Seq(Word), Scan(l)
  PROVE  Scan(l)'
<1>1. CASE UNCHANGED vars
  BY <1>1 DEF vars, Scan, Running
<1>2. ASSUME NEW p \in Programs, Install(p) PROVE Scan(l)'
  BY <1>2 DEF Install, Scan, Running
<1>3. ASSUME NEW c \in Contexts, Start(c) PROVE Scan(l)'
  BY <1>3 DEF Start, Scan, Running
<1>4. ASSUME NEW r \in Lineages, Relate(r) PROVE Scan(l)'
  BY <1>4 DEF Relate, Scan, Running
<1>5. CASE Panic
  BY <1>5 DEF Panic, Scan, Running
<1>6. ASSUME prog = Allowlist(l), Running, LoadCtx \/ LoadIndexed \/ Mask \/ Jump \/ CallHelper \/ Return
      PROVE  Scan(l)'
  <2>1. pc \in Nat /\ 1 <= pc /\ pc <= Len(l) + 2
    BY <1>6 DEF Scan, Inv, TypeOK
  <2>2. CASE pc = 1
    <3>1. prog[pc].op = "LdSyscall"
      BY <1>6, <2>2, AllowlistEnds DEF Load
    <3>2. LoadCtx
      BY <1>6, <3>1 DEF LoadIndexed, Mask, Jump, CallHelper, Return, Fetched, LoadI, JumpK
    <3> QED BY <1>6, <2>2, <3>2 DEF LoadCtx, Go, Scan, Running
  <2>3. CASE pc \in 2 .. Len(l) + 1
    <3>1. PICK k \in Word, off \in 0 .. Len(l) + 1 - pc : prog[pc] = Jeq(k, off, 0)
      BY <1>6, <2>3, AllowlistJumps
    <3>2. prog[pc].op = "JeqK" /\ prog[pc].jt = off /\ prog[pc].jf = 0
      BY <3>1 DEF Jeq
    <3>3. Jump
      BY <1>6, <3>2 DEF LoadCtx, LoadIndexed, Mask, CallHelper, Return, Fetched, Load1, LoadI
    <3>4. pc' <= Len(l) + 2 /\ UNCHANGED <<prog, state>>
      BY <2>3, <3>2, <3>3 DEF Jump, Go, TargetOf
    <3> QED BY <1>6, <3>4 DEF Scan, Running
  <2>4. CASE pc = Len(l) + 2
    <3>1. prog[pc] = Ret(ALLOW)
      BY <1>6, <2>4, AllowlistEnds
    <3>2. prog[pc].op = "Ret" /\ prog[pc].v = ALLOW
      BY <3>1 DEF Ret
    <3>3. Return
      BY <1>6, <3>2 DEF LoadCtx, LoadIndexed, Mask, Jump, CallHelper, Fetched, Load1, LoadI, JumpK
    <3> QED BY <3>2, <3>3 DEF Return, Scan, Running
  <2> QED BY <2>1, <2>2, <2>3, <2>4
<1>7. ASSUME prog # Allowlist(l), LoadCtx \/ LoadIndexed \/ Mask \/ Jump \/ CallHelper \/ Return
      PROVE  Scan(l)'
  BY <1>7 DEF LoadCtx, LoadIndexed, Mask, Jump, CallHelper, Return, Go, Scan
<1>8. LoadCtx \/ LoadIndexed \/ Mask \/ Jump \/ CallHelper \/ Return => Running
  BY DEF LoadCtx, LoadIndexed, Mask, Jump, CallHelper, Return, Fetched
<1> QED BY <1>1, <1>2, <1>3, <1>4, <1>5, <1>6, <1>7, <1>8 DEF Next, Execute

\* No allowlist, however long, ever denies: what the finding about AllowlistDecides
\* shows of one number holds of every list, and cutting the offsets of a list of
\* more than 256 numbers to a byte does not change a verdict.
THEOREM AllowlistTheorem == Spec => []AllowlistNeverDenies
<1> DEFINE Scans == \A l \in Seq(Word) : Scan(l)
<1>1. Init => Scans
  BY DEF Init, Scan, Running
<1>2. Inv /\ Scans /\ [Next]_vars => Scans'
  BY NextScan
<1>3. Scans => AllowlistNeverDenies
  BY DEF Scan, AllowlistNeverDenies
<1> HIDE DEF Scans
<1> QED BY <1>1, <1>2, <1>3, InitInv, NextInv, PTL DEF Spec

-----------------------------------------------------------------------------
(* The verifier on the programs the code builds                            *)

\* The length of a program given by its instructions.
LEMMA ProgramLength ==
  ASSUME NEW m \in Nat, NEW p, p \in [1 .. m -> Insn]
  PROVE  p \in Seq(Insn) /\ Len(p) = m
  BY SeqDef

LEMMA AllowlistVerified ==
  ASSUME NEW l \in Seq(Word)
  PROVE  Verify(Allowlist(l)) <=> Len(l) + 3 <= MaxLen
<1> DEFINE p == Allowlist(l)
<1> DEFINE n == Len(l)
<1>1. DOMAIN p = 1 .. n + 3 /\ n \in Nat
  BY AllowlistEnds
<1>2. ASSUME NEW i \in 1 .. n + 3
      PROVE  /\ p[i] \in Insn /\ p[i].op \notin LoadI
             /\ p[i].op \in JumpK => /\ i + 1 + p[i].jt <= n + 3
                                     /\ i + 1 + p[i].jf <= n + 3
  <2>1. CASE i \in 2 .. n + 1
    <3>1. PICK k \in Word, off \in 0 .. n + 1 - i : p[i] = Jeq(k, off, 0)
      BY <2>1, AllowlistJumps
    <3> HIDE DEF p
    <3>2. p[i] \in Insn
      BY <3>1, <2>1 DEF Jeq, Insn, JumpK
    <3> QED BY <2>1, <3>1, <3>2 DEF Jeq, LoadI
  <2>2. CASE i = 1
    <3>1. p[i] = Load("LdSyscall")
      BY <2>2, AllowlistEnds
    <3> HIDE DEF p
    <3> QED BY <3>1 DEF Load, Insn, Load1, LoadI, JumpK
  <2>3. CASE i \in {n + 2, n + 3}
    <3>1. p[i] = Ret(ALLOW) \/ p[i] = Ret(DENY)
      BY <2>3, AllowlistEnds
    <3> HIDE DEF p
    <3> QED BY <3>1 DEF Ret, Insn, LoadI, JumpK, ALLOW, DENY
  <2> QED BY <1>1, <2>1, <2>2, <2>3
<1>3. p = [i \in 1 .. n + 3 |-> p[i]]
  BY DEF Allowlist
<1>4. p[n + 3].op = "Ret"
  <2>1. p[n + 3] = Ret(DENY)
    BY AllowlistEnds
  <2> HIDE DEF p
  <2> QED BY <2>1 DEF Ret
<1> HIDE DEF p
<1>5. p \in [1 .. n + 3 -> Insn]
  BY <1>2, <1>3
<1>6. p \in Seq(Insn) /\ Len(p) = n + 3
  BY <1>1, <1>5, ProgramLength
<1>7. p # <<>>
  BY <1>1, <1>6
<1> QED BY <1>1, <1>2, <1>4, <1>6, <1>7 DEF Verify, InRange, EndsInRet, p

LEMMA SubtreeVerified ==
  ASSUME NEW n \in Nat
  PROVE  Verify(SubtreeCheck(n)) <=> n <= NArgs /\ 4 * n + 5 <= MaxLen
<1> DEFINE p == SubtreeCheck(n)
<1> DEFINE m == 4 * n + 5
<1>1. DOMAIN p = 1 .. m /\ p[m] = Ret(ALLOW) /\ m \in Nat
  BY SubtreeInsns
<1>2. ASSUME NEW k \in 0 .. n
      PROVE  /\ p[4 * k + 1] = IF k = 0 THEN Load("LdTarget") ELSE LdArgCage(k - 1)
             /\ p[4 * k + 2] = Load("CallInSubtree")
             /\ p[4 * k + 3] = Jeq(0, 0, 1)
             /\ p[4 * k + 4] = Ret(DENY)
  BY SubtreeInsns
<1>3. p = [i \in 1 .. m |-> p[i]]
  BY DEF SubtreeCheck, Ids
<1> HIDE DEF p
<1>4. ASSUME NEW i \in 1 .. m
      PROVE  /\ p[i] \in Insn
             /\ p[i].op \in JumpK => i + 1 + p[i].jt <= m /\ i + 1 + p[i].jf <= m
             /\ p[i].op \in LoadI => p[i].i \in 0 .. n - 1
  <2>1. CASE i = m
    BY <1>1, <2>1 DEF Ret, ALLOW, Insn, JumpK, LoadI
  <2>2. ASSUME NEW k \in 0 .. n, i \in {4 * k + 1, 4 * k + 2, 4 * k + 3, 4 * k + 4}
        PROVE  /\ p[i] \in Insn
               /\ p[i].op \in JumpK => i + 1 + p[i].jt <= m /\ i + 1 + p[i].jf <= m
               /\ p[i].op \in LoadI => p[i].i \in 0 .. n - 1
    <3>1. CASE i = 4 * k + 1
      <4>1. p[i] = IF k = 0 THEN Load("LdTarget") ELSE LdArgCage(k - 1)
        BY <1>2, <3>1
      <4> QED BY <4>1 DEF Load, LdArgCage, Insn, Load1, LoadI, JumpK
    <3>2. CASE i = 4 * k + 2
      <4>1. p[i] = Load("CallInSubtree")
        BY <1>2, <3>2
      <4> QED BY <4>1 DEF Load, Insn, LoadI, JumpK
    <3>3. CASE i = 4 * k + 3
      <4>1. p[i] = Jeq(0, 0, 1)
        BY <1>2, <3>3
      <4> QED BY <3>3, <4>1, BpfOK DEF Jeq, Insn, LoadI, JumpK
    <3>4. CASE i = 4 * k + 4
      <4>1. p[i] = Ret(DENY)
        BY <1>2, <3>4
      <4> QED BY <4>1 DEF Ret, DENY, Insn, LoadI, JumpK
    <3> QED BY <2>2, <3>1, <3>2, <3>3, <3>4
  <2> QED BY <2>1, <2>2, Places
<1>5. p \in [1 .. m -> Insn]
  BY <1>3, <1>4
<1>6. p \in Seq(Insn) /\ Len(p) = m /\ p # <<>> /\ p[m].op = "Ret"
  BY <1>1, <1>5, ProgramLength DEF Ret
<1>7. n > 0 => 4 * n + 1 \in 1 .. m /\ p[4 * n + 1].op = "LdArgCage" /\ p[4 * n + 1].i = n - 1
  <2> SUFFICES ASSUME n > 0
               PROVE  4 * n + 1 \in 1 .. m /\ p[4 * n + 1].op = "LdArgCage" /\ p[4 * n + 1].i = n - 1
    OBVIOUS
  <2>1. p[4 * n + 1] = LdArgCage(n - 1)
    BY <1>2
  <2> QED BY <2>1 DEF LdArgCage
<1>8. n <= NArgs => \A i \in 1 .. m : p[i].op \in LoadI => ArgOK(p[i].i)
  BY <1>4, BpfOK DEF ArgOK
<1>9. (\A i \in 1 .. m : p[i].op \in LoadI => ArgOK(p[i].i)) => n <= NArgs
  BY <1>7, BpfOK DEF ArgOK, LoadI
<1> QED BY <1>4, <1>6, <1>8, <1>9 DEF Verify, InRange, EndsInRet, p

\* The verifier takes every program the code builds that is not too long, and of
\* the subtree filters those, and only those, that ask about ids that exist: the
\* expect("program failed verification") of main fails for --ncheck above NArgs
\* and for nothing else.
THEOREM BuiltVerified ==
  /\ MaxLen >= 1 => Verify(AllowAll) /\ Verify(DenyAll)
  /\ \A l \in Seq(Word) : Verify(Allowlist(l)) <=> Len(l) + 3 <= MaxLen
  /\ \A n \in Nat : Verify(SubtreeCheck(n)) <=> n <= NArgs /\ 4 * n + 5 <= MaxLen
<1>1. ASSUME NEW v \in Int, MaxLen >= 1 PROVE Verify(<<Ret(v)>>)
  BY <1>1, BpfOK DEF Verify, EndsInRet, Ret, JumpK, LoadI
<1>2. MaxLen >= 1 => Verify(AllowAll) /\ Verify(DenyAll)
  BY <1>1 DEF AllowAll, DenyAll, ALLOW, DENY
<1> QED BY <1>2, AllowlistVerified, SubtreeVerified
=============================================================================
