------------------------------- MODULE MCBpf -------------------------------
(***************************************************************************)
(* Small instances of Bpf: words of three bits, four cages, two arguments. *)
(***************************************************************************)
EXTENDS Bpf, Bitwise

MCWord == 0 .. 7
MCCage == 0 .. 3
MCAnd(x, y) == x & y

\* Cage 1 has a child 2; 3 joins or leaves its subtree.
MCLineages == {[c \in MCCage |-> IF c = 1 THEN {1, 2} \cup s ELSE {c}] : s \in {{}, {3}}}

\* All programs of up to three of these instructions, and the built ones.
Insns == {Load("LdTarget"), Load("CallInSubtree"), [op |-> "LdArg", i |-> 1], LdArgCage(2),
          [op |-> "AndK", k |-> 5], Load("LdSelf"), Jeq(1, 0, 1), [op |-> "JgtK", k |-> 2, jt |-> 1, jf |-> 0], Ret(DENY)}
Short == UNION {[1 .. n -> Insns] : n \in 1 .. 3}
Built == {AllowAll, DenyAll} \cup {SubtreeCheck(n) : n \in 0 .. 3}
           \cup {Allowlist(<<2>>), Allowlist(<<0, 1>>)}
MCPrograms == Short \cup Built \cup {<<>>}

\* As policy_ok builds them: syscall_num and args are constants there.
Ctx(self, target, argcages, bits) ==
  [self |-> self, target |-> target, sysno |-> 0, args |-> <<0, 0>>,
   argcages |-> argcages, bits |-> bits]
MCContexts == {Ctx(1, 2, <<3, 2>>, TRUE), Ctx(1, 1, <<2, 3>>, FALSE),
               Ctx(1, 3, <<3, 3>>, TRUE), Ctx(1, 2, <<7, 1>>, FALSE)}

-----------------------------------------------------------------------------
(* bpf_allowlist: the allowlists of one number, run as policy_ok runs them, *)
(* with syscall_num 0.                                                     *)
AllowPrograms == {Allowlist(<<k>>) : k \in MCWord}
=============================================================================
