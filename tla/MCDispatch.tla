----------------------------- MODULE MCDispatch -----------------------------
(***************************************************************************)
(* Small instances of Dispatch.  In both, cage 2 has a child 3 and cage 4  *)
(* is a stranger to them; 2 has been granted 4.                            *)
(***************************************************************************)
EXTENDS Dispatch, TLC

MCCage    == {2, 3, 4}
MCSubtree == [c \in Id |-> IF c = 2 THEN {2, 3} ELSE IF c \in MCCage THEN {c} ELSE {}]
MCGranted == [c \in Id |-> IF c = 2 THEN {4} ELSE {}]

-----------------------------------------------------------------------------
(* dispatch_chain: one cage and a chain of two grates wired in every order *)
(* register calls can leave behind (the intended chain, a ring, a handler  *)
(* of a grate that is gone), with the hook idle or refusing the grates.    *)

NonePolicy    == [kind |-> "none", prog |-> NoProgram]
ChainPolicies == {NonePolicy, [kind |-> "subtree_bits", prog |-> NoProgram]}
ChainOffers   ==
  {<<2, ToGrate(GrateBase, "forward")>>, <<2, ToGrate(GrateBase, "policy_forward")>>,
   <<GrateBase, ToGrate(GrateBase + 1, "forward")>>, <<GrateBase, ToGrate(GrateBase + 1, "deny")>>,
   <<GrateBase + 1, Raw>>, <<GrateBase + 1, ToGrate(GrateBase, "forward")>>,
   <<GrateBase + 1, ToGrate(GrateBase + 2, "forward")>>}
ChainRequests == {[self |-> 2, target |-> 2, args |-> <<a, 2>>] : a \in {2, 3}}
AllModes      == {PerCall, Cached}

-----------------------------------------------------------------------------
(* dispatch_policy: two threads call the leaf while the policy and NCHECK  *)
(* change under them.                                                      *)

Subtree1       == [name |-> "subtree_check", nargs |-> 1]
PolicyPolicies == {NonePolicy,
                   [kind |-> "grants_hash", prog |-> NoProgram],
                   [kind |-> "bpf", prog |-> Subtree1]}
PolicyNchecks  == {0, 3}
PolicyOffers   == {<<2, Raw>>}
PolicyRequests == {[self |-> 2, target |-> 2, args |-> <<4, 3>>]}
PolicyModes    == {PerCall}
Alike          == Permutations(Thread)
=============================================================================
