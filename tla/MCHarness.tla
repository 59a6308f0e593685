----------------------------- MODULE MCHarness -----------------------------
(***************************************************************************)
(* A small instance of Harness: the cages 1 and 2, two spawned threads on  *)
(* the cages 900 and 901, chains of at most two grates, and command lines  *)
(* of which the first three make sense and the others do not.  The flat    *)
(* table has a row for the cage 900 and none for 901.                      *)
(***************************************************************************)
EXTENDS Harness

MCThread  == 0 .. 2
MCCage    == {1, 2, 900, 901}
MCSubtree == [c \in Id |-> IF c = 1 THEN {1, 2} ELSE IF c = 2 THEN {2} ELSE {}]
MCGranted == [c \in Id |-> IF c = 1 THEN {1, 2} ELSE {}]
MCAllow   == 1 .. 8

MCPolicies == {p \in Policy : p.kind = "bpf" <=> p.prog # NoProgram}
MCOffers   == Id \X Handler
MCRequests == Request
MCModes    == {PerCall, Cached}

Flags(n, trials, table, stacks, spawned) ==
  [ncheck |-> n, trials |-> trials, table |-> table, grates |-> stacks, threads |-> spawned]

MCArguments ==
  {Flags(2, 9, "mutex", <<1, 2>>, <<1, 2>>), Flags(0, 1, "dash", <<2, 1>>, <<2>>),
   Flags(2, 1, "flat", <<2>>, <<1>>),
   Flags(2, 9, "flat", <<1>>, <<1, 2>>), Flags(3, 9, "mutex", <<1>>, <<1>>),
   Flags(2, 0, "mutex", <<1>>, <<1>>), Flags(2, 9, "mutex", <<0>>, <<1>>),
   Flags(2, 9, "mutex", <<1>>, <<0>>)}

=============================================================================
