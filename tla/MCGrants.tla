------------------------------ MODULE MCGrants ------------------------------
(***************************************************************************)
(* A small instance of Grants: a holder 1, its child 2 and a target 3.     *)
(***************************************************************************)
EXTENDS Grants, TLC

MCCage      == 1 .. 3
MCEdits     == {<<1, 3>>, <<2, 3>>, <<1, 2>>}
MCForks     == {<<1, 2>>}
MCQuestions == {<<2, {2, 3}>>}
Alike       == Permutations(Thread)
=============================================================================
