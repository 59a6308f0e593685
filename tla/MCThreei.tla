------------------------------ MODULE MCThreei ------------------------------
(***************************************************************************)
(* A small instance of Threei: the root cage and two more ids.             *)
(***************************************************************************)
EXTENDS Threei

MCCage      == 0 .. 2
Asks(s, x, a) == [self |-> s, target |-> x, args |-> <<a>>]

\* A cage acts on a descendant and on itself, in both orders; and on its parent.
MCRequests  == {Asks(1, 2, 1), Asks(1, 1, 2), Asks(0, 1, 2), Asks(2, 1, 2)}
MCQuestions == UNION {{<<r.self, ids>> : ids \in SUBSET Ids(r)} : r \in MCRequests}
MCHows      == Batched \cup Filter
=============================================================================
