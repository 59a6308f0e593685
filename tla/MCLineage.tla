----------------------------- MODULE MCLineage -----------------------------
(***************************************************************************)
(* A small instance of Lineage: the root cage and three more ids.          *)
(***************************************************************************)
EXTENDS Lineage

MCCage == 0 .. 3

\* Every single id, and pairs that make a batch go on after its first id.
MCQuestions == {<<r, {c}>> : r \in {0, 1}, c \in {1, 2, 3}} \cup {<<1, {1, 2}>>, <<0, {2, 3}>>}
=============================================================================
