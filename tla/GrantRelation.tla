--------------------------- MODULE GrantRelation ---------------------------
(***************************************************************************)
(* What one flavour of the grants table promises: a relation "holder may   *)
(* act on target" that each operation reads or changes in one step.        *)
(***************************************************************************)

CONSTANT Cage

VARIABLES
  may,    \* may[h]: the targets granted to h
  said    \* the last question a check was asked, and its answer

vars == <<may, said>>

Unasked == [ids |-> {}]

Init == may = [h \in Cage |-> {}] /\ said = Unasked

Grant(h, x) == may' = [may EXCEPT ![h] = may[h] \cup {x}] /\ UNCHANGED said

Revoke(h, x) == may' = [may EXCEPT ![h] = may[h] \ {x}] /\ UNCHANGED said

\* The child's grants become those of the parent; what its id held before goes.
Inherit(p, c) == may' = [may EXCEPT ![c] = may[p]] /\ UNCHANGED said

\* Every id asked about is granted to the holder, or is the holder.
Check(h, ids) ==
  /\ said' = [holder |-> h, ids |-> ids, ok |-> ids \subseteq may[h] \cup {h}]
  /\ UNCHANGED may

Next ==
  \E h \in Cage :
    \/ \E x \in Cage : Grant(h, x) \/ Revoke(h, x) \/ Inherit(x, h)
    \/ \E ids \in SUBSET Cage : Check(h, ids)

Spec == Init /\ [][Next]_vars
=============================================================================
