------------------------- MODULE MCStoreReconciler -------------------------
(* Instances of StoreReconciler small enough for TLC, and what it promises *)
(* to those who create a Store.                                            *)
EXTENDS StoreReconciler_refines

CONSTANTS m1, u1

\* The one AuthorizationModel has a tuple of its own.
MCModelTuples == [m \in {m1} |-> {u1}]

\* Patient users make one more edit, the others meet one more fault.
MCMaxEdits  == [p \in BOOLEAN |-> IF p THEN 4 ELSE 3]
MCMaxFaults == [p \in BOOLEAN |-> IF p THEN 1 ELSE 2]
=============================================================================
