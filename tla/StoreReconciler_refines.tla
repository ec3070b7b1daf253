---------------------- MODULE StoreReconciler_refines ----------------------
(***************************************************************************)
(* StoreReconciler implements Provisioning: the tuples of a Store are what *)
(* is wanted, status.managedTuples what is recorded, and what the OpenFGA  *)
(* store named by status.storeId holds of the Store's tuples is granted.   *)
(***************************************************************************)
EXTENDS StoreReconciler

\* Nothing is granted as far as the status tells, before it names a store.
GrantedTuples ==
  IF Alive(store.status.storeID) THEN fga[store.status.storeID].tuples \cap StoreTuples
                                 ELSE {}

Provided == [phase |-> store.phase, wanted |-> store.tuples,
             recorded |-> store.status.managed, granted |-> GrantedTuples,
             bound |-> patient]

Promise == INSTANCE Provisioning WITH Things <- StoreTuples, obj <- Provided

\* To patient users the Store controller keeps the promise of Provisioning:
\* tuples that spec and status agree on are in the OpenFGA store the status
\* names, and nothing else is recorded or granted than what was asked for
\* (tupleSubroutine).
StoreProvides == Promise!Spec

\* And in the end all of the spec's tuples are recorded.
StoreSettles == Promise!Progress
=============================================================================
