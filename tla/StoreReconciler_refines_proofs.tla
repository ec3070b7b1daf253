------------------- MODULE StoreReconciler_refines_proofs -------------------
(***************************************************************************)
(* StoreReconciler implements Provisioning, for every value of the         *)
(* constants: each step of the Store, of its controller, of OpenFGA and of *)
(* the AuthorizationModels next to it is a step of Provisioning or changes *)
(* nothing there.  The ids come from StoreReconciler_proofs; what is new   *)
(* here is about the tuples.  The second half is about all tuples, those   *)
(* of the AuthorizationModels too: none is forgotten, and no store goes    *)
(* while an AuthorizationModel refers to it.                               *)
(***************************************************************************)
EXTENDS StoreReconciler_refines, StoreReconciler_proofs

ForwardPCs == {"find", "create"} \cup ProcessPCs

\* The Store's tuples in the i-th store of an OpenFGA.
Own(f, i) == f[i].tuples \cap StoreTuples

\* Before there is a store, nothing is managed; a finalizer manages no more than the
\* object says; and the AuthorizationModels deal in their own tuples only.
OwnersInv ==
  /\ store.phase = "absent" => store = NoStore
  /\ store.status.storeID = NoId => store.status.managed = {}
  /\ run.status.storeID = NoId => run.status.managed = {}
  /\ run.pc \in FinalPCs => run.status.managed \subseteq store.status.managed
  /\ \A m \in Models : /\ model[m].tuples \subseteq ModelTuples[m]
                       /\ model[m].managed \subseteq ModelTuples[m]
                       /\ mrun[m].tuples \subseteq ModelTuples[m]
                       /\ mrun[m].managed \subseteq ModelTuples[m]

\* With patient users a reconcile has the tuples of the spec as it is; what it
\* manages is what the object says until all are applied, then those.
ForwardInv ==
  patient /\ run.pc \in ForwardPCs =>
    /\ store.phase = "live" /\ run.tuples = store.tuples
    /\ run.pc # "persist" => run.status.managed = store.status.managed
    /\ run.pc = "persist" => run.status.managed = run.tuples
    /\ run.pc \in {"prune", "persist"} => run.tuples \subseteq Own(fga, run.status.storeID)

\* What spec and status agree on is there.
KeptInv ==
  patient /\ store.phase = "live" /\ store.status.storeID # NoId =>
     store.tuples \cap store.status.managed \subseteq Own(fga, store.status.storeID)

\* A store that the status does not name yet has tuples of the spec only, and a
\* store of this name is gone before the object is.
FreshInv ==
  patient =>
    /\ store.phase = "deleting" => store.status.storeID # NoId
    /\ store.phase = "absent" \/ run.pc = "remove" => \A i \in Ids : ~ Ours(i)
    /\ store.phase = "live" /\ store.status.storeID = NoId =>
         /\ \A i \in Ids : Ours(i) => Own(fga, i) \subseteq store.tuples
         /\ run.pc \in ProcessPCs => Own(fga, run.status.storeID) \subseteq store.tuples

----------------------------------------------------------------------------
(* Writes of tuples, seen from the Store.                                  *)

LEMMA OwnApplied ==
  ASSUME TypeOK, NEW id, NEW tuples, Writable(id, tuples), fga' = Applied(id, tuples)
  PROVE  \A i \in Ids : Own(fga', i) = IF i = id THEN Own(fga, i) \cup (tuples \cap StoreTuples)
                                                  ELSE Own(fga, i)
  BY DEF TypeOK, FgaStores, Writable, Alive, Applied, Own

LEMMA OwnRemoved ==
  ASSUME TypeOK, NEW id, NEW tuples, Writable(id, tuples), fga' = Removed(id, tuples)
  PROVE  \A i \in Ids : Own(fga', i) = IF i = id THEN Own(fga, i) \ tuples
                                                  ELSE Own(fga, i)
  BY DEF TypeOK, FgaStores, Writable, Alive, Removed, Own

\* The AuthorizationModels, their controller and users do not touch them.
LEMMA OthersKeepTuples ==
  ASSUME TypeOK, OwnersInv,
         \/ Environment
         \/ \E m \in Models : ModelWorker(m) \/ ModelFault(m) \/ DeliverModelEvent(m)
  PROVE  \A i \in Ids : Own(fga', i) = Own(fga, i)
<1>1. CASE fga' = fga
  BY <1>1 DEF Own
<1>2. ASSUME NEW i \in Ids, RenameByHand(i)
      PROVE  \A j \in Ids : Own(fga', j) = Own(fga, j)
  BY <1>2 DEF RenameByHand, TypeOK, FgaStores, Own
<1>3. ASSUME NEW m \in Models,
             ApplyModelTuples(m) \/ PruneModelTuples(m) \/ FinalizeModelTuples(m)
      PROVE  \A j \in Ids : Own(fga', j) = Own(fga, j)
  <2>1. /\ mrun[m].tuples \cap StoreTuples = {}
        /\ mrun[m].managed \cap StoreTuples = {}
    BY TuplesAreDisjoint DEF OwnersInv
  <2>2. CASE ApplyModelTuples(m)
    BY <2>1, <2>2, OwnApplied DEF ApplyModelTuples, Own
  <2>3. CASE PruneModelTuples(m)
    BY <2>1, <2>3, OwnRemoved DEF PruneModelTuples, Own
  <2>4. CASE FinalizeModelTuples(m)
    BY <2>1, <2>4, OwnRemoved DEF FinalizeModelTuples, Own
  <2> QED
    BY <1>3, <2>2, <2>3, <2>4
<1>4. CASE Environment
  <2>1. fga' = fga \/ \E i \in Ids : RenameByHand(i)
    BY <1>4
    DEF Environment, CreateStoreObject, EditStoreObject, DeleteStoreObject,
        CreateModelObject, EditModelObject, DeleteModelObject
  <2> QED
    BY <1>1, <1>2, <2>1
<1>5. ASSUME NEW m \in Models, ModelWorker(m) \/ ModelFault(m) \/ DeliverModelEvent(m)
      PROVE  \A j \in Ids : Own(fga', j) = Own(fga, j)
  <2>1. \/ fga' = fga
        \/ ApplyModelTuples(m) \/ PruneModelTuples(m) \/ FinalizeModelTuples(m)
    BY <1>5
    DEF ModelWorker, ModelFault, DeliverModelEvent, BeginModel, GetStoreOfModel,
        PersistModelStatus, RemoveModelObject, ModelRefused, EndModelRun
  <2> QED
    BY <1>1, <1>3, <2>1
<1> QED
  BY <1>4, <1>5

----------------------------------------------------------------------------
(* What the steps of the Store's controller do to the object and the copy. *)

\* Steps along the chain that leave the tuples in both alone.
LEMMA PlainSteps ==
  ASSUME TypeOK,
         \/ FindStoreByName \/ CreateFgaStore \/ CheckStoreName \/ UpdateStoreName
         \/ ListRelatedModels \/ WriteModelIfChanged \/ ApplyStoreTuples
         \/ CheckRelatedModels \/ DeleteFgaStore
  PROVE  /\ UNCHANGED store /\ run'.tuples = run.tuples
         /\ run'.status.managed = run.status.managed
         /\ run'.pc \notin {"persist", "idle"} /\ run.pc \notin {"persist", "idle"}
         /\ run'.pc = "prune" => ApplyStoreTuples
         /\ run'.pc \in ForwardPCs => run.pc \in ForwardPCs
         /\ run'.pc \in FinalPCs => run.pc \in FinalPCs
         /\ run'.pc = "remove" => run.status.storeID = NoId \/ DeleteFgaStore
<1>0. run \in StoreRuns /\ run.status \in Status
  BY DEF TypeOK, StoreRuns
<1> USE DEF ForwardPCs, ProcessPCs, FinalPCs
<1>1. CASE FindStoreByName
  <2>1. ASSUME NEW i \in FirstPage,
               StoreStepWith("find", "list", [run.status EXCEPT !.storeID = i])
        PROVE  /\ UNCHANGED store /\ run'.tuples = run.tuples
               /\ run'.status.managed = run.status.managed
               /\ run.pc = "find" /\ run'.pc = "list"
    BY <1>0, <2>1, StepWithShape DEF Status
  <2>2. CASE StoreStep("find", "create")
    BY <2>2, StepShape
  <2> QED
    BY <1>1, <2>1, <2>2 DEF FindStoreByName
<1>2. CASE CreateFgaStore
  <2>1. PICK i \in Ids : StoreStepWith("create", "list", [run.status EXCEPT !.storeID = i])
    BY <1>2 DEF CreateFgaStore
  <2> QED
    BY <1>0, <2>1, StepWithShape DEF Status
<1>3. CASE CheckStoreName
  <2>1. StoreStep("check", "list") \/ StoreStep("check", "rename")
    BY <1>3 DEF CheckStoreName
  <2> QED
    BY <2>1, StepShape
<1>4. CASE UpdateStoreName
  BY <1>4, StepShape DEF UpdateStoreName
<1>5. CASE ListRelatedModels
  BY <1>0, <1>5 DEF ListRelatedModels, StoreRuns
<1>6. CASE WriteModelIfChanged
  <2>1. CASE StoreStep("write", "apply")
    BY <2>1, StepShape
  <2>2. CASE StoreStepWith("write", "apply", [run.status EXCEPT !.modelID = run.desired])
    BY <1>0, <2>2, StepWithShape DEF Status
  <2> QED
    BY <1>6, <2>1, <2>2 DEF WriteModelIfChanged
<1>7. CASE ApplyStoreTuples
  BY <1>7, StepShape DEF ApplyStoreTuples
<1>8. CASE CheckRelatedModels
  <2>1. CASE run.status.storeID = NoId /\ StoreStep("related", "remove")
    BY <2>1, StepShape
  <2>2. CASE StoreStep("related", "drop")
    BY <2>2, StepShape
  <2> QED
    BY <1>8, <2>1, <2>2 DEF CheckRelatedModels
<1>9. CASE DeleteFgaStore
  BY <1>9, StepShape DEF DeleteFgaStore
<1> QED
  BY <1>1, <1>2, <1>3, <1>4, <1>5, <1>6, <1>7, <1>8, <1>9

LEMMA BeginShape ==
  ASSUME TypeOK, BeginStore
  PROVE  /\ UNCHANGED <<store, fga>> /\ run.pc = "idle"
         /\ \/ UNCHANGED run
            \/ /\ run'.tuples = store.tuples /\ run'.status = store.status
               /\ run'.pc \in {"find", "check", "related", "untuple"}
               /\ run'.pc \in {"find", "check"} => store.phase = "live"
<1>1. store \in StoreObjects
  BY DEF TypeOK
<1> QED
  BY <1>1 DEF BeginStore, StoreObjects, Phases

\* The end of a reconcile, early or late, writes the copy of the status or not.
LEMMA EndShape ==
  ASSUME TypeOK, PersistStoreStatus \/ StoreRefused \/ StoreFault
  PROVE  /\ fga' = fga /\ run' = Idle /\ run.pc # "idle"
         /\ store'.phase = store.phase /\ store'.tuples = store.tuples
         /\ store' = store \/ store'.status = run.status
<1>1. store \in StoreObjects
  BY DEF TypeOK
<1>2. CASE PersistStoreStatus
  BY <1>1, <1>2 DEF PersistStoreStatus, StoreObjects
<1>3. CASE StoreRefused \/ StoreFault
  <2>1. EndStoreRun /\ fga' = fga /\ run.pc # "idle"
    BY <1>3 DEF StoreRefused, StoreFault, EndStoreRun
  <2> QED
    BY <1>1, <2>1 DEF EndStoreRun, StoreObjects
<1> QED
  BY <1>2, <1>3

LEMMA PruneShape ==
  ASSUME TypeOK, PruneStoreTuples
  PROVE  /\ UNCHANGED store /\ run'.tuples = run.tuples
         /\ run.pc = "prune" /\ run'.pc = "persist"
         /\ run'.status.storeID = run.status.storeID
         /\ run'.status.managed = run.tuples
<1>0. run \in StoreRuns /\ run.status \in Status
  BY DEF TypeOK, StoreRuns
<1> QED
  BY <1>0, StepWithShape DEF PruneStoreTuples, Status

LEMMA FinalizeShape ==
  ASSUME TypeOK, FinalizeStoreTuples
  PROVE  /\ UNCHANGED store /\ run'.tuples = run.tuples
         /\ run.pc = "untuple" /\ run'.pc = "release"
         /\ run'.status.storeID = run.status.storeID
         /\ run'.status.managed = {}
<1>0. run \in StoreRuns /\ run.status \in Status
  BY DEF TypeOK, StoreRuns
<1> QED
  BY <1>0, StepWithShape DEF FinalizeStoreTuples, Status

LEMMA ReleaseShape ==
  ASSUME TypeOK, ReleaseTuplesFinalizer
  PROVE  /\ fga' = fga /\ run.pc = "release" /\ run'.pc = "related"
         /\ run'.tuples = run.tuples /\ run'.status = run.status
         /\ store'.phase = store.phase /\ store'.tuples = store.tuples
         /\ store'.status = store.status
<1>0. run \in StoreRuns /\ store \in StoreObjects
  BY DEF TypeOK
<1> QED
  BY <1>0 DEF ReleaseTuplesFinalizer, StoreRuns, StoreObjects

Plain ==
  \/ FindStoreByName \/ CreateFgaStore \/ CheckStoreName \/ UpdateStoreName
  \/ ListRelatedModels \/ WriteModelIfChanged \/ ApplyStoreTuples
  \/ CheckRelatedModels \/ DeleteFgaStore

\* The steps of the Store's controller, by what they do to the tuples.
LEMMA StoreSteps ==
  ASSUME StoreWorker \/ StoreFault
  PROVE  \/ BeginStore \/ Plain \/ PruneStoreTuples \/ FinalizeStoreTuples
         \/ ReleaseTuplesFinalizer \/ RemoveStoreObject
         \/ PersistStoreStatus \/ StoreRefused \/ StoreFault
  BY DEF StoreWorker, Plain

\* All but the creation of a store keep the id in the copy.
LEMMA PlainIds ==
  ASSUME TypeOK, Plain
  PROVE  \/ run'.status.storeID = run.status.storeID
         \/ run.pc = "find" /\ run'.pc = "list" /\ fga' = fga
            /\ run'.status.storeID \in Ids /\ Ours(run'.status.storeID)
         \/ CreateFgaStore /\ run'.status.storeID \in Ids
<1>0. run \in StoreRuns /\ run.status \in Status
  BY DEF TypeOK, StoreRuns
<1>1. CASE FindStoreByName
  <2>1. ASSUME NEW i \in FirstPage, fga[i].ours,
               StoreStepWith("find", "list", [run.status EXCEPT !.storeID = i])
        PROVE  /\ run.pc = "find" /\ run'.pc = "list" /\ run'.status.storeID = i
               /\ i \in Ids /\ Ours(i)
    BY <1>0, <2>1, StepWithShape DEF Status, FirstPage, Ours
  <2>2. CASE StoreStep("find", "create")
    BY <2>2, StepShape
  <2> QED
    BY <1>1, <2>1, <2>2 DEF FindStoreByName
<1>2. CASE CreateFgaStore
  <2>1. PICK i \in Ids : StoreStepWith("create", "list", [run.status EXCEPT !.storeID = i])
    BY <1>2 DEF CreateFgaStore
  <2> QED
    BY <1>0, <1>2, <2>1, StepWithShape DEF Status
<1>3. CASE CheckStoreName \/ UpdateStoreName \/ ApplyStoreTuples \/ CheckRelatedModels
           \/ DeleteFgaStore
  BY <1>3, StepShape
  DEF CheckStoreName, UpdateStoreName, ApplyStoreTuples, CheckRelatedModels, DeleteFgaStore
<1>4. CASE ListRelatedModels
  BY <1>0, <1>4 DEF ListRelatedModels, StoreRuns
<1>5. CASE WriteModelIfChanged
  BY <1>0, <1>5, StepShape, StepWithShape DEF WriteModelIfChanged, Status
<1> QED
  BY <1>1, <1>2, <1>3, <1>4, <1>5 DEF Plain

----------------------------------------------------------------------------
(* The invariants are inductive.                                           *)

ModelsKeepToThemselves ==
  \A m \in Models : /\ model[m].tuples \subseteq ModelTuples[m]
                    /\ model[m].managed \subseteq ModelTuples[m]
                    /\ mrun[m].tuples \subseteq ModelTuples[m]
                    /\ mrun[m].managed \subseteq ModelTuples[m]

LEMMA ModelsStep ==
  ASSUME TypeOK, ModelsKeepToThemselves, [Next]_vars
  PROVE  ModelsKeepToThemselves'
<1>0. model \in [Models -> ModelObjects] /\ mrun \in [Models -> ModelRuns]
  BY DEF TypeOK
<1> USE DEF ModelsKeepToThemselves
<1>1. CASE UNCHANGED <<model, mrun>>
  BY <1>1
<1>2. ASSUME NEW m \in Models, NEW content \in Versions,
             NEW tuples \in SUBSET ModelTuples[m],
             CreateModelObject(m, content, tuples) \/ EditModelObject(m, content, tuples)
      PROVE  ModelsKeepToThemselves'
  BY <1>0, <1>2 DEF CreateModelObject, EditModelObject, ModelObjects
<1>3. ASSUME NEW m \in Models, DeleteModelObject(m)
      PROVE  ModelsKeepToThemselves'
  BY <1>0, <1>3 DEF DeleteModelObject, ModelObjects
<1>4. CASE Environment
  <2>1. ASSUME NEW core \in Versions, NEW tuples \in SUBSET StoreTuples,
               CreateStoreObject(core, tuples) \/ EditStoreObject(core, tuples)
        PROVE  UNCHANGED <<model, mrun>>
    BY <2>1 DEF CreateStoreObject, EditStoreObject, modelVars
  <2>2. CASE DeleteStoreObject
    BY <2>2, <1>1 DEF DeleteStoreObject, modelVars
  <2>3. ASSUME NEW i \in Ids, RenameByHand(i) PROVE UNCHANGED <<model, mrun>>
    BY <2>3 DEF RenameByHand, modelVars
  <2> QED
    BY <1>1, <1>2, <1>3, <1>4, <2>1, <2>2, <2>3 DEF Environment
<1>5. CASE StoreWorker \/ StoreFault
  <2>1. UNCHANGED modelVars
    BY <1>5
    DEF StoreWorker, StoreFault, StoreRefused, EndStoreRun, StoreStep, StoreStepWith,
        BeginStore, FindStoreByName, CreateFgaStore, CheckStoreName, UpdateStoreName,
        ListRelatedModels, WriteModelIfChanged, ApplyStoreTuples, PruneStoreTuples,
        PersistStoreStatus, FinalizeStoreTuples, ReleaseTuplesFinalizer,
        CheckRelatedModels, DeleteFgaStore, RemoveStoreObject
  <2> QED
    BY <1>1, <2>1 DEF modelVars
<1>6. ASSUME NEW m \in Models, ModelWorker(m) \/ ModelFault(m) \/ DeliverModelEvent(m)
      PROVE  ModelsKeepToThemselves'
  <2>1. CASE BeginModel(m)
    BY <1>0, <2>1 DEF BeginModel, ModelRuns, ModelObjects
  <2>2. CASE GetStoreOfModel(m)
    BY <1>0, <2>2 DEF GetStoreOfModel, ModelRuns
  <2>3. CASE ApplyModelTuples(m) \/ PruneModelTuples(m) \/ FinalizeModelTuples(m)
    BY <1>0, <2>3
    DEF ApplyModelTuples, PruneModelTuples, FinalizeModelTuples, ModelStep, ModelRuns
  <2>4. CASE PersistModelStatus(m)
    BY <1>0, <2>4 DEF PersistModelStatus, ModelRuns, ModelObjects, IdleM
  <2>5. CASE RemoveModelObject(m)
    BY <1>0, <2>5 DEF RemoveModelObject, ModelRuns, ModelObjects, IdleM, NoModel
  <2>6. CASE ModelRefused(m) \/ ModelFault(m)
    BY <1>0, <2>6 DEF ModelRefused, ModelFault, EndModelRun, ModelRuns, IdleM
  <2>7. CASE DeliverModelEvent(m)
    BY <2>7, <1>1 DEF DeliverModelEvent, modelVars
  <2> QED
    BY <1>6, <2>1, <2>2, <2>3, <2>4, <2>5, <2>6, <2>7 DEF ModelWorker
<1>7. CASE UNCHANGED vars
  BY <1>1, <1>7 DEF vars
<1> QED
  BY <1>4, <1>5, <1>6, <1>7 DEF Next

LEMMA OwnersStep == TypeOK /\ ChainInv /\ OwnersInv /\ [Next]_vars => OwnersInv'
<1> SUFFICES ASSUME TypeOK, ChainInv, OwnersInv, [Next]_vars PROVE OwnersInv'
  OBVIOUS
<1> DEFINE StorePart == /\ store.phase = "absent" => store = NoStore
                        /\ store.status.storeID = NoId => store.status.managed = {}
                        /\ run.status.storeID = NoId => run.status.managed = {}
                        /\ run.pc \in FinalPCs =>
                             run.status.managed \subseteq store.status.managed
<1>1. OwnersInv <=> StorePart /\ ModelsKeepToThemselves
  BY DEF OwnersInv, ModelsKeepToThemselves
<1>2. OwnersInv' <=> StorePart' /\ ModelsKeepToThemselves'
  BY DEF OwnersInv, ModelsKeepToThemselves
<1>3. ModelsKeepToThemselves'
  BY <1>1, ModelsStep
<1>4. StorePart'
  <2>0. StorePart
    BY <1>1
  <2>1. CASE Environment
    BY <2>0, <2>1, EditSteps DEF NewStatus, ChainInv, FinalPCs
  <2>2. CASE BeginStore
    BY <2>0, <2>2, BeginShape
  <2>3. CASE Plain
    <3>1. /\ UNCHANGED store /\ run'.status.managed = run.status.managed
          /\ run'.pc \in FinalPCs => run.pc \in FinalPCs
      BY <2>3, PlainSteps DEF Plain
    <3>2. run'.status.storeID = run.status.storeID \/ run'.status.storeID \in Ids
      BY <2>3, PlainIds
    <3> QED
      BY <2>0, <3>1, <3>2 DEF Ids, NoId
  <2>4. CASE PruneStoreTuples
    <3>1. run.status.storeID # NoId
      BY <2>4, PruneShape DEF ChainInv, ProcessPCs
    <3> QED
      BY <2>0, <2>4, <3>1, PruneShape DEF FinalPCs
  <2>5. CASE FinalizeStoreTuples
    BY <2>0, <2>5, FinalizeShape
  <2>6. CASE ReleaseTuplesFinalizer
    BY <2>0, <2>6, ReleaseShape DEF ChainInv, FinalPCs
  <2>7. CASE RemoveStoreObject
    BY <2>7 DEF RemoveStoreObject, NoStore, Idle, NewStatus
  <2>8. CASE PersistStoreStatus \/ StoreRefused \/ StoreFault
    <3>1. store.phase # "absent"
      BY <2>8, EndShape DEF ChainInv
    <3> QED
      BY <2>0, <2>8, <3>1, EndShape DEF Idle, NewStatus
  <2>9. ASSUME NEW m \in Models, ModelWorker(m) \/ ModelFault(m) \/ DeliverModelEvent(m)
        PROVE  StorePart'
    BY <2>0, <2>9, OtherSteps
  <2>10. CASE UNCHANGED vars
    BY <2>0, <2>10 DEF vars
  <2> HIDE DEF StorePart
  <2> QED
    BY <2>1, <2>2, <2>3, <2>4, <2>5, <2>6, <2>7, <2>8, <2>9, <2>10, StoreSteps DEF Next
<1> QED
  BY <1>2, <1>3, <1>4

----------------------------------------------------------------------------
(* What the steps of the Store's controller do to the tuples in OpenFGA.   *)

\* Tuples come from the copy of the spec only.
LEMMA TuplesGrow ==
  ASSUME TypeOK, StoreWorker \/ StoreFault, NEW i \in Ids
  PROVE  \/ Own(fga', i) \subseteq Own(fga, i)
         \/ ApplyStoreTuples /\ i = run.status.storeID
            /\ Own(fga', i) = Own(fga, i) \cup run.tuples
<1>0. /\ fga \in [Ids -> FgaStores] /\ run.tuples \subseteq StoreTuples
  BY DEF TypeOK, StoreRuns
<1>1. CASE ApplyStoreTuples
  <2>1. run.tuples \cap StoreTuples = run.tuples
    BY <1>0
  <2>2. Own(fga', i) = IF i = run.status.storeID
                         THEN Own(fga, i) \cup (run.tuples \cap StoreTuples)
                         ELSE Own(fga, i)
    BY <1>1, OwnApplied DEF ApplyStoreTuples
  <2> QED
    BY <1>1, <2>1, <2>2
<1>2. CASE PruneStoreTuples
  BY <1>2, OwnRemoved DEF PruneStoreTuples
<1>3. CASE FinalizeStoreTuples
  BY <1>3, OwnRemoved DEF FinalizeStoreTuples
<1>4. CASE CreateFgaStore
  BY <1>0, <1>4 DEF CreateFgaStore, Own
<1>5. CASE DeleteFgaStore
  BY <1>0, <1>5 DEF DeleteFgaStore, Own
<1>6. CASE UpdateStoreName \/ WriteModelIfChanged
  BY <1>0, <1>6 DEF UpdateStoreName, WriteModelIfChanged, Alive, FgaStores, Own
<1>7. CASE fga' = fga
  BY <1>7 DEF Own
<1> QED
  BY <1>1, <1>2, <1>3, <1>4, <1>5, <1>6, <1>7
  DEF StoreWorker, StoreFault, StoreRefused, EndStoreRun, BeginStore, FindStoreByName,
      CheckStoreName, ListRelatedModels, PersistStoreStatus, ReleaseTuplesFinalizer,
      CheckRelatedModels, RemoveStoreObject

\* Going forward, a reconcile takes away only what it manages and does not want.
LEMMA TuplesStay ==
  ASSUME TypeOK, StoreWorker \/ StoreFault, run.pc \notin FinalPCs, NEW i \in Ids, Alive(i)
  PROVE  \/ Own(fga, i) \subseteq Own(fga', i)
         \/ PruneStoreTuples /\ i = run.status.storeID
            /\ Own(fga', i) = Own(fga, i) \ (run.status.managed \ run.tuples)
<1>0. /\ fga \in [Ids -> FgaStores] /\ run.tuples \subseteq StoreTuples
  BY DEF TypeOK, StoreRuns
<1>1. CASE ApplyStoreTuples
  BY <1>0, <1>1, OwnApplied DEF ApplyStoreTuples
<1>2. CASE PruneStoreTuples
  <2> DEFINE stale == run.status.managed \ run.tuples
  <2>1. /\ Writable(run.status.storeID, stale)
        /\ fga' = Removed(run.status.storeID, stale)
    BY <1>2 DEF PruneStoreTuples
  <2>2. Own(fga', i) = IF i = run.status.storeID THEN Own(fga, i) \ stale ELSE Own(fga, i)
    <3> HIDE DEF stale
    <3> QED
      BY <2>1, OwnRemoved
  <2> QED
    BY <1>2, <2>2
<1>3. CASE FinalizeStoreTuples
  BY <1>3, FinalizeShape DEF FinalPCs
<1>4. CASE CreateFgaStore
  BY <1>0, <1>4 DEF CreateFgaStore, Own, Alive
<1>5. CASE DeleteFgaStore
  BY <1>5, StepShape DEF DeleteFgaStore, FinalPCs
<1>6. CASE UpdateStoreName \/ WriteModelIfChanged
  BY <1>0, <1>6 DEF UpdateStoreName, WriteModelIfChanged, Alive, FgaStores, Own
<1>7. CASE fga' = fga
  BY <1>7 DEF Own
<1> QED
  BY <1>1, <1>2, <1>3, <1>4, <1>5, <1>6, <1>7
  DEF StoreWorker, StoreFault, StoreRefused, EndStoreRun, BeginStore, FindStoreByName,
      CheckStoreName, ListRelatedModels, PersistStoreStatus, ReleaseTuplesFinalizer,
      CheckRelatedModels, RemoveStoreObject

----------------------------------------------------------------------------
\* Users are as patient as they were.
LEMMA PatienceStays == ASSUME [Next]_vars PROVE patient' = patient
<1>1. CASE Environment
  BY <1>1
  DEF Environment, MayEdit, CreateStoreObject, EditStoreObject, DeleteStoreObject,
      CreateModelObject, EditModelObject, DeleteModelObject, RenameByHand
<1>2. CASE StoreWorker \/ StoreFault
  BY <1>2
  DEF StoreWorker, StoreFault, StoreRefused, EndStoreRun, StoreStep, StoreStepWith,
      BeginStore, FindStoreByName, CreateFgaStore, CheckStoreName, UpdateStoreName,
      ListRelatedModels, WriteModelIfChanged, ApplyStoreTuples, PruneStoreTuples,
      PersistStoreStatus, FinalizeStoreTuples, ReleaseTuplesFinalizer,
      CheckRelatedModels, DeleteFgaStore, RemoveStoreObject
<1>3. ASSUME NEW m \in Models, ModelWorker(m) \/ ModelFault(m) \/ DeliverModelEvent(m)
      PROVE  patient' = patient
  BY <1>3
  DEF ModelWorker, ModelFault, DeliverModelEvent, BeginModel, GetStoreOfModel,
      ApplyModelTuples, PruneModelTuples, PersistModelStatus, FinalizeModelTuples,
      RemoveModelObject, ModelRefused, EndModelRun, ModelStep
<1>4. CASE UNCHANGED vars
  BY <1>4 DEF vars
<1> QED
  BY <1>1, <1>2, <1>3, <1>4 DEF Next

\* What the edits of the users ask for.
LEMMA Edits ==
  ASSUME TypeOK, Environment
  PROVE  /\ run' = run
         /\ \/ store' = store
            \/ /\ store.phase = "absent" /\ store'.phase = "live"
               /\ store'.status = NewStatus /\ store'.tuples \in SUBSET StoreTuples
               /\ fga' = fga
            \/ /\ patient => StoreSettled
               /\ store.phase = "live" /\ store'.phase = "live"
               /\ store'.status = store.status /\ store'.tuples \in SUBSET StoreTuples
               /\ fga' = fga
            \/ /\ patient => StoreSettled
               /\ store.phase = "live" /\ store'.phase = "deleting"
               /\ store'.status = store.status /\ store'.tuples = store.tuples
               /\ fga' = fga
<1>0. store \in StoreObjects
  BY DEF TypeOK
<1>1. ASSUME NEW core \in Versions, NEW tuples \in SUBSET StoreTuples,
             CreateStoreObject(core, tuples)
      PROVE  /\ run' = run /\ store.phase = "absent" /\ store'.phase = "live"
             /\ store'.status = NewStatus /\ store'.tuples = tuples /\ fga' = fga
  BY <1>1 DEF CreateStoreObject, NoStore
<1>2. ASSUME NEW core \in Versions, NEW tuples \in SUBSET StoreTuples,
             EditStoreObject(core, tuples)
      PROVE  /\ run' = run /\ store.phase = "live" /\ store'.phase = "live"
             /\ store'.status = store.status /\ store'.tuples = tuples /\ fga' = fga
             /\ patient => StoreSettled
  BY <1>0, <1>2 DEF EditStoreObject, StoreObjects
<1>3. CASE DeleteStoreObject
  <2>1. /\ run' = run /\ store.phase = "live" /\ store'.phase = "deleting"
        /\ store'.status = store.status /\ store'.tuples = store.tuples /\ fga' = fga
        /\ patient => StoreSettled
    BY <1>0, <1>3 DEF DeleteStoreObject, StoreObjects
  <2> QED
    BY <2>1
<1>4. ASSUME NEW m \in Models, NEW content \in Versions,
             NEW tuples \in SUBSET ModelTuples[m],
             CreateModelObject(m, content, tuples) \/ EditModelObject(m, content, tuples)
      PROVE  UNCHANGED <<store, run>>
  BY <1>4 DEF CreateModelObject, EditModelObject, storeVars
<1>5. ASSUME NEW m \in Models, DeleteModelObject(m) PROVE UNCHANGED <<store, run>>
  BY <1>5 DEF DeleteModelObject, storeVars
<1>6. ASSUME NEW i \in Ids, RenameByHand(i) PROVE UNCHANGED <<store, run>>
  BY <1>6 DEF RenameByHand, storeVars
<1> QED
  BY <1>1, <1>2, <1>3, <1>4, <1>5, <1>6 DEF Environment

----------------------------------------------------------------------------
(* The invariants about patient users.                                     *)

KnownIds == TypeOK /\ ChainInv /\ NamesInv /\ OwnersInv

LEMMA ForwardStep == KnownIds /\ ForwardInv /\ [Next]_vars => ForwardInv'
<1> SUFFICES ASSUME KnownIds, ForwardInv, [Next]_vars, patient, run'.pc \in ForwardPCs
             PROVE  /\ store'.phase = "live" /\ run'.tuples = store'.tuples
                    /\ run'.pc # "persist" => run'.status.managed = store'.status.managed
                    /\ run'.pc = "persist" => run'.status.managed = run'.tuples
                    /\ run'.pc \in {"prune", "persist"} =>
                         run'.tuples \subseteq Own(fga', run'.status.storeID)
  BY PatienceStays DEF ForwardInv
<1>0. /\ TypeOK /\ ChainInv /\ OwnersInv /\ run.status.storeID \in Ids \cup {NoId}
      /\ store.status.storeID \in Ids \cup {NoId}
  BY DEF KnownIds, TypeOK, StoreRuns, StoreObjects, Status
<1>1. CASE Environment
  <2>1. run' = run /\ store' = store
    BY <1>0, <1>1, Edits DEF StoreSettled, ChainInv, ForwardPCs, ProcessPCs
  <2>2. run.pc \in {"prune", "persist"} =>
          Own(fga', run.status.storeID) = Own(fga, run.status.storeID)
    BY <1>0, <1>1, OthersKeepTuples DEF ChainInv, ProcessPCs
  <2> QED
    BY <2>1, <2>2 DEF ForwardInv
<1>2. CASE BeginStore
  BY <1>0, <1>2, BeginShape DEF ForwardInv, ForwardPCs, ProcessPCs, Own
<1>3. CASE Plain
  <2>1. /\ UNCHANGED store /\ run'.tuples = run.tuples
        /\ run'.status.managed = run.status.managed
        /\ run.pc \in ForwardPCs /\ run.pc # "persist" /\ run'.pc # "persist"
        /\ run'.pc = "prune" => ApplyStoreTuples
    BY <1>0, <1>3, PlainSteps DEF Plain
  <2>2. CASE ApplyStoreTuples
    <3>1. /\ run.pc = "apply" /\ run.status.storeID \in Ids
          /\ run'.status.storeID = run.status.storeID
      BY <1>0, <2>2, StepShape DEF ApplyStoreTuples, ChainInv, ProcessPCs
    <3>2. run.tuples \subseteq Own(fga', run.status.storeID)
      <4>1. Own(fga', run.status.storeID)
              = Own(fga, run.status.storeID) \cup (run.tuples \cap StoreTuples)
        BY <1>0, <2>2, <3>1, OwnApplied DEF ApplyStoreTuples
      <4>2. run.tuples \subseteq StoreTuples
        BY <1>0 DEF TypeOK, StoreRuns
      <4> QED
        BY <4>1, <4>2
    <3> QED
      BY <2>1, <3>1, <3>2 DEF ForwardInv
  <2> QED
    BY <2>1, <2>2 DEF ForwardInv
<1>4. CASE PruneStoreTuples
  <2>1. /\ run.pc \in ForwardPCs /\ run.status.storeID \in Ids
    BY <1>0, <1>4, PruneShape DEF ForwardPCs, ProcessPCs, ChainInv
  <2>2. Own(fga', run.status.storeID)
          = Own(fga, run.status.storeID) \ (run.status.managed \ run.tuples)
    BY <1>0, <1>4, <2>1, OwnRemoved DEF PruneStoreTuples
  <2>3. run.tuples \subseteq Own(fga', run.status.storeID)
    BY <1>0, <1>4, <2>1, <2>2, PruneShape DEF ForwardInv
  <2> QED
    BY <1>0, <1>4, <2>1, <2>3, PruneShape DEF ForwardInv
<1>5. CASE FinalizeStoreTuples
  BY <1>0, <1>5, FinalizeShape DEF ForwardPCs, ProcessPCs
<1>6. CASE ReleaseTuplesFinalizer
  BY <1>0, <1>6, ReleaseShape DEF ForwardPCs, ProcessPCs
<1>7. CASE RemoveStoreObject
  BY <1>7 DEF RemoveStoreObject, Idle, ForwardPCs, ProcessPCs
<1>8. CASE PersistStoreStatus \/ StoreRefused \/ StoreFault
  BY <1>0, <1>8, EndShape DEF Idle, ForwardPCs, ProcessPCs
<1>9. ASSUME NEW m \in Models, ModelWorker(m) \/ ModelFault(m) \/ DeliverModelEvent(m)
      PROVE  ForwardInv'
  <2>1. run.pc \in {"prune", "persist"} =>
          Own(fga', run.status.storeID) = Own(fga, run.status.storeID)
    BY <1>0, <1>9, OthersKeepTuples DEF ChainInv, ProcessPCs
  <2> QED
    BY <1>9, <2>1, OtherSteps, PatienceStays DEF ForwardInv
<1>10. CASE UNCHANGED vars
  BY <1>10 DEF vars, ForwardInv, Own
<1> QED
  BY <1>1, <1>2, <1>3, <1>4, <1>5, <1>6, <1>7, <1>8, <1>9, <1>10, StoreSteps, PatienceStays
  DEF Next, ForwardInv

LEMMA KeptStep ==
  KnownIds /\ ForwardInv /\ KeptInv /\ [Next]_vars => KeptInv'
<1> SUFFICES ASSUME KnownIds, ForwardInv, KeptInv, [Next]_vars, patient,
                    store'.phase = "live", store'.status.storeID # NoId
             PROVE  store'.tuples \cap store'.status.managed
                      \subseteq Own(fga', store'.status.storeID)
  BY PatienceStays DEF KeptInv
<1>0. /\ TypeOK /\ ChainInv /\ OwnersInv /\ run.status.storeID \in Ids \cup {NoId}
      /\ store.status.storeID \in Ids \cup {NoId}
      /\ run.pc \in StorePCs
      /\ store.tuples \subseteq StoreTuples
  BY DEF KnownIds, TypeOK, StoreRuns, StoreObjects, Status
<1>1. CASE Environment
  <2>1. /\ store.phase = "live" /\ store'.status = store.status
        /\ store' = store \/ store.status.managed = store.tuples
    BY <1>0, <1>1, Edits DEF StoreSettled, NewStatus
  <2>2. Own(fga', store.status.storeID) = Own(fga, store.status.storeID)
    BY <1>0, <1>1, <2>1, OthersKeepTuples
  <2> QED
    BY <2>1, <2>2 DEF KeptInv
<1>2. ASSUME StoreWorker \/ StoreFault, UNCHANGED store PROVE KeptInv'
  <2>1. run.pc \notin FinalPCs /\ Alive(store.status.storeID) /\ store.status.storeID \in Ids
    BY <1>0, <1>2 DEF KnownIds, ChainInv, NamesInv, Exists
  <2>2. CASE Own(fga, store.status.storeID) \subseteq Own(fga', store.status.storeID)
    BY <1>2, <2>2 DEF KeptInv
  <2>3. CASE /\ PruneStoreTuples
             /\ Own(fga', store.status.storeID) =
                  Own(fga, store.status.storeID) \ (run.status.managed \ run.tuples)
    <3>1. run.tuples = store.tuples
      BY <1>0, <2>3, PruneShape DEF ForwardInv, ForwardPCs, ProcessPCs
    <3> QED
      BY <1>2, <2>3, <3>1 DEF KeptInv
  <2> QED
    BY <1>0, <1>2, <2>1, <2>2, <2>3, TuplesStay
<1>3. ASSUME BeginStore \/ Plain \/ PruneStoreTuples \/ FinalizeStoreTuples
      PROVE  KeptInv'
  <2>1. UNCHANGED store
    BY <1>0, <1>3, BeginShape, PlainSteps, PruneShape, FinalizeShape DEF Plain
  <2>2. StoreWorker
    BY <1>3 DEF StoreWorker, Plain
  <2> QED
    BY <1>2, <2>1, <2>2
<1>4. CASE ReleaseTuplesFinalizer
  BY <1>0, <1>4, ReleaseShape DEF ChainInv, FinalPCs
<1>5. CASE RemoveStoreObject
  BY <1>5 DEF RemoveStoreObject, NoStore
<1>6. CASE PersistStoreStatus \/ StoreRefused \/ StoreFault
  <2>1. /\ fga' = fga /\ run.pc # "idle" /\ store.phase = "live"
        /\ store'.tuples = store.tuples
        /\ store' = store \/ store'.status = run.status
    BY <1>0, <1>6, EndShape
  <2>2. run.pc \in ForwardPCs
    BY <1>0, <2>1 DEF ChainInv, FinalPCs, StorePCs, ForwardPCs, ProcessPCs
  <2>3. CASE store' = store
    BY <2>1, <2>3 DEF KeptInv, Own
  <2>4. CASE store'.status = run.status /\ run.pc = "persist"
    <3>1. store.tuples \subseteq Own(fga, run.status.storeID)
      BY <2>2, <2>4 DEF ForwardInv
    <3> QED
      BY <2>1, <2>4, <3>1 DEF Own
  <2>5. CASE store'.status = run.status /\ run.pc # "persist"
    <3>1. run.status.managed = store.status.managed
      BY <2>2, <2>5 DEF ForwardInv
    <3>2. \/ store.status.storeID = NoId /\ store.status.managed = {}
          \/ store.status.storeID # NoId /\ run.status.storeID = store.status.storeID
      BY <1>0, <2>1 DEF ChainInv, OwnersInv
    <3> QED
      BY <2>1, <2>5, <3>1, <3>2 DEF KeptInv, Own
  <2> QED
    BY <2>1, <2>3, <2>4, <2>5
<1>7. ASSUME NEW m \in Models, ModelWorker(m) \/ ModelFault(m) \/ DeliverModelEvent(m)
      PROVE  KeptInv'
  <2>1. UNCHANGED store
    BY <1>7, OtherSteps
  <2>2. Own(fga', store.status.storeID) = Own(fga, store.status.storeID)
    BY <1>0, <1>7, <2>1, OthersKeepTuples
  <2> QED
    BY <2>1, <2>2, PatienceStays DEF KeptInv
<1>8. CASE UNCHANGED vars
  BY <1>8 DEF vars, KeptInv, Own
<1> QED
  BY <1>1, <1>3, <1>4, <1>5, <1>6, <1>7, <1>8, StoreSteps, PatienceStays DEF Next, KeptInv

\* This part needs the page of ListStores: a store the lookup by name overlooks
\* would outlive the object.
LEMMA FreshStep ==
  KnownIds /\ OwnInv /\ OwnInv' /\ ForwardInv /\ FreshInv /\ [Next]_vars => FreshInv'
<1> SUFFICES ASSUME KnownIds, OwnInv, OwnInv', ForwardInv, FreshInv, [Next]_vars, patient
             PROVE  FreshInv'
  BY PatienceStays DEF FreshInv
<1>0. /\ TypeOK /\ ChainInv /\ OwnersInv /\ run.status.storeID \in Ids \cup {NoId}
      /\ store.status.storeID \in Ids \cup {NoId} /\ run.pc \in StorePCs
      /\ store.phase \in Phases /\ fga \in [Ids -> FgaStores] /\ run.status \in Status
  BY DEF KnownIds, TypeOK, StoreRuns, StoreObjects, Status
<1>1. /\ store.phase = "deleting" => store.status.storeID # NoId
      /\ store.phase = "absent" \/ run.pc = "remove" => \A i \in Ids : ~ Ours(i)
      /\ store.phase = "live" /\ store.status.storeID = NoId =>
           /\ \A i \in Ids : Ours(i) => Own(fga, i) \subseteq store.tuples
           /\ run.pc \in ProcessPCs => Own(fga, run.status.storeID) \subseteq store.tuples
  BY DEF FreshInv
<1> DEFINE Goal ==
             /\ store'.phase = "deleting" => store'.status.storeID # NoId
             /\ store'.phase = "absent" \/ run'.pc = "remove" => \A i \in Ids : ~ Ours(i)'
             /\ store'.phase = "live" /\ store'.status.storeID = NoId =>
                  /\ \A i \in Ids : Ours(i)' => Own(fga', i) \subseteq store'.tuples
                  /\ run'.pc \in ProcessPCs =>
                       Own(fga', run'.status.storeID) \subseteq store'.tuples
<1>2. SUFFICES Goal
  BY DEF FreshInv
<1>3. ASSUME \A i \in Ids : Own(fga', i) = Own(fga, i),
             \A i \in Ids : Ours(i)' => Ours(i), UNCHANGED <<store, run>>
      PROVE  Goal
  <2>1. run.pc \in ProcessPCs => run.status.storeID \in Ids
    BY <1>0 DEF ChainInv
  <2> QED
    BY <1>1, <1>3, <2>1
<1>4. CASE Environment
  <2>1. /\ \A i \in Ids : Own(fga', i) = Own(fga, i)
        /\ \A i \in Ids : Ours(i)' => Ours(i)
    BY <1>0, <1>4, OthersKeepTuples, OthersKeepStores DEF Ours, Alive
  <2>2. CASE store' = store
    BY <1>0, <1>3, <1>4, <2>1, <2>2, Edits
  <2>3. CASE store' # store
    <3>1. CASE store.phase = "absent"
      <4>1. run.pc = "idle" /\ run' = run /\ store'.phase = "live"
        BY <1>0, <1>4, <2>3, <3>1, Edits DEF ChainInv
      <4> QED
        BY <1>1, <2>1, <3>1, <4>1 DEF ProcessPCs
    <3>2. CASE store.phase # "absent"
      <4>1. /\ StoreSettled /\ run' = run /\ store'.phase # "absent"
            /\ store'.status = store.status
        BY <1>0, <1>4, <2>3, <3>2, Edits
      <4> QED
        BY <4>1 DEF StoreSettled
    <3> QED
      BY <3>1, <3>2
  <2> QED
    BY <2>2, <2>3
<1>5. CASE BeginStore
  <2>1. run'.pc = "check" => store.status.storeID # NoId
    BY <1>0, <1>5 DEF BeginStore, StoreObjects, Phases
  <2>2. fga' = fga /\ UNCHANGED store
    BY <1>0, <1>5, BeginShape
  <2>3. run.pc = "idle" /\ (run' = run \/ run'.pc \in {"find", "check", "related", "untuple"})
    BY <1>0, <1>5, BeginShape
  <2> QED
    BY <1>1, <2>1, <2>2, <2>3 DEF Ours, Alive, ProcessPCs
<1>6. CASE FindStoreByName
  <2>1. /\ fga' = fga /\ UNCHANGED store /\ run.pc = "find" /\ run'.pc \in {"list", "create"}
    BY <1>0, <1>6, StepShape, StepWithShape DEF FindStoreByName
  <2>2. run'.pc = "list" => run'.status.storeID \in Ids /\ Ours(run'.status.storeID)
    <3>1. ASSUME NEW i \in FirstPage, fga[i].ours,
                 StoreStepWith("find", "list", [run.status EXCEPT !.storeID = i])
          PROVE  run'.status.storeID = i /\ i \in Ids /\ Ours(i)
      BY <1>0, <3>1, StepWithShape DEF Status, FirstPage, Ours
    <3>2. CASE StoreStep("find", "create")
      BY <1>0, <3>2, StepShape
    <3> QED
      BY <1>6, <3>1, <3>2 DEF FindStoreByName
  <2>3. store.phase = "live"
    BY <1>0, <2>1 DEF ForwardInv, ForwardPCs
  <2> QED
    BY <1>1, <2>1, <2>2, <2>3 DEF Ours, Alive, ProcessPCs
<1>7. CASE CreateFgaStore
  <2>1. PICK i \in Ids :
           /\ fga' = [fga EXCEPT ![i] = [state |-> "live", ours |-> TRUE,
                                         tuples |-> {}, models |-> {}]]
           /\ StoreStepWith("create", "list", [run.status EXCEPT !.storeID = i])
    BY <1>7 DEF CreateFgaStore
  <2>2. /\ UNCHANGED store /\ run.pc = "create" /\ run'.pc = "list"
        /\ run'.status.storeID = i
    BY <1>0, <2>1, StepWithShape DEF Status
  <2>3. store.phase = "live" /\ Own(fga', i) = {}
    BY <1>0, <2>1, <2>2 DEF ForwardInv, ForwardPCs, Own
  <2>4. \A j \in Ids : j # i => Own(fga', j) = Own(fga, j) /\ (Ours(j)' => Ours(j))
    BY <1>0, <2>1 DEF Ours, Alive, Own
  <2> QED
    BY <1>1, <2>2, <2>3, <2>4
<1>8. CASE \/ CheckStoreName \/ UpdateStoreName \/ ListRelatedModels
           \/ WriteModelIfChanged \/ ApplyStoreTuples \/ PruneStoreTuples
  <2>1. /\ UNCHANGED store /\ run.pc \in ProcessPCs
        /\ run'.pc \notin {"remove", "idle"}
        /\ run'.status.storeID = run.status.storeID
    <3>1. CASE CheckStoreName \/ UpdateStoreName \/ ApplyStoreTuples
      <4>1. CASE CheckStoreName
        <5>1. StoreStep("check", "list") \/ StoreStep("check", "rename")
          BY <4>1 DEF CheckStoreName
        <5> QED
          BY <1>0, <5>1, StepShape DEF ProcessPCs
      <4> QED
        BY <1>0, <3>1, <4>1, StepShape DEF UpdateStoreName, ApplyStoreTuples, ProcessPCs
    <3>2. CASE ListRelatedModels
      BY <1>0, <3>2 DEF ListRelatedModels, TypeOK, StoreRuns, ProcessPCs
    <3>3. CASE WriteModelIfChanged
      BY <1>0, <3>3, StepShape, StepWithShape
      DEF WriteModelIfChanged, ProcessPCs, Status
    <3>4. CASE PruneStoreTuples
      BY <1>0, <3>4, PruneShape DEF ProcessPCs
    <3> QED
      BY <1>8, <3>1, <3>2, <3>3, <3>4
  <2>2. store.phase = "live" /\ run.tuples = store.tuples /\ run.status.storeID \in Ids
    BY <1>0, <2>1 DEF ForwardInv, ForwardPCs, ChainInv
  <2>3. ASSUME NEW i \in Ids
        PROVE  \/ Own(fga', i) \subseteq Own(fga, i)
               \/ /\ i = run.status.storeID
                  /\ Own(fga', i) = Own(fga, i) \cup run.tuples
    <3>1. StoreWorker
      BY <1>8 DEF StoreWorker
    <3> QED
      BY <1>0, <3>1, TuplesGrow
  <2>4. \A i \in Ids : Ours(i)' => Ours(i) \/ i = run.status.storeID
    <3>1. CASE CheckStoreName \/ ListRelatedModels
      BY <3>1 DEF CheckStoreName, ListRelatedModels, Ours, Alive
    <3>2. CASE ApplyStoreTuples \/ PruneStoreTuples
      BY <1>0, <3>2, TuplesOnly DEF ApplyStoreTuples, PruneStoreTuples, Ours, Alive
    <3>3. CASE WriteModelIfChanged \/ UpdateStoreName
      BY <1>0, <3>3 DEF WriteModelIfChanged, UpdateStoreName, Ours, Alive, FgaStores
    <3> QED
      BY <1>8, <3>1, <3>2, <3>3
  <2>5. store.status.storeID = NoId =>
          \A i \in Ids : Ours(i)' \/ i = run.status.storeID => Own(fga', i) \subseteq store.tuples
    BY <1>1, <2>1, <2>2, <2>3, <2>4
  <2> QED
    BY <2>1, <2>2, <2>5
<1>9. CASE CheckRelatedModels
  <2>1. /\ fga' = fga /\ UNCHANGED store /\ run.pc = "related"
        /\ run'.pc = "remove" => run.status.storeID = NoId
    BY <1>0, <1>9, StepShape DEF CheckRelatedModels
  <2>2. run'.pc = "remove" \/ run'.pc = "drop"
    BY <1>0, <1>9, StepShape DEF CheckRelatedModels
  <2>3. store.phase = "deleting" /\ run.status.storeID # NoId
    BY <1>0, <1>1, <2>1 DEF ChainInv, FinalPCs
  <2> QED
    BY <1>1, <2>1, <2>2, <2>3
<1>10. CASE DeleteFgaStore
  <2>1. UNCHANGED store /\ run.pc = "drop"
    BY <1>0, <1>10, StepShape DEF DeleteFgaStore
  <2>2. /\ store.phase = "deleting" /\ store.status.storeID # NoId
        /\ run.status.storeID = store.status.storeID
    BY <1>0, <1>1, <2>1 DEF ChainInv, FinalPCs
  <2>3. \A i \in Ids : ~ Ours(i)'
    BY <1>0, <1>10, <2>2 DEF DeleteFgaStore, OwnInv, OnlyOurs, Ours, Alive, FgaStores
  <2> QED
    BY <1>1, <2>1, <2>2, <2>3
<1>11. CASE FinalizeStoreTuples
  BY <1>0, <1>1, <1>11, FinalizeShape DEF ChainInv, FinalPCs
<1>12. CASE ReleaseTuplesFinalizer
  BY <1>0, <1>1, <1>12, ReleaseShape DEF ChainInv, FinalPCs
<1>13. CASE RemoveStoreObject
  <2>1. /\ run.pc = "remove" /\ fga' = fga /\ store'.phase = "absent"
    BY <1>13 DEF RemoveStoreObject, NoStore
  <2> QED
    BY <1>1, <2>1 DEF Ours, Alive
<1>14. CASE PersistStoreStatus \/ StoreRefused \/ StoreFault
  <2>1. /\ fga' = fga /\ run' = Idle /\ run.pc # "idle"
        /\ store'.phase = store.phase /\ store'.tuples = store.tuples
        /\ store' = store \/ store'.status = run.status
    BY <1>0, <1>14, EndShape
  <2>2. store.status.storeID # NoId => store'.status.storeID = store.status.storeID
    BY <1>0, <2>1 DEF ChainInv
  <2>3. run'.pc = "idle" /\ store.phase # "absent"
    BY <1>0, <2>1 DEF Idle, ChainInv
  <2> QED
    BY <1>1, <2>1, <2>2, <2>3 DEF Ours, Alive, ProcessPCs
<1>15. ASSUME NEW m \in Models, ModelWorker(m) \/ ModelFault(m) \/ DeliverModelEvent(m)
       PROVE  Goal
  <2>1. /\ \A i \in Ids : Own(fga', i) = Own(fga, i)
        /\ \A i \in Ids : Ours(i)' => Ours(i)
    BY <1>0, <1>15, OthersKeepTuples, OthersKeepStores DEF Ours, Alive
  <2> QED
    BY <1>3, <1>15, <2>1, OtherSteps
<1>16. CASE UNCHANGED vars
  BY <1>3, <1>16 DEF vars, Ours, Alive
<1> HIDE DEF Goal
<1> QED
  BY <1>4, <1>5, <1>6, <1>7, <1>8, <1>9, <1>10, <1>11, <1>12, <1>13, <1>14, <1>15, <1>16,
     StoreSteps
  DEF Next, Plain

----------------------------------------------------------------------------
(* The steps of the Store are steps of Provisioning.                       *)

LEMMA PromiseInit == Init => Promise!Init
<1> SUFFICES ASSUME Init PROVE Promise!Init
  OBVIOUS
<1>1. /\ store.phase = "absent" /\ store.tuples = {} /\ store.status.managed = {}
      /\ store.status.storeID = NoId
  BY DEF Init, NoStore, NewStatus
<1>2. GrantedTuples = {}
  BY <1>1 DEF GrantedTuples, Alive, Ids, NoId
<1>3. patient \in BOOLEAN
  BY ConstantsAssumption DEF Init
<1> QED
  BY <1>1, <1>2, <1>3 DEF Promise!Init, Promise!Objects, Provided

LEMMA Fields ==
  /\ Provided.phase = store.phase /\ Provided.wanted = store.tuples
  /\ Provided.recorded = store.status.managed /\ Provided.granted = GrantedTuples
  /\ Provided.bound = patient
  BY DEF Provided

\* The same for any two objects, to be used without looking into Provided.
LEMMA Served ==
  ASSUME NEW o \in Promise!Objects, NEW q \in Promise!Objects,
         q.phase = o.phase, q.wanted = o.wanted, q.bound = o.bound
  PROVE  q = [o EXCEPT !.recorded = q.recorded, !.granted = q.granted]
  BY DEF Promise!Objects

LEMMA Asked ==
  ASSUME NEW o \in Promise!Objects, NEW q \in Promise!Objects,
         q.recorded = o.recorded, q.granted = o.granted
  PROVE  q = [o EXCEPT !.phase = q.phase, !.wanted = q.wanted, !.bound = q.bound]
  BY DEF Promise!Objects

LEMMA Deleted ==
  ASSUME NEW o \in Promise!Objects, NEW q \in Promise!Objects,
         q.wanted = o.wanted, q.recorded = o.recorded, q.granted = o.granted
  PROVE  q = [o EXCEPT !.phase = q.phase, !.bound = q.bound]
  BY DEF Promise!Objects

LEMMA ProvidedType == TypeOK => Provided \in Promise!Objects
<1> SUFFICES ASSUME TypeOK PROVE Provided \in Promise!Objects
  OBVIOUS
<1>1. /\ store.phase \in Phases /\ store.tuples \in SUBSET StoreTuples
      /\ store.status.managed \in SUBSET StoreTuples /\ patient \in BOOLEAN
  BY DEF TypeOK, StoreObjects, Status
<1>2. GrantedTuples \in SUBSET StoreTuples
  BY DEF GrantedTuples
<1> QED
  BY <1>1, <1>2 DEF Provided, Promise!Objects, Phases

LEMMA ProvidedTypeNext == TypeOK' => Provided' \in Promise!Objects
<1> SUFFICES ASSUME TypeOK' PROVE Provided' \in Promise!Objects
  OBVIOUS
<1>1. /\ store'.phase \in Phases /\ store'.tuples \in SUBSET StoreTuples
      /\ store'.status.managed \in SUBSET StoreTuples /\ patient' \in BOOLEAN
  BY DEF TypeOK, StoreObjects, Status
<1>2. GrantedTuples' \in SUBSET StoreTuples
  BY DEF GrantedTuples
<1> QED
  BY <1>1, <1>2 DEF Provided, Promise!Objects, Phases

LEMMA FieldsNext ==
  /\ Provided'.phase = store'.phase /\ Provided'.wanted = store'.tuples
  /\ Provided'.recorded = store'.status.managed /\ Provided'.granted = GrantedTuples'
  /\ Provided'.bound = patient'
  BY DEF Provided

LEMMA FieldsServed ==
  ASSUME TypeOK, TypeOK', UNCHANGED <<store.phase, store.tuples, patient>>
  PROVE  Provided' = [Provided EXCEPT !.recorded = store'.status.managed,
                                      !.granted = GrantedTuples']
  BY ProvidedType, ProvidedTypeNext, Fields, FieldsNext, Served

\* An edit of patient users comes when the status is up to date.
LEMMA AskStep ==
  ASSUME TypeOK, TypeOK', UNCHANGED <<store.status.managed, GrantedTuples, patient>>,
         store.phase = "absent" \/ (store.phase = "live" /\ (patient => StoreSettled)),
         store'.phase = "live"
  PROVE  Promise!Ask(store'.tuples)
<1>1. patient' = (patient /\ (store.phase = "live" => store.status.managed = store.tuples))
  BY DEF StoreSettled, TypeOK
<1>2. Provided' = [Provided EXCEPT !.phase = "live", !.wanted = store'.tuples,
                                   !.bound = patient']
  <2>1. Provided' = [Provided EXCEPT !.phase = Provided'.phase, !.wanted = Provided'.wanted,
                                     !.bound = Provided'.bound]
    BY ProvidedType, ProvidedTypeNext, Fields, FieldsNext, Asked
  <2>2. /\ Provided'.phase = "live" /\ Provided'.wanted = store'.tuples
        /\ Provided'.bound = patient'
    BY FieldsNext
  <2> QED
    BY <2>1, <2>2, Zenon
<1> QED
  BY <1>1, <1>2, Fields DEF Promise!Ask, Promise!Settled

LEMMA DeleteStep ==
  ASSUME TypeOK, TypeOK', UNCHANGED <<store.status.managed, GrantedTuples, patient>>,
         store.phase = "live", patient => StoreSettled,
         store'.phase = "deleting", store'.tuples = store.tuples
  PROVE  Promise!Delete
<1>1. patient' = (patient /\ store.status.managed = store.tuples)
  BY DEF StoreSettled, TypeOK
<1>2. Provided' = [Provided EXCEPT !.phase = "deleting", !.bound = patient']
  <2>1. Provided' = [Provided EXCEPT !.phase = Provided'.phase, !.bound = Provided'.bound]
    <3>1. /\ Provided'.wanted = Provided.wanted /\ Provided'.recorded = Provided.recorded
          /\ Provided'.granted = Provided.granted
      BY Fields, FieldsNext
    <3>2. Provided \in Promise!Objects /\ Provided' \in Promise!Objects
      BY ProvidedType, ProvidedTypeNext
    <3> QED
      BY <3>1, <3>2, Deleted
  <2>2. Provided'.phase = "deleting" /\ Provided'.bound = patient'
    BY FieldsNext
  <2> QED
    BY <2>1, <2>2, Zenon
<1> QED
  BY <1>1, <1>2, Fields DEF Promise!Delete, Promise!Settled

\* A step that leaves phase and spec alone, if it respects what patient users asked
\* for and were told.
LEMMA ServeStep ==
  ASSUME KnownIds, KnownIds', KeptInv', UNCHANGED patient,
         store.phase # "absent", store'.phase = store.phase, store'.tuples = store.tuples,
         patient /\ store.phase = "live" =>
           store.tuples \cap store.status.managed \subseteq store'.status.managed,
         patient => store'.status.managed \subseteq store.status.managed \cup store.tuples,
         patient => GrantedTuples' \subseteq
                      GrantedTuples \cup store.status.managed \cup store.tuples
  PROVE  Promise!Next
<1>1. /\ store'.status.managed \in SUBSET StoreTuples
      /\ GrantedTuples' \in SUBSET StoreTuples
  BY DEF KnownIds, TypeOK, StoreObjects, Status, GrantedTuples
<1>2. patient /\ store.phase = "live" =>
        store.tuples \cap store'.status.managed \subseteq GrantedTuples'
  <2> SUFFICES ASSUME patient, store.phase = "live"
               PROVE  store.tuples \cap store'.status.managed \subseteq GrantedTuples'
    OBVIOUS
  <2>1. CASE store'.status.storeID = NoId
    BY <2>1 DEF KnownIds, OwnersInv
  <2>2. CASE store'.status.storeID # NoId
    <3>1. Alive(store.status.storeID)'
      BY <2>2 DEF KnownIds, NamesInv, Exists
    <3>2. store'.tuples \cap store'.status.managed \subseteq Own(fga', store'.status.storeID)
      BY <2>2 DEF KeptInv
    <3> QED
      BY <3>1, <3>2 DEF GrantedTuples, Own
  <2> QED
    BY <2>1, <2>2
<1>3. Provided' = [Provided EXCEPT !.recorded = store'.status.managed,
                                   !.granted = GrantedTuples']
  <2>1. TypeOK /\ TypeOK'
    BY DEF KnownIds
  <2> QED
    BY <2>1, FieldsServed
<1>4. Promise!Serve(store'.status.managed, GrantedTuples')
  BY <1>2, <1>3, Fields DEF Promise!Serve, Promise!Kept
<1> QED
  BY <1>1, <1>4 DEF Promise!Next

LEMMA EnvironmentKeepsPromise ==
  ASSUME KnownIds, TypeOK', Environment
  PROVE  [Promise!Next]_Provided
<1>0. /\ TypeOK /\ TypeOK' /\ OwnersInv /\ UNCHANGED patient
      /\ store.status.storeID \in Ids \cup {NoId}
  BY PatienceStays DEF KnownIds, TypeOK, StoreObjects, Status, Next
<1>1. CASE store' = store
  <2>1. \A i \in Ids : (Alive(i)' <=> Alive(i)) /\ Own(fga', i) = Own(fga, i)
    BY <1>0, OthersKeepStores, OthersKeepTuples DEF Alive
  <2>2. GrantedTuples' = GrantedTuples
    BY <1>0, <1>1, <2>1 DEF GrantedTuples, Own, Alive
  <2> QED
    BY <1>0, <1>1, <2>2 DEF Provided
<1>2. CASE /\ store.phase = "absent" /\ store'.phase = "live"
           /\ store'.status = NewStatus /\ store'.tuples \in SUBSET StoreTuples
           /\ fga' = fga
  <2>1. store.status = NewStatus
    BY <1>0, <1>2 DEF OwnersInv, NoStore
  <2>2. GrantedTuples' = GrantedTuples
    BY <1>2, <2>1 DEF GrantedTuples, Alive
  <2>3. UNCHANGED <<store.status.managed, GrantedTuples, patient>>
    BY <1>0, <1>2, <2>1, <2>2
  <2>4. store.phase = "absent" \/ (store.phase = "live" /\ (patient => StoreSettled))
    <3>1. store.phase = "absent"
      BY <1>2
    <3> QED
      BY <3>1, Zenon
  <2>5. Promise!Ask(store'.tuples)
    <3>1. store'.phase = "live" /\ TypeOK /\ TypeOK'
      BY <1>0, <1>2
    <3> QED
      BY <3>1, <2>3, <2>4, AskStep
  <2> QED
    BY <1>2, <2>5 DEF Promise!Next
<1>3. CASE /\ patient => StoreSettled
           /\ store.phase = "live" /\ store'.phase = "live"
           /\ store'.status = store.status /\ store'.tuples \in SUBSET StoreTuples
           /\ fga' = fga
  <2>1. GrantedTuples' = GrantedTuples
    BY <1>3 DEF GrantedTuples, Alive
  <2>2. Promise!Ask(store'.tuples)
    BY <1>0, <1>3, <2>1, AskStep
  <2> QED
    BY <1>3, <2>2 DEF Promise!Next
<1>4. CASE /\ patient => StoreSettled
           /\ store.phase = "live" /\ store'.phase = "deleting"
           /\ store'.status = store.status /\ store'.tuples = store.tuples
           /\ fga' = fga
  <2>1. GrantedTuples' = GrantedTuples
    BY <1>4 DEF GrantedTuples, Alive
  <2>2. Promise!Delete
    BY <1>0, <1>4, <2>1, DeleteStep
  <2> QED
    BY <2>2 DEF Promise!Next
<1> QED
  BY <1>0, <1>1, <1>2, <1>3, <1>4, Edits

\* Only CreateStore gives life to an id.
LEMMA NoStoreComesBack ==
  ASSUME TypeOK, StoreWorker \/ StoreFault, run.pc # "create", NEW i \in Ids,
         fga'[i].state = "live"
  PROVE  Alive(i)
<1>0. fga \in [Ids -> FgaStores]
  BY DEF TypeOK
<1>1. CASE ApplyStoreTuples
  BY <1>1, TuplesOnly DEF ApplyStoreTuples, Alive
<1>2. CASE PruneStoreTuples
  BY <1>2, TuplesOnly DEF PruneStoreTuples, Alive
<1>3. CASE FinalizeStoreTuples
  BY <1>3, TuplesOnly DEF FinalizeStoreTuples, Alive
<1>4. CASE CreateFgaStore
  BY <1>4, StepWithShape DEF CreateFgaStore
<1>5. CASE DeleteFgaStore
  BY <1>0, <1>5 DEF DeleteFgaStore, Alive
<1>6. CASE UpdateStoreName \/ WriteModelIfChanged
  BY <1>0, <1>6 DEF UpdateStoreName, WriteModelIfChanged, Alive, FgaStores
<1>7. CASE fga' = fga
  BY <1>7 DEF Alive
<1> QED
  BY <1>1, <1>2, <1>3, <1>4, <1>5, <1>6, <1>7
  DEF StoreWorker, StoreFault, StoreRefused, EndStoreRun, BeginStore, FindStoreByName,
      CheckStoreName, ListRelatedModels, PersistStoreStatus, ReleaseTuplesFinalizer,
      CheckRelatedModels, RemoveStoreObject

\* While the status stays, the controller grants nothing the spec does not want.
LEMMA GrantsWhatIsWanted ==
  ASSUME KnownIds, ForwardInv, StoreWorker \/ StoreFault, patient,
         store.phase # "absent", store'.status.storeID = store.status.storeID
  PROVE  GrantedTuples' \subseteq GrantedTuples \cup store.tuples
<1> DEFINE id == store.status.storeID
<1>0. /\ TypeOK /\ id \in Ids \cup {NoId} /\ store.phase \in Phases
  BY DEF KnownIds, TypeOK, StoreObjects, Status
<1>1. CASE ~ (id \in Ids /\ fga'[id].state = "live")
  BY <1>1 DEF GrantedTuples, Alive
<1>2. CASE id \in Ids /\ fga'[id].state = "live"
  <2>1. Alive(id)
    <3>1. CASE store.phase = "live"
      BY <1>2, <3>1 DEF KnownIds, NamesInv, Exists, Ids, NoId
    <3>2. CASE store.phase # "live"
      <4>1. run.pc # "create"
        BY <3>2 DEF ForwardInv, ForwardPCs
      <4> QED
        BY <1>0, <1>2, <4>1, NoStoreComesBack
    <3> QED
      BY <3>1, <3>2
  <2>2. GrantedTuples = Own(fga, id)
    BY <2>1 DEF GrantedTuples, Own
  <2>3. GrantedTuples' = Own(fga', id)
    BY <1>2 DEF GrantedTuples, Own, Alive
  <2>4. Own(fga', id) \subseteq Own(fga, id) \cup store.tuples
    <3>1. CASE Own(fga', id) \subseteq Own(fga, id)
      BY <3>1
    <3>2. CASE ApplyStoreTuples /\ Own(fga', id) = Own(fga, id) \cup run.tuples
      <4>1. run.pc = "apply"
        BY <3>2 DEF ApplyStoreTuples, StoreStep
      <4>2. run.tuples = store.tuples
        BY <4>1 DEF ForwardInv, ForwardPCs, ProcessPCs
      <4> QED
        BY <3>2, <4>2
    <3> QED
      BY <1>0, <1>2, <3>1, <3>2, TuplesGrow
  <2> QED
    BY <2>2, <2>3, <2>4
<1> QED
  BY <1>1, <1>2

LEMMA WorkerKeepsPromise ==
  ASSUME KnownIds, KnownIds', ForwardInv, FreshInv, KeptInv', StoreWorker \/ StoreFault
  PROVE  [Promise!Next]_Provided
<1>0. /\ TypeOK /\ TypeOK' /\ ChainInv /\ OwnersInv
      /\ store.status.storeID \in Ids \cup {NoId}
      /\ run.status.storeID \in Ids \cup {NoId}
      /\ run.pc \in StorePCs /\ store.phase \in Phases
  BY DEF KnownIds, TypeOK, StoreObjects, StoreRuns, Status
<1>p. UNCHANGED patient
  BY PatienceStays DEF Next
<1>1. CASE RemoveStoreObject
  <2>1. store.phase = "deleting"
    BY <1>0, <1>1 DEF RemoveStoreObject, ChainInv, FinalPCs
  <2>2. /\ store'.phase = "absent" /\ store'.tuples = {} /\ store'.status.managed = {}
        /\ store'.status.storeID = NoId
    BY <1>1 DEF RemoveStoreObject, NoStore, NewStatus
  <2>3. GrantedTuples' = {}
    BY <2>2 DEF GrantedTuples, Alive, Ids, NoId
  <2>4. Provided' = [phase |-> "absent", wanted |-> {}, recorded |-> {}, granted |-> {},
                     bound |-> patient]
    BY <1>p, <2>2, <2>3 DEF Provided
  <2>5. patient = (patient /\ TRUE) /\ TRUE \in BOOLEAN
    BY <1>0 DEF TypeOK
  <2>6. Promise!Vanish
    BY <2>1, <2>4, <2>5, Fields DEF Promise!Vanish
  <2> QED
    BY <2>6 DEF Promise!Next
<1>2. CASE store.phase = "absent"
  <2>1. run.pc = "idle"
    BY <1>0, <1>2 DEF ChainInv
  <2>2. CASE BeginStore
    <3>1. store' = store /\ fga' = fga
      BY <1>0, <2>2, BeginShape
    <3>2. GrantedTuples' = GrantedTuples
      BY <3>1 DEF GrantedTuples, Alive
    <3> QED
      BY <1>p, <3>1, <3>2 DEF Provided
  <2>3. ~ Plain
    BY <1>0, <2>1, PlainSteps DEF Plain
  <2>4. /\ ~ PruneStoreTuples /\ ~ FinalizeStoreTuples /\ ~ ReleaseTuplesFinalizer
        /\ ~ RemoveStoreObject
    BY <1>0, <2>1, PruneShape, FinalizeShape, ReleaseShape DEF RemoveStoreObject
  <2>5. ~ (PersistStoreStatus \/ StoreRefused \/ StoreFault)
    BY <1>0, <2>1, EndShape
  <2> QED
    BY <2>2, <2>3, <2>4, <2>5, StoreSteps
<1>3. CASE /\ store.phase # "absent" /\ store'.phase = store.phase
           /\ store'.tuples = store.tuples /\ store'.status = store.status
  <2>1. patient => GrantedTuples' \subseteq GrantedTuples \cup store.tuples
    BY <1>3, GrantsWhatIsWanted
  <2>2. Promise!Next
    BY <1>3, <1>p, <2>1, ServeStep
  <2> QED
    BY <2>2
<1>4. CASE /\ store.phase # "absent" /\ store'.phase = store.phase
           /\ store'.tuples = store.tuples /\ fga' = fga /\ run.pc # "idle"
           /\ store'.status = run.status
  <2>1. CASE ~ patient
    BY <1>4, <1>p, <2>1, ServeStep
  <2>2. CASE patient
    <3>1. CASE run.pc \in ForwardPCs
      <4>1. /\ store.phase = "live"
            /\ run.status.managed \in {store.status.managed, store.tuples}
        BY <2>2, <3>1 DEF ForwardInv
      <4>2. CASE store.status.storeID # NoId
        <5>1. store'.status.storeID = store.status.storeID
          BY <1>0, <1>4, <4>2 DEF ChainInv
        <5>2. GrantedTuples' \subseteq GrantedTuples \cup store.tuples
          BY <1>4, <2>2, <5>1, GrantsWhatIsWanted
        <5> QED
          BY <1>4, <1>p, <4>1, <5>2, ServeStep
      <4>3. CASE store.status.storeID = NoId
        <5>1. GrantedTuples' \subseteq store.tuples
          <6>1. CASE run.pc \in ProcessPCs
            <7>1. Own(fga, run.status.storeID) \subseteq store.tuples
              BY <2>2, <4>1, <4>3, <6>1 DEF FreshInv
            <7> QED
              BY <1>4, <7>1 DEF GrantedTuples, Own, Alive
          <6>2. CASE run.pc \notin ProcessPCs
            <7>1. run.status.storeID = NoId
              BY <1>0, <3>1, <6>2 DEF ForwardPCs, ChainInv
            <7> QED
              BY <1>4, <7>1 DEF GrantedTuples, Alive, Ids, NoId
          <6> QED
            BY <6>1, <6>2
        <5> QED
          BY <1>4, <1>p, <4>1, <5>1, ServeStep
      <4> QED
        BY <4>2, <4>3
    <3>2. CASE run.pc \in FinalPCs
      <4>1. /\ store.phase = "deleting" /\ store.status.storeID # NoId
            /\ run.status.managed \subseteq store.status.managed
        BY <1>0, <2>2, <3>2 DEF ChainInv, OwnersInv, FreshInv
      <4>2. store'.status.storeID = store.status.storeID
        BY <1>0, <1>4, <4>1 DEF ChainInv
      <4>3. GrantedTuples' \subseteq GrantedTuples \cup store.tuples
        BY <1>4, <2>2, <4>2, GrantsWhatIsWanted
      <4> QED
        BY <1>4, <1>p, <4>1, <4>3, ServeStep
    <3> QED
      BY <1>0, <1>4, <3>1, <3>2 DEF StorePCs, ForwardPCs, ProcessPCs, FinalPCs
  <2> QED
    BY <2>1, <2>2
<1>5. CASE ~ RemoveStoreObject /\ store.phase # "absent"
  <2>1. CASE BeginStore \/ Plain \/ PruneStoreTuples \/ FinalizeStoreTuples
    <3>1. store' = store
      BY <1>0, <2>1, BeginShape, PlainSteps, PruneShape, FinalizeShape DEF Plain
    <3> QED
      BY <1>3, <1>5, <3>1
  <2>2. CASE ReleaseTuplesFinalizer
    BY <1>0, <1>3, <1>5, <2>2, ReleaseShape
  <2>3. CASE PersistStoreStatus \/ StoreRefused \/ StoreFault
    <3>1. /\ store'.phase = store.phase /\ store'.tuples = store.tuples /\ fga' = fga
          /\ run.pc # "idle" /\ (store' = store \/ store'.status = run.status)
      BY <1>0, <2>3, EndShape
    <3>2. CASE store' = store
      BY <1>3, <1>5, <3>2
    <3>3. CASE store'.status = run.status
      BY <1>4, <1>5, <3>1, <3>3
    <3> QED
      BY <3>1, <3>2, <3>3
  <2> QED
    BY <1>5, <2>1, <2>2, <2>3, StoreSteps
<1> QED
  BY <1>1, <1>2, <1>5

LEMMA StepKeepsPromise ==
  ASSUME KnownIds, KnownIds', ForwardInv, FreshInv, KeptInv', [Next]_vars
  PROVE  [Promise!Next]_Provided
<1>0. TypeOK /\ TypeOK' /\ OwnersInv
  BY DEF KnownIds
<1>1. ASSUME NEW m \in Models, ModelWorker(m) \/ ModelFault(m) \/ DeliverModelEvent(m)
      PROVE  UNCHANGED Provided
  <2>1. store' = store /\ patient' = patient
    BY <1>1, OtherSteps, PatienceStays
  <2>2. \A i \in Ids : fga'[i].state = fga[i].state /\ Own(fga', i) = Own(fga, i)
    BY <1>0, <1>1, OthersKeepStores, OthersKeepTuples
  <2>3. GrantedTuples' = GrantedTuples
    BY <2>1, <2>2 DEF GrantedTuples, Own, Alive
  <2> QED
    BY <2>1, <2>3 DEF Provided
<1>2. CASE UNCHANGED vars
  BY <1>2 DEF vars, Provided, GrantedTuples, Alive
<1> QED
  BY <1>0, <1>1, <1>2, EnvironmentKeepsPromise, WorkerKeepsPromise DEF Next

----------------------------------------------------------------------------
LEMMA InitialInv == Init => ChainInv /\ NamesInv /\ OwnInv /\ OwnersInv /\ ForwardInv
                              /\ KeptInv /\ FreshInv
<1> SUFFICES ASSUME Init PROVE ChainInv /\ NamesInv /\ OwnInv /\ OwnersInv /\ ForwardInv
                                 /\ KeptInv /\ FreshInv
  OBVIOUS
<1>1. ChainInv
  BY ChainInit
<1>2. store = NoStore /\ run = Idle /\ \A i \in Ids : ~ Ours(i)
  BY DEF Init, Ours
<1>3. NamesInv /\ ForwardInv /\ KeptInv
  BY <1>2 DEF NamesInv, ForwardInv, KeptInv, ForwardPCs, NoStore, Idle, ProcessPCs
<1>4. OwnInv
  BY <1>2 DEF OwnInv, OnlyOurs, NoDuplicateStore, NoStore, NewStatus, Idle, Ours
<1>5. OwnersInv
  BY DEF Init, OwnersInv, NoStore, NoModel, IdleM, Idle, NewStatus, FinalPCs
<1>6. FreshInv
  BY <1>2 DEF FreshInv, NoStore, Idle
<1> QED
  BY <1>1, <1>3, <1>4, <1>5, <1>6

LEMMA Invariants ==
  ASSUME MaxStoreId <= PageSize
  PROVE  Spec => [](KnownIds /\ OwnInv /\ ForwardInv /\ KeptInv /\ FreshInv)
<1>1. TypeOK /\ ChainInv /\ NamesInv /\ OwnInv /\ [Next]_vars => OwnInv'
  BY OwnStep
<1>2. Spec => [](TypeOK /\ ChainInv /\ NamesInv /\ OwnInv /\ OwnersInv)
  BY <1>1, InitialInv, TypeCorrect, ChainStep, NamesStep, OwnersStep, PTL DEF Spec
<1>3. KnownIds <=> TypeOK /\ ChainInv /\ NamesInv /\ OwnersInv
  BY DEF KnownIds
<1>4. Spec => [](KnownIds /\ OwnInv)
  BY <1>2, <1>3, PTL
<1> QED
  BY <1>4, InitialInv, ForwardStep, KeptStep, FreshStep, PTL DEF Spec

\* The Store controller keeps the promise of Provisioning, whatever the bounds:
\* tuples that spec and status agree on are in OpenFGA, and nothing is recorded or
\* granted that was not asked for; provided one page of ListStores holds all stores.
THEOREM StoreProvidesCorrect ==
  ASSUME MaxStoreId <= PageSize
  PROVE  Spec => StoreProvides
<1>1. Init => Promise!Init
  BY PromiseInit
<1>2. KnownIds /\ KnownIds' /\ ForwardInv /\ FreshInv /\ KeptInv' /\ [Next]_vars
        => [Promise!Next]_Provided
  BY StepKeepsPromise
<1> QED
  BY <1>1, <1>2, Invariants, PTL DEF Spec, StoreProvides, Promise!Spec

\* No live store of this name is left in OpenFGA when the Store object of patient
\* users is gone: the lookup by name finds what a lost status forgot.
THEOREM NoOrphanedStoreCorrect ==
  ASSUME MaxStoreId <= PageSize
  PROVE  Spec => []NoOrphanedStore
<1>1. FreshInv => NoOrphanedStore
  BY DEF FreshInv, NoOrphanedStore, Ours
<1> QED
  BY <1>1, Invariants, PTL

----------------------------------------------------------------------------
(* Whose tuples the stores in OpenFGA hold.                                *)

\* The tuples of an AuthorizationModel in the i-th store of an OpenFGA.
Of(f, m, i) == f[i].tuples \cap ModelTuples[m]

\* With patient users the reconcile of an AuthorizationModel has a copy that is up
\* to date, and the object was up to date when they deleted it.
CopyInv ==
  \A m \in Models :
    /\ model[m].phase = "absent" => model[m] = NoModel
    /\ model[m].phase # "absent" => model[m].content # NoVersion
    /\ mrun[m].pc # "idle" => model[m].phase # "absent"
    /\ mrun[m].pc \in {"apply", "prune", "persist"} => ~ mrun[m].deleting
    /\ mrun[m].pc \in {"untuple", "remove"} => mrun[m].deleting
    /\ patient /\ mrun[m].pc # "idle" =>
         /\ model[m].phase = IF mrun[m].deleting THEN "deleting" ELSE "live"
         /\ mrun[m].tuples = model[m].tuples /\ mrun[m].managed = model[m].managed
    /\ patient /\ model[m].phase = "deleting" => model[m].managed = model[m].tuples

\* A Store under deletion has a store and sees every AuthorizationModel there is, and
\* goes no further while there is one; so the id one of them was given stays right.
ReferredInv ==
  patient =>
    /\ store.phase = "deleting" =>
         /\ store.status.storeID # NoId
         /\ \A m \in Models : model[m].phase # "absent" => seen[m] # NoVersion
    /\ run.pc \in {"drop", "remove"} => \A m \in Models : model[m].phase = "absent"
    /\ \A m \in Models : mrun[m].pc \notin {"idle", "get"} =>
         mrun[m].storeID \in {NoId, store.status.storeID}

\* No store has tuples but the one the status names or, before it names one, the
\* one of the Store's name; and that one is gone before the object is.
HomeInv ==
  /\ store.status.storeID = NoId /\ run.pc \in ProcessPCs => Ours(run.status.storeID)
  /\ patient =>
       /\ run.pc = "remove" => ~ Alive(store.status.storeID)
       /\ \A i \in Ids : Alive(i) /\ fga[i].tuples # {} =>
            \/ i = store.status.storeID
            \/ store.phase = "live" /\ store.status.storeID = NoId /\ Ours(i)

\* The object knows of every tuple of the Store in OpenFGA, and of every tuple of an
\* AuthorizationModel its object does: after the stale ones are pruned, by the spec.
TrackInv ==
  patient => \A i \in Ids : Alive(i) =>
    /\ Own(fga, i) \subseteq store.tuples \cup store.status.managed
    /\ store.phase = "deleting" \/ run.pc = "persist" => Own(fga, i) \subseteq store.tuples
    /\ \A m \in Models :
         /\ Of(fga, m, i) \subseteq model[m].tuples \cup model[m].managed
         /\ mrun[m].pc = "persist" => Of(fga, m, i) \subseteq model[m].tuples
         /\ mrun[m].pc = "remove" => Of(fga, m, i) = {}

----------------------------------------------------------------------------
(* What the steps do to the AuthorizationModels.                           *)

LEMMA ModelEdits ==
  ASSUME TypeOK, Environment, NEW m \in Models
  PROVE  /\ UNCHANGED <<mrun, seen>>
         /\ \/ model'[m] = model[m]
            \/ /\ model[m].phase = "absent" /\ store' = store
               /\ patient => store.phase = "live"
               /\ model'[m].phase = "live" /\ model'[m].content \in Versions
               /\ model'[m].managed = {}
            \/ /\ model[m].phase = "live" /\ (patient => ModelSettled(m))
               /\ model'[m].phase = "live" /\ model'[m].content \in Versions
               /\ model'[m].managed = model[m].managed
            \/ /\ model[m].phase = "live" /\ (patient => ModelSettled(m))
               /\ model'[m].phase = "deleting" /\ model'[m].content = model[m].content
               /\ model'[m].tuples = model[m].tuples
               /\ model'[m].managed = model[m].managed
<1>0. model \in [Models -> ModelObjects]
  BY DEF TypeOK
<1>1. ASSUME NEW core \in Versions, NEW tuples \in SUBSET StoreTuples,
             CreateStoreObject(core, tuples) \/ EditStoreObject(core, tuples)
      PROVE  UNCHANGED <<model, mrun, seen>>
  BY <1>1 DEF CreateStoreObject, EditStoreObject, modelVars
<1>2. CASE DeleteStoreObject
  BY <1>2 DEF DeleteStoreObject, modelVars
<1>3. ASSUME NEW n \in Models, NEW content \in Versions,
             NEW tuples \in SUBSET ModelTuples[n], CreateModelObject(n, content, tuples)
      PROVE  /\ UNCHANGED <<mrun, seen, store>>
             /\ n # m => model'[m] = model[m]
             /\ n = m => /\ model[m].phase = "absent" /\ (patient => store.phase = "live")
                         /\ model'[m].phase = "live" /\ model'[m].content \in Versions
                         /\ model'[m].managed = {}
  BY <1>0, <1>3 DEF CreateModelObject, storeVars, ModelObjects
<1>4. ASSUME NEW n \in Models, NEW content \in Versions,
             NEW tuples \in SUBSET ModelTuples[n], EditModelObject(n, content, tuples)
      PROVE  /\ UNCHANGED <<mrun, seen>>
             /\ n # m => model'[m] = model[m]
             /\ n = m => /\ model[m].phase = "live" /\ (patient => ModelSettled(m))
                         /\ model'[m].phase = "live" /\ model'[m].content \in Versions
                         /\ model'[m].managed = model[m].managed
  BY <1>0, <1>4 DEF EditModelObject, ModelObjects
<1>5. ASSUME NEW n \in Models, DeleteModelObject(n)
      PROVE  /\ UNCHANGED <<mrun, seen>>
             /\ n # m => model'[m] = model[m]
             /\ n = m => /\ model[m].phase = "live" /\ (patient => ModelSettled(m))
                         /\ model'[m].phase = "deleting"
                         /\ model'[m].content = model[m].content
                         /\ model'[m].tuples = model[m].tuples
                         /\ model'[m].managed = model[m].managed
  BY <1>0, <1>5 DEF DeleteModelObject, ModelObjects
<1>6. ASSUME NEW i \in Ids, RenameByHand(i)
      PROVE  UNCHANGED <<model, mrun, seen>>
  BY <1>6 DEF RenameByHand, modelVars
<1> HIDE DEF ModelSettled
<1> QED
  BY <1>1, <1>2, <1>3, <1>4, <1>5, <1>6 DEF Environment

\* The Store's controller leaves them alone.
LEMMA StoreKeepsModels ==
  ASSUME StoreWorker \/ StoreFault
  PROVE  UNCHANGED <<model, mrun, seen>>
  BY DEF StoreWorker, StoreFault, StoreRefused, EndStoreRun, StoreStep, StoreStepWith,
         BeginStore, FindStoreByName, CreateFgaStore, CheckStoreName, UpdateStoreName,
         ListRelatedModels, WriteModelIfChanged, ApplyStoreTuples, PruneStoreTuples,
         PersistStoreStatus, FinalizeStoreTuples, ReleaseTuplesFinalizer,
         CheckRelatedModels, DeleteFgaStore, RemoveStoreObject, modelVars

\* Their own controller works on one at a time.
LEMMA OtherModels ==
  ASSUME TypeOK, NEW m \in Models, ModelWorker(m) \/ ModelFault(m) \/ DeliverModelEvent(m),
         NEW n \in Models, n # m
  PROVE  model'[n] = model[n] /\ mrun'[n] = mrun[n] /\ seen'[n] = seen[n]
<1>0. /\ model \in [Models -> ModelObjects] /\ mrun \in [Models -> ModelRuns]
      /\ seen \in [Models -> Versions \cup {NoVersion}]
  BY DEF TypeOK, Modules
<1> QED
  BY <1>0
  DEF ModelWorker, ModelFault, DeliverModelEvent, BeginModel, GetStoreOfModel,
      ApplyModelTuples, PruneModelTuples, PersistModelStatus, FinalizeModelTuples,
      RemoveModelObject, ModelRefused, EndModelRun, ModelStep, modelVars

LEMMA ModelBegins ==
  ASSUME TypeOK, NEW m \in Models, BeginModel(m)
  PROVE  /\ UNCHANGED <<model, seen, fga>>
         /\ \/ mrun'[m] = mrun[m]
            \/ /\ mrun'[m].pc = "get" /\ model[m].phase # "absent"
               /\ mrun'[m].deleting = (model[m].phase = "deleting")
               /\ mrun'[m].tuples = model[m].tuples /\ mrun'[m].managed = model[m].managed
<1>0. mrun \in [Models -> ModelRuns]
  BY DEF TypeOK
<1> QED
  BY <1>0 DEF BeginModel

LEMMA ModelMoves ==
  ASSUME TypeOK, NEW m \in Models,
         \/ GetStoreOfModel(m) \/ ApplyModelTuples(m) \/ PruneModelTuples(m)
         \/ FinalizeModelTuples(m)
  PROVE  /\ UNCHANGED <<model, seen>>
         /\ mrun'[m].deleting = mrun[m].deleting /\ mrun'[m].tuples = mrun[m].tuples
         /\ mrun'[m].managed = mrun[m].managed
         /\ \/ /\ mrun[m].pc = "get" /\ GetStoreOfModel(m) /\ fga' = fga
               /\ mrun'[m].pc = IF mrun[m].deleting THEN "untuple" ELSE "apply"
               /\ mrun'[m].storeID = store.status.storeID
            \/ /\ mrun'[m].storeID = mrun[m].storeID
               /\ \/ ApplyModelTuples(m) /\ mrun[m].pc = "apply" /\ mrun'[m].pc = "prune"
                  \/ PruneModelTuples(m) /\ mrun[m].pc = "prune" /\ mrun'[m].pc = "persist"
                  \/ /\ FinalizeModelTuples(m)
                     /\ mrun[m].pc = "untuple" /\ mrun'[m].pc = "remove"
<1>0. mrun \in [Models -> ModelRuns] /\ mrun[m] \in ModelRuns
  BY DEF TypeOK
<1>1. CASE GetStoreOfModel(m)
  BY <1>0, <1>1 DEF GetStoreOfModel, ModelRuns
<1>2. CASE ApplyModelTuples(m)
  BY <1>0, <1>2 DEF ApplyModelTuples, ModelStep, ModelRuns
<1>3. CASE PruneModelTuples(m)
  BY <1>0, <1>3 DEF PruneModelTuples, ModelStep, ModelRuns
<1>4. CASE FinalizeModelTuples(m)
  BY <1>0, <1>4 DEF FinalizeModelTuples, ModelStep, ModelRuns
<1> QED
  BY <1>1, <1>2, <1>3, <1>4

LEMMA ModelEnds ==
  ASSUME TypeOK, NEW m \in Models,
         PersistModelStatus(m) \/ RemoveModelObject(m) \/ ModelRefused(m) \/ ModelFault(m)
  PROVE  /\ UNCHANGED <<seen, fga>> /\ mrun'[m].pc = "idle" /\ mrun'[m] = IdleM
         /\ \/ model'[m] = model[m]
            \/ /\ mrun[m].pc = "persist" /\ model'[m].phase = model[m].phase
               /\ model'[m].content = model[m].content
               /\ model'[m].tuples = model[m].tuples /\ model'[m].managed = mrun[m].tuples
            \/ mrun[m].pc = "remove" /\ model'[m] = NoModel
<1>0. /\ mrun \in [Models -> ModelRuns] /\ model \in [Models -> ModelObjects]
      /\ model[m] \in ModelObjects
  BY DEF TypeOK
<1>1. mrun'[m] = IdleM
  BY <1>0
  DEF PersistModelStatus, RemoveModelObject, ModelRefused, ModelFault, EndModelRun
<1>2. CASE PersistModelStatus(m)
  BY <1>0, <1>1, <1>2 DEF PersistModelStatus, ModelObjects, IdleM
<1>3. CASE RemoveModelObject(m)
  BY <1>0, <1>1, <1>3 DEF RemoveModelObject, IdleM
<1>4. CASE ModelRefused(m) \/ ModelFault(m)
  BY <1>0, <1>1, <1>4 DEF ModelRefused, ModelFault, EndModelRun, IdleM
<1> QED
  BY <1>2, <1>3, <1>4

\* The steps about an AuthorizationModel, by what they do to it.
LEMMA ModelSteps ==
  ASSUME NEW m \in Models, ModelWorker(m) \/ ModelFault(m) \/ DeliverModelEvent(m)
  PROVE  \/ BeginModel(m)
         \/ GetStoreOfModel(m) \/ ApplyModelTuples(m) \/ PruneModelTuples(m)
         \/ FinalizeModelTuples(m)
         \/ PersistModelStatus(m) \/ RemoveModelObject(m) \/ ModelRefused(m) \/ ModelFault(m)
         \/ DeliverModelEvent(m)
  BY DEF ModelWorker

LEMMA CopyStep == TypeOK /\ CopyInv /\ [Next]_vars => CopyInv'
<1> SUFFICES ASSUME TypeOK, CopyInv, [Next]_vars, NEW m \in Models
             PROVE
    /\ model'[m].phase = "absent" => model'[m] = NoModel
    /\ model'[m].phase # "absent" => model'[m].content # NoVersion
    /\ mrun'[m].pc # "idle" => model'[m].phase # "absent"
    /\ mrun'[m].pc \in {"apply", "prune", "persist"} => ~ mrun'[m].deleting
    /\ mrun'[m].pc \in {"untuple", "remove"} => mrun'[m].deleting
    /\ patient' /\ mrun'[m].pc # "idle" =>
         /\ model'[m].phase = IF mrun'[m].deleting THEN "deleting" ELSE "live"
         /\ mrun'[m].tuples = model'[m].tuples /\ mrun'[m].managed = model'[m].managed
    /\ patient' /\ model'[m].phase = "deleting" => model'[m].managed = model'[m].tuples
  BY DEF CopyInv
<1>0. /\ patient' = patient /\ NoVersion \notin Versions
      /\ model[m].phase \in Phases /\ mrun[m].deleting \in BOOLEAN
  BY PatienceStays, ConstantsAssumption DEF TypeOK, ModelObjects, ModelRuns
<1>1. CASE model'[m] = model[m] /\ mrun'[m] = mrun[m]
  BY <1>0, <1>1 DEF CopyInv
<1>2. CASE Environment
  <2>1. mrun'[m] = mrun[m]
    BY <1>2, ModelEdits
  <2>2. CASE /\ model[m].phase = "absent" /\ model'[m].phase = "live"
             /\ model'[m].content \in Versions
    BY <1>0, <2>1, <2>2 DEF CopyInv
  <2>3. CASE /\ model[m].phase = "live" /\ (patient => ModelSettled(m))
             /\ model'[m].phase = "live" /\ model'[m].content \in Versions
    <3>1. patient => mrun[m].pc = "idle" /\ model[m].managed = model[m].tuples
      BY <2>3 DEF ModelSettled
    <3>2. model'[m].content # NoVersion
      BY <1>0, <2>3 DEF CopyInv
    <3> QED
      BY <1>0, <2>1, <2>3, <3>1, <3>2 DEF CopyInv
  <2>4. CASE /\ model[m].phase = "live" /\ (patient => ModelSettled(m))
             /\ model'[m].phase = "deleting" /\ model'[m].content = model[m].content
             /\ model'[m].tuples = model[m].tuples
             /\ model'[m].managed = model[m].managed
    <3>1. patient => mrun[m].pc = "idle" /\ model[m].managed = model[m].tuples
      BY <2>4 DEF ModelSettled
    <3>2. model'[m].content # NoVersion
      BY <1>0, <2>4 DEF CopyInv
    <3> QED
      BY <1>0, <2>1, <2>4, <3>1, <3>2 DEF CopyInv
  <2> QED
    BY <1>1, <1>2, <2>1, <2>2, <2>3, <2>4, ModelEdits
<1>3. CASE StoreWorker \/ StoreFault
  BY <1>1, <1>3, StoreKeepsModels
<1>4. ASSUME NEW n \in Models, ModelWorker(n) \/ ModelFault(n) \/ DeliverModelEvent(n),
             n # m
      PROVE  model'[m] = model[m] /\ mrun'[m] = mrun[m]
  BY <1>4, OtherModels
<1>5. CASE BeginModel(m)
  BY <1>0, <1>1, <1>5, ModelBegins DEF CopyInv, Phases
<1>6. CASE \/ GetStoreOfModel(m) \/ ApplyModelTuples(m) \/ PruneModelTuples(m)
           \/ FinalizeModelTuples(m)
  BY <1>0, <1>6, ModelMoves DEF CopyInv
<1>7. CASE PersistModelStatus(m) \/ RemoveModelObject(m) \/ ModelRefused(m) \/ ModelFault(m)
  <2>1. mrun'[m].pc = "idle"
    BY <1>7, ModelEnds
  <2>2. CASE model'[m] = model[m]
    BY <1>0, <2>1, <2>2 DEF CopyInv
  <2>3. CASE /\ mrun[m].pc = "persist" /\ model'[m].phase = model[m].phase
             /\ model'[m].content = model[m].content
             /\ model'[m].tuples = model[m].tuples /\ model'[m].managed = mrun[m].tuples
    BY <1>0, <2>1, <2>3 DEF CopyInv
  <2>4. CASE model'[m] = NoModel
    BY <2>1, <2>4 DEF NoModel
  <2> QED
    BY <1>7, <2>2, <2>3, <2>4, ModelEnds
<1>8. CASE DeliverModelEvent(m)
  BY <1>1, <1>8 DEF DeliverModelEvent, modelVars
<1>9. CASE UNCHANGED vars
  BY <1>1, <1>9 DEF vars
<1> QED
  BY <1>1, <1>2, <1>3, <1>4, <1>5, <1>6, <1>7, <1>8, <1>9, ModelSteps DEF Next

\* Patient users delete the Store when everything is up to date.
LEMMA DeletionSettled ==
  ASSUME TypeOK, Environment, patient, store.phase # "deleting", store'.phase = "deleting"
  PROVE  UNCHANGED <<model, seen>> /\ \A m \in Models : ModelSettled(m)
<1>0. store \in StoreObjects
  BY DEF TypeOK
<1>1. ASSUME NEW core \in Versions, NEW tuples \in SUBSET StoreTuples,
             CreateStoreObject(core, tuples) \/ EditStoreObject(core, tuples)
      PROVE  FALSE
  BY <1>0, <1>1 DEF CreateStoreObject, EditStoreObject, NoStore, StoreObjects
<1>2. CASE store' = store
  BY <1>2
<1>3. ASSUME NEW m \in Models, NEW content \in Versions,
             NEW tuples \in SUBSET ModelTuples[m],
             CreateModelObject(m, content, tuples) \/ EditModelObject(m, content, tuples)
      PROVE  FALSE
  BY <1>2, <1>3 DEF CreateModelObject, EditModelObject, storeVars
<1>4. ASSUME NEW m \in Models, DeleteModelObject(m) PROVE FALSE
  BY <1>2, <1>4 DEF DeleteModelObject, storeVars
<1>5. ASSUME NEW i \in Ids, RenameByHand(i) PROVE FALSE
  BY <1>2, <1>5 DEF RenameByHand, storeVars
<1>6. CASE DeleteStoreObject
  BY <1>6 DEF DeleteStoreObject, modelVars
<1> QED
  BY <1>1, <1>3, <1>4, <1>5, <1>6 DEF Environment

\* The Store keeps its phase until its removal, and the id of its status once it is set.
LEMMA StoreEndures ==
  ASSUME TypeOK, ChainInv, StoreWorker \/ StoreFault
  PROVE  \/ RemoveStoreObject
         \/ /\ store'.phase = store.phase
            /\ store.status.storeID # NoId =>
                 store'.status.storeID = store.status.storeID
            /\ \/ store'.status.storeID = store.status.storeID
               \/ run.pc # "idle" /\ store'.status.storeID = run.status.storeID
<1>1. CASE BeginStore \/ Plain \/ PruneStoreTuples \/ FinalizeStoreTuples
  BY <1>1, BeginShape, PlainSteps, PruneShape, FinalizeShape DEF Plain
<1>2. CASE ReleaseTuplesFinalizer
  BY <1>2, ReleaseShape
<1>3. CASE PersistStoreStatus \/ StoreRefused \/ StoreFault
  BY <1>3, EndShape DEF ChainInv
<1> QED
  BY <1>1, <1>2, <1>3, StoreSteps

\* The controller of the AuthorizationModels creates none, and removes a deleted one.
LEMMA ModelEndures ==
  ASSUME TypeOK, NEW m \in Models, ModelWorker(m) \/ ModelFault(m) \/ DeliverModelEvent(m),
         NEW n \in Models
  PROVE  /\ model'[n].phase # "absent" => model[n].phase # "absent"
         /\ \/ seen'[n] = seen[n]
            \/ seen'[n] = model[n].content /\ model'[n] = model[n]
<1>1. CASE n # m
  BY <1>1, OtherModels
<1>2. CASE n = m /\ DeliverModelEvent(m)
  <2>1. seen \in [Models -> Versions \cup {NoVersion}]
    BY DEF TypeOK, Modules
  <2> QED
    BY <1>2, <2>1 DEF DeliverModelEvent, modelVars
<1>3. CASE n = m /\ ~ DeliverModelEvent(m)
  <2>1. seen' = seen
    BY <1>3, ModelBegins, ModelMoves, ModelEnds, ModelSteps
  <2>2. model'[m].phase = model[m].phase \/ model'[m] = NoModel
    BY <1>3, ModelBegins, ModelMoves, ModelEnds, ModelSteps
  <2> QED
    BY <1>3, <2>1, <2>2 DEF NoModel
<1> QED
  BY <1>1, <1>2, <1>3

\* How the reconcile of the Store gets to the deletion of the store.
LEMMA DropShape ==
  ASSUME TypeOK, StoreWorker \/ StoreFault, run'.pc \in {"drop", "remove"}
  PROVE  /\ UNCHANGED store
         /\ \/ /\ run.pc = "related"
               /\ run.status.storeID = NoId \/ (NoRelatedModels /\ run'.pc = "drop")
            \/ DeleteFgaStore /\ run.pc = "drop" /\ run'.pc = "remove"
            \/ run'.pc = run.pc /\ BeginStore
<1>1. CASE BeginStore
  BY <1>1, BeginShape
<1>2. CASE Plain
  <2>1. CASE CheckRelatedModels
    BY <2>1, StepShape DEF CheckRelatedModels
  <2>2. CASE DeleteFgaStore
    BY <2>2, StepShape DEF DeleteFgaStore
  <2>3. CASE FindStoreByName \/ CheckStoreName \/ UpdateStoreName \/ ApplyStoreTuples
    <3>1. CASE FindStoreByName
      <4>1. ASSUME NEW i \in FirstPage,
                   StoreStepWith("find", "list", [run.status EXCEPT !.storeID = i])
            PROVE  run'.pc = "list"
        BY <4>1, StepWithShape
      <4>2. CASE StoreStep("find", "create")
        BY <4>2, StepShape
      <4> QED
        BY <3>1, <4>1, <4>2 DEF FindStoreByName
    <3>2. CASE CheckStoreName
      <4>1. StoreStep("check", "list") \/ StoreStep("check", "rename")
        BY <3>2 DEF CheckStoreName
      <4> QED
        BY <4>1, StepShape
    <3>3. CASE UpdateStoreName \/ ApplyStoreTuples
      BY <3>3, StepShape DEF UpdateStoreName, ApplyStoreTuples
    <3> QED
      BY <2>3, <3>1, <3>2, <3>3
  <2>4. CASE CreateFgaStore
    BY <2>4, StepWithShape DEF CreateFgaStore
  <2>5. CASE ListRelatedModels
    BY <2>5 DEF ListRelatedModels, TypeOK, StoreRuns
  <2>6. CASE WriteModelIfChanged
    BY <2>6, StepShape, StepWithShape DEF WriteModelIfChanged
  <2> QED
    BY <1>2, <2>1, <2>2, <2>3, <2>4, <2>5, <2>6 DEF Plain
<1>3. CASE PruneStoreTuples \/ FinalizeStoreTuples \/ ReleaseTuplesFinalizer
  BY <1>3, PruneShape, FinalizeShape, ReleaseShape
<1>4. CASE RemoveStoreObject
  BY <1>4 DEF RemoveStoreObject, Idle
<1>5. CASE PersistStoreStatus \/ StoreRefused \/ StoreFault
  BY <1>5, EndShape DEF Idle
<1> QED
  BY <1>1, <1>2, <1>3, <1>4, <1>5, StoreSteps

LEMMA ReferredStep ==
  KnownIds /\ CopyInv /\ ReferredInv /\ [Next]_vars => ReferredInv'
<1> SUFFICES ASSUME KnownIds, CopyInv, ReferredInv, [Next]_vars, patient
             PROVE  ReferredInv'
  BY PatienceStays DEF ReferredInv
<1>0. TypeOK /\ ChainInv /\ OwnersInv
  BY DEF KnownIds
<1>1. store'.phase = "deleting" => store'.status.storeID # NoId
  <2>1. store.phase = "deleting" => store.status.storeID # NoId
    BY DEF ReferredInv
  <2>2. CASE Environment
    BY <1>0, <2>1, <2>2, Edits DEF StoreSettled
  <2>3. CASE RemoveStoreObject
    BY <2>3 DEF RemoveStoreObject, NoStore
  <2>4. CASE StoreWorker \/ StoreFault
    BY <1>0, <2>1, <2>3, <2>4, StoreEndures
  <2>5. ASSUME NEW m \in Models, ModelWorker(m) \/ ModelFault(m) \/ DeliverModelEvent(m)
        PROVE  UNCHANGED store
    BY <2>5, OtherSteps
  <2>6. CASE UNCHANGED vars
    BY <2>1, <2>6 DEF vars
  <2> QED
    BY <2>1, <2>2, <2>4, <2>5, <2>6 DEF Next
<1> SUFFICES ASSUME NEW m \in Models
             PROVE  /\ store'.phase = "deleting" /\ model'[m].phase # "absent" =>
                         seen'[m] # NoVersion
                    /\ run'.pc \in {"drop", "remove"} => model'[m].phase = "absent"
                    /\ mrun'[m].pc \notin {"idle", "get"} =>
                         mrun'[m].storeID \in {NoId, store'.status.storeID}
  BY <1>1 DEF ReferredInv
<1>2. /\ store.phase = "deleting" /\ model[m].phase # "absent" => seen[m] # NoVersion
      /\ run.pc \in {"drop", "remove"} => model[m].phase = "absent"
      /\ mrun[m].pc \notin {"idle", "get"} => mrun[m].storeID \in {NoId, store.status.storeID}
  BY DEF ReferredInv
<1>3. /\ model[m].phase # "absent" => model[m].content # NoVersion
      /\ mrun[m].pc # "idle" => model[m].phase # "absent"
  BY DEF CopyInv
<1>4. run.pc \in {"drop", "remove"} => store.phase = "deleting"
  BY <1>0 DEF ChainInv, FinalPCs
<1>5. CASE Environment
  <2>1. UNCHANGED <<mrun, seen, run>>
    BY <1>0, <1>5, ModelEdits, Edits
  <2>2. store'.status.storeID = store.status.storeID
    BY <1>0, <1>5, EditSteps DEF ChainInv, NewStatus
  <2>3. store.phase = "deleting" =>
          store'.phase = "deleting" /\ (model'[m].phase # "absent" => model[m].phase # "absent")
    BY <1>0, <1>5, ModelEdits, EditSteps
  <2>4. CASE store.phase = "deleting"
    BY <1>2, <1>4, <2>1, <2>2, <2>3, <2>4
  <2>5. CASE store.phase # "deleting" /\ store'.phase = "deleting"
    <3>1. model' = model /\ seen[m] = model[m].content
      BY <1>0, <1>5, <2>5, DeletionSettled DEF ModelSettled
    <3> QED
      BY <1>2, <1>3, <1>4, <2>1, <2>2, <2>5, <3>1
  <2>6. CASE store.phase # "deleting" /\ store'.phase # "deleting"
    BY <1>2, <1>4, <2>1, <2>2, <2>6
  <2> QED
    BY <2>4, <2>5, <2>6
<1>6. CASE StoreWorker \/ StoreFault
  <2>1. UNCHANGED <<model, mrun, seen>>
    BY <1>6, StoreKeepsModels
  <2>2. run'.pc \in {"drop", "remove"} => model[m].phase = "absent"
    <3>1. CASE run.pc = "related"
      <4>1. store.phase = "deleting" /\ run.status.storeID # NoId
        BY <1>0, <3>1 DEF ChainInv, FinalPCs, ReferredInv
      <4> QED
        BY <1>0, <1>2, <1>6, <3>1, <4>1, DropShape DEF NoRelatedModels
    <3> QED
      BY <1>0, <1>2, <1>6, <3>1, DropShape
  <2>3. CASE RemoveStoreObject
    <3>1. run.pc = "remove" /\ store' = NoStore
      BY <2>3 DEF RemoveStoreObject
    <3>2. mrun[m].pc = "idle" /\ store'.phase # "deleting"
      BY <1>2, <1>3, <3>1 DEF NoStore
    <3> QED
      BY <2>1, <2>2, <3>2
  <2>4. CASE ~ RemoveStoreObject
    <3>1. /\ store'.phase = store.phase
          /\ store.status.storeID # NoId => store'.status.storeID = store.status.storeID
      BY <1>0, <1>6, <2>4, StoreEndures
    <3> QED
      BY <1>2, <2>1, <2>2, <3>1
  <2> QED
    BY <2>3, <2>4
<1>7. ASSUME NEW n \in Models, ModelWorker(n) \/ ModelFault(n) \/ DeliverModelEvent(n)
      PROVE  /\ store'.phase = "deleting" /\ model'[m].phase # "absent" =>
                  seen'[m] # NoVersion
             /\ run'.pc \in {"drop", "remove"} => model'[m].phase = "absent"
             /\ mrun'[m].pc \notin {"idle", "get"} =>
                  mrun'[m].storeID \in {NoId, store'.status.storeID}
  <2>1. UNCHANGED <<store, run>>
    BY <1>7, OtherSteps
  <2>2. /\ model'[m].phase # "absent" => model[m].phase # "absent"
        /\ seen'[m] = seen[m] \/ (seen'[m] = model[m].content /\ model'[m] = model[m])
    BY <1>0, <1>7, ModelEndures
  <2>3. mrun'[m].pc \notin {"idle", "get"} =>
          mrun'[m].storeID \in {NoId, store.status.storeID}
    <3>1. CASE n # m
      BY <1>0, <1>2, <1>7, <3>1, OtherModels
    <3>2. CASE mrun'[m] = mrun[m]
      BY <1>2, <3>2
    <3>3. CASE BeginModel(m)
      BY <1>0, <3>2, <3>3, ModelBegins
    <3>4. CASE \/ GetStoreOfModel(m) \/ ApplyModelTuples(m) \/ PruneModelTuples(m)
               \/ FinalizeModelTuples(m)
      BY <1>0, <1>2, <3>4, ModelMoves
    <3>5. CASE \/ PersistModelStatus(m) \/ RemoveModelObject(m) \/ ModelRefused(m)
               \/ ModelFault(m)
      BY <1>0, <3>5, ModelEnds
    <3>6. CASE DeliverModelEvent(m)
      BY <3>2, <3>6 DEF DeliverModelEvent, modelVars
    <3> QED
      BY <1>7, <3>1, <3>3, <3>4, <3>5, <3>6, ModelSteps
  <2> QED
    BY <1>2, <1>3, <2>1, <2>2, <2>3
<1>8. CASE UNCHANGED vars
  BY <1>2, <1>8 DEF vars
<1> QED
  BY <1>5, <1>6, <1>7, <1>8 DEF Next

----------------------------------------------------------------------------
(* What the steps write to OpenFGA, whoever's tuples it is.                *)

LEMMA TuplesApplied ==
  ASSUME TypeOK, NEW id, NEW tuples, Writable(id, tuples), fga' = Applied(id, tuples)
  PROVE  \A i \in Ids :
            /\ fga'[i].tuples = IF i = id THEN fga[i].tuples \cup tuples ELSE fga[i].tuples
            /\ i = id /\ tuples # {} => Alive(i)
  BY DEF TypeOK, FgaStores, Writable, Alive, Applied

LEMMA TuplesRemoved ==
  ASSUME TypeOK, NEW id, NEW tuples, Writable(id, tuples), fga' = Removed(id, tuples)
  PROVE  \A i \in Ids :
            /\ fga'[i].tuples = IF i = id THEN fga[i].tuples \ tuples ELSE fga[i].tuples
            /\ i = id /\ tuples # {} => Alive(i)
  BY DEF TypeOK, FgaStores, Writable, Alive, Removed

\* Users rename a store, and only the one the status names.
LEMMA EditsWrite ==
  ASSUME TypeOK, Environment, NEW i \in Ids
  PROVE  /\ fga'[i].tuples = fga[i].tuples /\ fga'[i].state = fga[i].state
         /\ i # store.status.storeID => fga'[i] = fga[i]
<1>0. fga \in [Ids -> FgaStores]
  BY DEF TypeOK
<1>1. CASE fga' = fga
  BY <1>1
<1>2. ASSUME NEW j \in Ids, RenameByHand(j)
      PROVE  /\ fga'[i].tuples = fga[i].tuples /\ fga'[i].state = fga[i].state
             /\ i # store.status.storeID => fga'[i] = fga[i]
  BY <1>0, <1>2 DEF RenameByHand, FgaStores
<1>3. fga' = fga \/ \E j \in Ids : RenameByHand(j)
  BY DEF Environment, CreateStoreObject, EditStoreObject, DeleteStoreObject,
         CreateModelObject, EditModelObject, DeleteModelObject
<1> QED
  BY <1>1, <1>2, <1>3

\* The Store's controller writes what its copy of the spec has, and to one store.
LEMMA StoreWrites ==
  ASSUME TypeOK, StoreWorker \/ StoreFault, NEW i \in Ids
  PROVE  /\ \/ fga'[i].tuples \subseteq fga[i].tuples
            \/ /\ ApplyStoreTuples /\ i = run.status.storeID /\ Alive(i)
               /\ fga'[i].tuples = fga[i].tuples \cup run.tuples
         /\ fga'[i].state = "live" /\ fga'[i].tuples # {} => Alive(i)
<1>0. fga \in [Ids -> FgaStores]
  BY DEF TypeOK
<1>1. CASE ApplyStoreTuples
  <2>1. /\ Writable(run.status.storeID, run.tuples)
        /\ fga' = Applied(run.status.storeID, run.tuples)
    BY <1>1 DEF ApplyStoreTuples
  <2>2. /\ fga'[i].tuples = IF i = run.status.storeID THEN fga[i].tuples \cup run.tuples
                                                      ELSE fga[i].tuples
        /\ i = run.status.storeID /\ run.tuples # {} => Alive(i)
    BY <2>1, TuplesApplied
  <2>3. fga'[i].state = fga[i].state
    BY <2>1, TuplesOnly
  <2>4. CASE i = run.status.storeID /\ run.tuples # {}
    BY <1>1, <2>2, <2>3, <2>4
  <2>5. CASE ~ (i = run.status.storeID /\ run.tuples # {})
    BY <2>2, <2>3, <2>5 DEF Alive
  <2> QED
    BY <2>4, <2>5
<1>2. CASE PruneStoreTuples
  <2> DEFINE stale == run.status.managed \ run.tuples
  <2>1. /\ Writable(run.status.storeID, stale)
        /\ fga' = Removed(run.status.storeID, stale)
    BY <1>2 DEF PruneStoreTuples
  <2> HIDE DEF stale
  <2>2. fga'[i].tuples \subseteq fga[i].tuples
    BY <2>1, TuplesRemoved
  <2>3. fga'[i].state = fga[i].state
    BY <2>1, TuplesOnly
  <2> QED
    BY <2>2, <2>3 DEF Alive
<1>3. CASE FinalizeStoreTuples
  <2>1. /\ Writable(run.status.storeID, run.status.managed)
        /\ fga' = Removed(run.status.storeID, run.status.managed)
    BY <1>3 DEF FinalizeStoreTuples
  <2>2. fga'[i].tuples \subseteq fga[i].tuples
    BY <2>1, TuplesRemoved
  <2>3. fga'[i].state = fga[i].state
    BY <2>1, TuplesOnly
  <2> QED
    BY <2>2, <2>3 DEF Alive
<1>4. CASE CreateFgaStore
  BY <1>0, <1>4 DEF CreateFgaStore, Alive
<1>5. CASE DeleteFgaStore
  BY <1>0, <1>5 DEF DeleteFgaStore, Alive
<1>6. CASE UpdateStoreName \/ WriteModelIfChanged
  BY <1>0, <1>6 DEF UpdateStoreName, WriteModelIfChanged, Alive, FgaStores
<1>7. CASE fga' = fga
  BY <1>7 DEF Alive
<1> QED
  BY <1>1, <1>2, <1>3, <1>4, <1>5, <1>6, <1>7
  DEF StoreWorker, StoreFault, StoreRefused, EndStoreRun, BeginStore, FindStoreByName,
      CheckStoreName, ListRelatedModels, PersistStoreStatus, ReleaseTuplesFinalizer,
      CheckRelatedModels, RemoveStoreObject

\* Only DeleteStore takes a store from OpenFGA, and no step of the controller its name.
LEMMA StoresStay ==
  ASSUME TypeOK, StoreWorker \/ StoreFault, ~ DeleteFgaStore, NEW i \in Ids, Alive(i)
  PROVE  fga'[i].state = "live" /\ (fga[i].ours => fga'[i].ours)
<1>0. fga \in [Ids -> FgaStores]
  BY DEF TypeOK
<1>1. CASE ApplyStoreTuples
  BY <1>1, TuplesOnly DEF ApplyStoreTuples, Alive
<1>2. CASE PruneStoreTuples
  BY <1>2, TuplesOnly DEF PruneStoreTuples, Alive
<1>3. CASE FinalizeStoreTuples
  BY <1>3, TuplesOnly DEF FinalizeStoreTuples, Alive
<1>4. CASE CreateFgaStore
  BY <1>0, <1>4 DEF CreateFgaStore, Alive
<1>5. CASE UpdateStoreName \/ WriteModelIfChanged
  BY <1>0, <1>5 DEF UpdateStoreName, WriteModelIfChanged, Alive, FgaStores
<1>6. CASE fga' = fga
  BY <1>6 DEF Alive
<1> QED
  BY <1>1, <1>2, <1>3, <1>4, <1>5, <1>6
  DEF StoreWorker, StoreFault, StoreRefused, EndStoreRun, BeginStore, FindStoreByName,
      CheckStoreName, ListRelatedModels, PersistStoreStatus, ReleaseTuplesFinalizer,
      CheckRelatedModels, RemoveStoreObject

\* The reconcile of an AuthorizationModel writes and deletes its copy's tuples.
LEMMA ModelWrites ==
  ASSUME TypeOK, NEW m \in Models, ModelWorker(m) \/ ModelFault(m) \/ DeliverModelEvent(m),
         NEW i \in Ids
  PROVE  /\ fga'[i].state = fga[i].state /\ fga'[i].ours = fga[i].ours
         /\ \/ fga'[i].tuples \subseteq fga[i].tuples
            \/ /\ ApplyModelTuples(m) /\ i = mrun[m].storeID /\ Alive(i)
               /\ fga'[i].tuples = fga[i].tuples \cup mrun[m].tuples
<1>1. CASE ApplyModelTuples(m)
  <2>1. /\ Writable(mrun[m].storeID, mrun[m].tuples)
        /\ fga' = Applied(mrun[m].storeID, mrun[m].tuples)
    BY <1>1 DEF ApplyModelTuples
  <2>2. /\ fga'[i].tuples = IF i = mrun[m].storeID THEN fga[i].tuples \cup mrun[m].tuples
                                                   ELSE fga[i].tuples
        /\ i = mrun[m].storeID /\ mrun[m].tuples # {} => Alive(i)
    BY <2>1, TuplesApplied
  <2>3. fga'[i].state = fga[i].state /\ fga'[i].ours = fga[i].ours
    BY <2>1, TuplesOnly
  <2>4. CASE i = mrun[m].storeID /\ mrun[m].tuples # {}
    BY <1>1, <2>2, <2>3, <2>4
  <2>5. CASE ~ (i = mrun[m].storeID /\ mrun[m].tuples # {})
    BY <2>2, <2>3, <2>5
  <2> QED
    BY <2>4, <2>5
<1>2. CASE PruneModelTuples(m)
  <2> DEFINE stale == mrun[m].managed \ mrun[m].tuples
  <2>1. Writable(mrun[m].storeID, stale) /\ fga' = Removed(mrun[m].storeID, stale)
    BY <1>2 DEF PruneModelTuples
  <2> HIDE DEF stale
  <2>2. fga'[i].tuples \subseteq fga[i].tuples
    BY <2>1, TuplesRemoved
  <2>3. fga'[i].state = fga[i].state /\ fga'[i].ours = fga[i].ours
    BY <2>1, TuplesOnly
  <2> QED
    BY <2>2, <2>3
<1>3. CASE FinalizeModelTuples(m)
  <2>1. /\ Writable(mrun[m].storeID, mrun[m].managed)
        /\ fga' = Removed(mrun[m].storeID, mrun[m].managed)
    BY <1>3 DEF FinalizeModelTuples
  <2>2. fga'[i].tuples \subseteq fga[i].tuples
    BY <2>1, TuplesRemoved
  <2>3. fga'[i].state = fga[i].state /\ fga'[i].ours = fga[i].ours
    BY <2>1, TuplesOnly
  <2> QED
    BY <2>2, <2>3
<1>4. CASE fga' = fga
  BY <1>4
<1> QED
  BY <1>1, <1>2, <1>3, <1>4, ModelSteps, ModelBegins, ModelMoves, ModelEnds
  DEF DeliverModelEvent

----------------------------------------------------------------------------
(* The store of the Store is the only one with tuples.                     *)

\* The store a reconcile found or created carries the name until the status names it.
LEMMA NamedStep ==
  ASSUME KnownIds, HomeInv, [Next]_vars,
         store'.status.storeID = NoId, run'.pc \in ProcessPCs
  PROVE  Ours(run.status.storeID)'
<1>0. /\ TypeOK /\ ChainInv /\ fga \in [Ids -> FgaStores] /\ run.status \in Status
      /\ store.phase \in Phases /\ store.status.storeID \in Ids \cup {NoId}
  BY DEF KnownIds, TypeOK, StoreRuns, StoreObjects, Status
<1>1. ASSUME run.pc \in ProcessPCs, store.status.storeID = NoId,
             run'.status.storeID = run.status.storeID,
             \A i \in Ids : Ours(i) => fga'[i].state = "live" /\ fga'[i].ours
      PROVE  Ours(run.status.storeID)'
  <2>1. Ours(run.status.storeID) /\ run.status.storeID \in Ids
    BY <1>1 DEF HomeInv, Ours, Alive
  <2> QED
    BY <1>1, <2>1 DEF Ours, Alive
<1>2. CASE Environment
  <2>1. run' = run /\ store.status.storeID = NoId
    BY <1>0, <1>2, EditSteps DEF ChainInv, NewStatus
  <2>2. \A i \in Ids : fga'[i] = fga[i]
    BY <1>0, <1>2, <2>1, EditsWrite DEF Ids, NoId
  <2> QED
    BY <1>1, <2>1, <2>2 DEF Ours, Alive
<1>3. CASE BeginStore
  <2>1. run'.pc = "check" => store.status.storeID # NoId
    BY <1>0, <1>3, BeginShape DEF BeginStore, TypeOK, StoreObjects, Phases
  <2> QED
    BY <1>0, <1>3, <2>1, BeginShape DEF ProcessPCs
<1>4. ASSUME StoreWorker \/ StoreFault, UNCHANGED store, run.pc \in ProcessPCs,
             run'.status.storeID = run.status.storeID
      PROVE  Ours(run.status.storeID)'
  <2>1. ~ DeleteFgaStore
    BY <1>0, <1>4, StepShape DEF DeleteFgaStore, ProcessPCs
  <2>2. \A i \in Ids : Ours(i) => fga'[i].state = "live" /\ fga'[i].ours
    BY <1>0, <1>4, <2>1, StoresStay DEF Ours
  <2> QED
    BY <1>1, <1>4, <2>2
<1>5. CASE Plain
  <2>1. UNCHANGED store /\ StoreWorker
    BY <1>0, <1>5, PlainSteps DEF Plain, StoreWorker
  <2>2. CASE run.pc = "find" /\ fga' = fga /\ Ours(run'.status.storeID)
    BY <2>2 DEF Ours, Alive
  <2>3. CASE CreateFgaStore
    <3>1. PICK i \in Ids :
             /\ fga' = [fga EXCEPT ![i] = [state |-> "live", ours |-> TRUE,
                                           tuples |-> {}, models |-> {}]]
             /\ StoreStepWith("create", "list", [run.status EXCEPT !.storeID = i])
      BY <2>3 DEF CreateFgaStore
    <3>2. run'.status.storeID = i
      BY <1>0, <3>1, StepWithShape DEF Status
    <3> QED
      BY <1>0, <3>1, <3>2 DEF Ours, Alive
  <2>4. CASE run'.status.storeID = run.status.storeID
    <3>1. run.pc \in ProcessPCs
      <4>1. run.status.storeID # NoId
        BY <2>4, WorkerKeepsChain, <1>0, <2>1 DEF ChainInv
      <4>2. run.pc \in ForwardPCs
        BY <1>0, <1>5, PlainSteps DEF Plain, ForwardPCs
      <4> QED
        BY <1>0, <4>1, <4>2 DEF ChainInv, ForwardPCs
    <3> QED
      BY <1>4, <2>1, <2>4, <3>1
  <2> QED
    BY <1>0, <1>5, <2>2, <2>3, <2>4, PlainIds
<1>6. CASE PruneStoreTuples
  <2>1. StoreWorker
    BY <1>6 DEF StoreWorker
  <2> QED
    BY <1>0, <1>4, <1>6, <2>1, PruneShape DEF ProcessPCs
<1>7. CASE FinalizeStoreTuples \/ ReleaseTuplesFinalizer
  BY <1>0, <1>7, FinalizeShape, ReleaseShape DEF ProcessPCs
<1>8. CASE RemoveStoreObject
  BY <1>8 DEF RemoveStoreObject, Idle, ProcessPCs
<1>9. CASE PersistStoreStatus \/ StoreRefused \/ StoreFault
  BY <1>0, <1>9, EndShape DEF Idle, ProcessPCs
<1>10. ASSUME NEW m \in Models, ModelWorker(m) \/ ModelFault(m) \/ DeliverModelEvent(m)
       PROVE  Ours(run.status.storeID)'
  BY <1>0, <1>1, <1>10, OtherSteps, ModelWrites DEF Ours, Alive
<1>11. CASE UNCHANGED vars
  BY <1>1, <1>11 DEF vars, Ours, Alive
<1> QED
  BY <1>2, <1>3, <1>5, <1>6, <1>7, <1>8, <1>9, <1>10, <1>11, StoreSteps DEF Next

LEMMA GoneStep ==
  ASSUME KnownIds, FreshInv, HomeInv, [Next]_vars, patient, run'.pc = "remove"
  PROVE  ~ Alive(store.status.storeID)'
<1>0. /\ TypeOK /\ ChainInv /\ fga \in [Ids -> FgaStores]
  BY DEF KnownIds, TypeOK
<1>1. ASSUME run' = run, store'.status.storeID = store.status.storeID,
             \A i \in Ids : fga'[i].state = fga[i].state
      PROVE  ~ Alive(store.status.storeID)'
  BY <1>1 DEF HomeInv, Alive
<1>2. CASE Environment
  <2>1. run' = run /\ store'.status.storeID = store.status.storeID
    BY <1>0, <1>2, EditSteps DEF ChainInv, NewStatus
  <2> QED
    BY <1>0, <1>1, <1>2, <2>1, EditsWrite
<1>3. CASE StoreWorker \/ StoreFault
  <2>1. CASE BeginStore /\ run'.pc = run.pc
    BY <1>0, <2>1, BeginShape
  <2>2. CASE run.pc = "related"
    <3>1. run.status.storeID # NoId
      BY <1>0, <2>2 DEF ChainInv, FinalPCs, FreshInv
    <3> QED
      BY <1>0, <1>3, <2>1, <2>2, <3>1, DropShape
  <2>3. CASE DeleteFgaStore /\ run.pc = "drop"
    <3>1. /\ run.status.storeID = store.status.storeID /\ store' = store
      BY <1>0, <1>3, <2>3, DropShape DEF ChainInv, FinalPCs, FreshInv
    <3> QED
      BY <1>0, <2>3, <3>1 DEF DeleteFgaStore, Alive
  <2> QED
    BY <1>0, <1>3, <2>1, <2>2, <2>3, DropShape
<1>4. ASSUME NEW m \in Models, ModelWorker(m) \/ ModelFault(m) \/ DeliverModelEvent(m)
      PROVE  ~ Alive(store.status.storeID)'
  BY <1>0, <1>1, <1>4, OtherSteps, ModelWrites
<1>5. CASE UNCHANGED vars
  BY <1>1, <1>5 DEF vars
<1> QED
  BY <1>2, <1>3, <1>4, <1>5 DEF Next

LEMMA HomeStep ==
  /\ KnownIds /\ OwnInv /\ ForwardInv /\ FreshInv /\ ReferredInv /\ HomeInv
  /\ [Next]_vars
  => HomeInv'
<1> SUFFICES ASSUME KnownIds, OwnInv, ForwardInv, FreshInv, ReferredInv, HomeInv,
                    [Next]_vars, patient, NEW i \in Ids,
                    fga'[i].state = "live", fga'[i].tuples # {}
             PROVE  \/ i = store'.status.storeID
                    \/ store'.phase = "live" /\ store'.status.storeID = NoId /\ Ours(i)'
  BY NamedStep, GoneStep, PatienceStays DEF HomeInv, Alive
<1>0. /\ TypeOK /\ ChainInv /\ fga \in [Ids -> FgaStores] /\ i # NoId
      /\ store.phase \in Phases /\ store.status.storeID \in Ids \cup {NoId}
  <2>1. i # NoId
    BY DEF Ids, NoId
  <2> QED
    BY <2>1 DEF KnownIds, TypeOK, StoreObjects, Status
<1>1. Alive(i) /\ fga[i].tuples # {} =>
        \/ i = store.status.storeID
        \/ store.phase = "live" /\ store.status.storeID = NoId /\ Ours(i)
  BY DEF HomeInv
<1>2. CASE Environment
  <2>1. Alive(i) /\ fga[i].tuples # {}
    BY <1>0, <1>2, EditsWrite DEF Alive
  <2>2. store'.status.storeID = store.status.storeID
    BY <1>0, <1>2, EditSteps DEF ChainInv, NewStatus
  <2>3. CASE store.phase = "live" /\ store.status.storeID = NoId /\ Ours(i)
    <3>1. fga'[i] = fga[i]
      BY <1>0, <1>2, <2>3, EditsWrite
    <3>2. store'.phase = "live"
      BY <1>0, <1>2, <2>3, Edits DEF StoreSettled
    <3> QED
      BY <2>2, <2>3, <3>1, <3>2 DEF Ours, Alive
  <2> QED
    BY <1>1, <2>1, <2>2, <2>3
<1>3. CASE StoreWorker \/ StoreFault
  <2>1. Alive(i)
    BY <1>0, <1>3, StoreWrites
  <2>2. \/ i = store.status.storeID
        \/ store.phase = "live" /\ store.status.storeID = NoId /\ Ours(i)
    <3>1. CASE fga[i].tuples # {}
      BY <1>1, <2>1, <3>1
    <3>2. CASE ApplyStoreTuples /\ i = run.status.storeID
      <4>1. run.pc = "apply"
        BY <1>0, <3>2, StepShape DEF ApplyStoreTuples
      <4>2. store.phase = "live"
        BY <4>1 DEF ForwardInv, ForwardPCs, ProcessPCs
      <4>3. run.status.storeID = store.status.storeID \/ store.status.storeID = NoId
        BY <1>0, <4>1 DEF ChainInv
      <4> QED
        BY <3>2, <4>1, <4>2, <4>3 DEF HomeInv, ProcessPCs
    <3> QED
      BY <1>0, <1>3, <3>1, <3>2, StoreWrites
  <2>3. CASE RemoveStoreObject
    <3>1. run.pc = "remove" /\ store.phase = "deleting"
      BY <1>0, <2>3 DEF RemoveStoreObject, ChainInv, FinalPCs
    <3> QED
      BY <2>1, <2>2, <3>1 DEF HomeInv
  <2>4. CASE /\ store'.phase = store.phase
             /\ store.status.storeID # NoId =>
                  store'.status.storeID = store.status.storeID
             /\ \/ store'.status.storeID = store.status.storeID
                \/ run.pc # "idle" /\ store'.status.storeID = run.status.storeID
    <3>1. CASE i = store.status.storeID
      BY <1>0, <2>4, <3>1
    <3>2. CASE store.phase = "live" /\ store.status.storeID = NoId /\ Ours(i)
      <4>1. ~ DeleteFgaStore
        BY <1>0, <3>2, StepShape DEF DeleteFgaStore, ChainInv, FinalPCs
      <4>2. Ours(i)'
        BY <1>0, <1>3, <2>1, <3>2, <4>1, StoresStay DEF Ours, Alive
      <4>3. store'.status.storeID # NoId => i = store'.status.storeID
        BY <2>4, <3>2 DEF OwnInv, OnlyOurs, Ours
      <4> QED
        BY <2>4, <3>2, <4>2, <4>3
    <3> QED
      BY <2>2, <3>1, <3>2
  <2> QED
    BY <1>0, <1>3, <2>3, <2>4, StoreEndures
<1>4. ASSUME NEW m \in Models, ModelWorker(m) \/ ModelFault(m) \/ DeliverModelEvent(m)
      PROVE  \/ i = store'.status.storeID
             \/ store'.phase = "live" /\ store'.status.storeID = NoId /\ Ours(i)'
  <2>1. Alive(i) /\ (Ours(i) => Ours(i)') /\ store' = store
    BY <1>0, <1>4, ModelWrites, OtherSteps DEF Alive, Ours
  <2>2. CASE fga[i].tuples # {}
    BY <1>1, <2>1, <2>2
  <2>3. CASE ApplyModelTuples(m) /\ i = mrun[m].storeID
    <3>1. mrun[m].pc = "apply"
      BY <1>0, <2>3, ModelMoves DEF ApplyModelTuples, ModelStep
    <3> QED
      BY <1>0, <2>1, <2>3, <3>1 DEF ReferredInv
  <2> QED
    BY <1>0, <1>4, <2>2, <2>3, ModelWrites
<1>5. CASE UNCHANGED vars
  BY <1>1, <1>5 DEF vars, Ours, Alive
<1> QED
  BY <1>2, <1>3, <1>4, <1>5 DEF Next

----------------------------------------------------------------------------
(* No tuple is forgotten.                                                  *)

\* A store of patient users that is not the one of the reconcile has no tuples.
LEMMA OnlyHome ==
  ASSUME KnownIds, OwnInv, HomeInv, patient, run.pc \in ProcessPCs,
         NEW i \in Ids, Alive(i), fga[i].tuples # {}
  PROVE  i = run.status.storeID
<1>1. ChainInv /\ i # NoId
  <2>1. i # NoId
    BY DEF Ids, NoId
  <2> QED
    BY <2>1 DEF KnownIds
<1>2. CASE i = store.status.storeID
  BY <1>1, <1>2 DEF ChainInv, ProcessPCs
<1>3. CASE Ours(i)
  BY <1>1, <1>3 DEF ChainInv, ProcessPCs, OwnInv, OnlyOurs, Ours
<1> QED
  BY <1>2, <1>3 DEF HomeInv

LEMMA StoreTrackStep ==
  ASSUME KnownIds, OwnInv, ForwardInv, FreshInv, HomeInv, TrackInv, [Next]_vars, patient,
         NEW i \in Ids, fga'[i].state = "live"
  PROVE  /\ Own(fga', i) \subseteq store'.tuples \cup store'.status.managed
         /\ store'.phase = "deleting" \/ run'.pc = "persist" =>
              Own(fga', i) \subseteq store'.tuples
<1>0. /\ TypeOK /\ ChainInv /\ OwnersInv
      /\ store.phase \in Phases /\ run.pc \in StorePCs
  BY DEF KnownIds, TypeOK, StoreObjects, StoreRuns
<1>1. Alive(i) => /\ Own(fga, i) \subseteq store.tuples \cup store.status.managed
                  /\ store.phase = "deleting" \/ run.pc = "persist" =>
                       Own(fga, i) \subseteq store.tuples
  BY DEF TrackInv
<1>2. CASE Environment
  <2>1. Alive(i) /\ Own(fga', i) = Own(fga, i)
    BY <1>0, <1>2, EditsWrite, OthersKeepTuples DEF Alive
  <2>2. run' = run
    BY <1>0, <1>2, Edits
  <2>3. CASE store' = store
    BY <1>1, <2>1, <2>2, <2>3
  <2>4. CASE store.phase = "absent" /\ store'.phase = "live"
    <3>1. run.pc = "idle" /\ store.status.storeID = NoId
      BY <1>0, <2>4 DEF ChainInv, NewStatus
    <3>2. fga[i].tuples = {}
      BY <2>1, <2>4, <3>1 DEF HomeInv, Ids, NoId
    <3> QED
      BY <2>1, <2>2, <2>4, <3>1, <3>2 DEF Own
  <2>5. CASE /\ StoreSettled /\ store.phase = "live" /\ store'.phase = "live"
             /\ store'.status = store.status
    BY <1>1, <2>1, <2>2, <2>5 DEF StoreSettled
  <2>6. CASE /\ StoreSettled /\ store.phase = "live" /\ store'.phase = "deleting"
             /\ store'.status = store.status /\ store'.tuples = store.tuples
    BY <1>1, <2>1, <2>2, <2>6 DEF StoreSettled
  <2> QED
    BY <1>0, <1>2, <2>3, <2>4, <2>5, <2>6, Edits
<1>3. CASE BeginStore
  <2>1. fga' = fga /\ store' = store /\ run'.pc # "persist"
    BY <1>0, <1>3, BeginShape
  <2> QED
    BY <1>1, <2>1 DEF Own, Alive
<1>4. CASE Plain
  <2>1. StoreWorker /\ store' = store /\ run'.pc # "persist"
    BY <1>0, <1>4, PlainSteps DEF Plain, StoreWorker
  <2>2. CASE ~ Alive(i)
    <3>1. Own(fga', i) = {}
      BY <1>0, <2>1, <2>2, StoreWrites DEF Own
    <3> QED
      BY <3>1
  <2>3. CASE Alive(i) /\ Own(fga', i) \subseteq Own(fga, i)
    BY <1>1, <2>1, <2>3
  <2>4. CASE /\ Alive(i) /\ ApplyStoreTuples
             /\ Own(fga', i) = Own(fga, i) \cup run.tuples
    <3>1. run.pc = "apply"
      BY <1>0, <2>4, StepShape DEF ApplyStoreTuples
    <3>2. run.tuples = store.tuples /\ store.phase = "live"
      BY <3>1 DEF ForwardInv, ForwardPCs, ProcessPCs
    <3> QED
      BY <1>1, <2>1, <2>4, <3>2
  <2> QED
    BY <1>0, <2>1, <2>2, <2>3, <2>4, TuplesGrow
<1>5. CASE PruneStoreTuples
  <2>1. store' = store /\ run.pc = "prune" /\ StoreWorker
    BY <1>0, <1>5, PruneShape DEF StoreWorker
  <2>2. run.tuples = store.tuples /\ run.status.managed = store.status.managed
    BY <2>1 DEF ForwardInv, ForwardPCs, ProcessPCs
  <2>3. Own(fga', i) \subseteq store.tuples
    <3>1. CASE Own(fga', i) # {}
      <4>1. Alive(i) /\ fga[i].tuples # {}
        BY <1>0, <2>1, <3>1, StoreWrites, PruneShape, StepShape DEF Own, ApplyStoreTuples
      <4>2. i = run.status.storeID
        BY <2>1, <4>1, OnlyHome DEF ProcessPCs
      <4>3. Own(fga', i) = Own(fga, i) \ (run.status.managed \ run.tuples)
        BY <1>0, <1>5, <4>2, OwnRemoved DEF PruneStoreTuples
      <4> QED
        BY <1>1, <2>2, <4>1, <4>3
    <3> QED
      BY <3>1
  <2> QED
    BY <2>1, <2>3
<1>6. CASE FinalizeStoreTuples
  <2>1. /\ store' = store /\ run.pc = "untuple" /\ run'.pc = "release" /\ StoreWorker
    BY <1>0, <1>6, FinalizeShape DEF StoreWorker
  <2>2. ~ ApplyStoreTuples /\ run.pc # "create"
    BY <1>0, <2>1, StepShape DEF ApplyStoreTuples
  <2>3. Alive(i) /\ Own(fga', i) \subseteq Own(fga, i)
    BY <1>0, <2>1, <2>2, TuplesGrow, NoStoreComesBack
  <2> QED
    BY <1>1, <2>1, <2>3
<1>7. CASE ReleaseTuplesFinalizer
  <2>1. /\ fga' = fga /\ run'.pc = "related" /\ store'.phase = store.phase
        /\ store'.tuples = store.tuples /\ store'.status = store.status
    BY <1>0, <1>7, ReleaseShape
  <2> QED
    BY <1>1, <2>1 DEF Own, Alive
<1>8. CASE RemoveStoreObject
  <2>1. fga' = fga /\ run.pc = "remove"
    BY <1>8 DEF RemoveStoreObject
  <2>2. fga[i].tuples = {}
    BY <1>0, <2>1 DEF HomeInv, Alive, ChainInv, FinalPCs
  <2> QED
    BY <2>1, <2>2 DEF Own
<1>9. CASE PersistStoreStatus \/ StoreRefused \/ StoreFault
  <2>1. /\ fga' = fga /\ run'.pc = "idle" /\ run.pc # "idle"
        /\ store'.phase = store.phase /\ store'.tuples = store.tuples
        /\ store' = store \/ store'.status = run.status
    BY <1>0, <1>9, EndShape DEF Idle
  <2>2. CASE store.phase = "deleting"
    BY <1>1, <2>1, <2>2 DEF Own, Alive
  <2>3. CASE store.phase = "live" /\ store' = store
    BY <1>1, <2>1, <2>3 DEF Own, Alive
  <2>4. CASE store.phase = "live" /\ store'.status = run.status
    <3>1. run.pc \in ForwardPCs
      BY <1>0, <2>1, <2>4 DEF ChainInv, FinalPCs, StorePCs, ForwardPCs, ProcessPCs
    <3>2. run.pc # "persist" => run.status.managed = store.status.managed
      BY <3>1 DEF ForwardInv
    <3> QED
      BY <1>1, <2>1, <2>4, <3>2 DEF Own, Alive
  <2> QED
    BY <1>0, <2>1, <2>2, <2>3, <2>4 DEF ChainInv, Phases
<1>10. ASSUME NEW m \in Models, ModelWorker(m) \/ ModelFault(m) \/ DeliverModelEvent(m)
       PROVE  /\ Own(fga', i) \subseteq store'.tuples \cup store'.status.managed
              /\ store'.phase = "deleting" \/ run'.pc = "persist" =>
                   Own(fga', i) \subseteq store'.tuples
  <2>1. Alive(i) /\ Own(fga', i) = Own(fga, i)
    BY <1>0, <1>10, ModelWrites, OthersKeepTuples DEF Alive
  <2>2. UNCHANGED <<store, run>>
    BY <1>10, OtherSteps
  <2> QED
    BY <1>1, <2>1, <2>2
<1>11. CASE UNCHANGED vars
  BY <1>1, <1>11 DEF vars, Own, Alive
<1> QED
  BY <1>2, <1>3, <1>4, <1>5, <1>6, <1>7, <1>8, <1>9, <1>10, <1>11, StoreSteps DEF Next

\* What an AuthorizationModel's own controller leaves of its tuples.
LEMMA ModelDeletes ==
  ASSUME KnownIds, CopyInv, ReferredInv, HomeInv, TrackInv, patient, NEW m \in Models,
         NEW i \in Ids, Alive(i), NEW gone \in SUBSET model[m].managed,
         mrun[m].pc \in {"prune", "untuple"},
         Writable(mrun[m].storeID, gone), fga' = Removed(mrun[m].storeID, gone)
  PROVE  Of(fga', m, i) \subseteq (model[m].tuples \cup model[m].managed) \ gone
<1>0. TypeOK /\ OwnersInv
  BY DEF KnownIds
<1>1. Of(fga, m, i) \subseteq model[m].tuples \cup model[m].managed
  BY DEF TrackInv
<1>2. fga'[i].tuples = IF i = mrun[m].storeID THEN fga[i].tuples \ gone ELSE fga[i].tuples
  BY <1>0, TuplesRemoved
<1>3. CASE gone = {}
  BY <1>1, <1>2, <1>3 DEF Of
<1>4. CASE i = mrun[m].storeID
  BY <1>1, <1>2, <1>4 DEF Of
<1>5. CASE gone # {} /\ i # mrun[m].storeID
  <2>1. Alive(mrun[m].storeID)
    BY <1>5 DEF Writable
  <2>2. mrun[m].storeID = store.status.storeID /\ store.status.storeID # NoId
    BY <2>1 DEF ReferredInv, Alive, Ids, NoId
  <2>3. fga[i].tuples = {}
    BY <1>5, <2>2 DEF HomeInv
  <2> QED
    BY <1>2, <1>5, <2>3 DEF Of
<1> QED
  BY <1>3, <1>4, <1>5

LEMMA ModelTrackStep ==
  ASSUME KnownIds, CopyInv, ReferredInv, HomeInv, TrackInv, [Next]_vars, patient,
         NEW i \in Ids, fga'[i].state = "live", NEW m \in Models
  PROVE  /\ Of(fga', m, i) \subseteq model'[m].tuples \cup model'[m].managed
         /\ mrun'[m].pc = "persist" => Of(fga', m, i) \subseteq model'[m].tuples
         /\ mrun'[m].pc = "remove" => Of(fga', m, i) = {}
<1>0. TypeOK /\ OwnersInv
  BY DEF KnownIds
<1>1. Alive(i) => /\ Of(fga, m, i) \subseteq model[m].tuples \cup model[m].managed
                  /\ mrun[m].pc = "persist" => Of(fga, m, i) \subseteq model[m].tuples
                  /\ mrun[m].pc = "remove" => Of(fga, m, i) = {}
  BY DEF TrackInv
<1>2. ASSUME model'[m] = model[m], mrun'[m] = mrun[m],
             Of(fga', m, i) \subseteq Of(fga, m, i), Alive(i) \/ Of(fga', m, i) = {}
      PROVE  /\ Of(fga', m, i) \subseteq model'[m].tuples \cup model'[m].managed
             /\ mrun'[m].pc = "persist" => Of(fga', m, i) \subseteq model'[m].tuples
             /\ mrun'[m].pc = "remove" => Of(fga', m, i) = {}
  BY <1>1, <1>2
<1>3. CASE Environment
  <2>1. Alive(i) /\ Of(fga', m, i) = Of(fga, m, i) /\ mrun' = mrun
    BY <1>0, <1>3, EditsWrite, ModelEdits DEF Alive, Of
  <2>2. CASE model'[m] = model[m]
    BY <1>2, <2>1, <2>2
  <2>3. CASE model[m].phase = "absent"
    <3>1. Of(fga, m, i) = {}
      BY <1>1, <2>1, <2>3 DEF CopyInv, NoModel
    <3> QED
      BY <2>1, <3>1
  <2>4. CASE ModelSettled(m) /\ model'[m].managed = model[m].managed
    <3>1. mrun[m].pc = "idle" /\ Of(fga, m, i) \subseteq model[m].managed
      BY <1>1, <2>1, <2>4 DEF ModelSettled
    <3> QED
      BY <2>1, <2>4, <3>1
  <2> QED
    BY <1>0, <1>3, <2>2, <2>3, <2>4, ModelEdits
<1>4. CASE StoreWorker \/ StoreFault
  <2>1. model' = model /\ mrun' = mrun
    BY <1>4, StoreKeepsModels
  <2>2. run.tuples \cap ModelTuples[m] = {}
    BY <1>0, TuplesAreDisjoint DEF TypeOK, StoreRuns
  <2>3. /\ Of(fga', m, i) \subseteq Of(fga, m, i)
        /\ Alive(i) \/ Of(fga', m, i) = {}
    BY <1>0, <1>4, <2>2, StoreWrites DEF Of
  <2> QED
    BY <1>2, <2>1, <2>3
<1>5. ASSUME NEW n \in Models, ModelWorker(n) \/ ModelFault(n) \/ DeliverModelEvent(n)
      PROVE  /\ Of(fga', m, i) \subseteq model'[m].tuples \cup model'[m].managed
             /\ mrun'[m].pc = "persist" => Of(fga', m, i) \subseteq model'[m].tuples
             /\ mrun'[m].pc = "remove" => Of(fga', m, i) = {}
  <2>0. Alive(i)
    BY <1>0, <1>5, ModelWrites DEF Alive
  <2>1. CASE n # m
    <3>1. model'[m] = model[m] /\ mrun'[m] = mrun[m]
      BY <1>0, <1>5, <2>1, OtherModels
    <3>2. mrun[n].tuples \cap ModelTuples[m] = {}
      BY <1>0, <2>1, TuplesAreDisjoint DEF OwnersInv
    <3>3. Of(fga', m, i) \subseteq Of(fga, m, i)
      BY <1>0, <1>5, <3>2, ModelWrites DEF Of
    <3> QED
      BY <1>2, <2>0, <3>1, <3>3
  <2>2. CASE BeginModel(m)
    <3>1. model'[m] = model[m] /\ Of(fga', m, i) = Of(fga, m, i)
      BY <1>0, <2>2, ModelBegins DEF Of
    <3> QED
      BY <1>0, <1>1, <2>0, <2>2, <3>1, ModelBegins
  <2>3. CASE GetStoreOfModel(m)
    <3>1. /\ model'[m] = model[m] /\ fga' = fga
          /\ mrun'[m].pc \in {"apply", "untuple"}
      BY <1>0, <2>3, ModelMoves DEF ApplyModelTuples, PruneModelTuples, FinalizeModelTuples,
                                    ModelStep, GetStoreOfModel
    <3> QED
      BY <1>1, <2>0, <3>1 DEF Of
  <2>4. CASE ApplyModelTuples(m)
    <3>1. mrun[m].pc = "apply" /\ model'[m] = model[m] /\ mrun'[m].pc = "prune"
      BY <1>0, <2>4, ModelMoves DEF ApplyModelTuples, ModelStep
    <3>2. mrun[m].tuples = model[m].tuples
      BY <3>1 DEF CopyInv
    <3>3. ModelWorker(m)
      BY <2>4 DEF ModelWorker
    <3>4. Of(fga', m, i) \subseteq Of(fga, m, i) \cup mrun[m].tuples
      BY <1>0, <3>3, ModelWrites DEF Of
    <3> QED
      BY <1>1, <2>0, <3>1, <3>2, <3>4
  <2>5. CASE PruneModelTuples(m)
    <3> DEFINE stale == mrun[m].managed \ mrun[m].tuples
    <3>1. mrun[m].pc = "prune" /\ model'[m] = model[m] /\ mrun'[m].pc = "persist"
      BY <1>0, <2>5, ModelMoves DEF PruneModelTuples, ModelStep
    <3>2. mrun[m].tuples = model[m].tuples /\ mrun[m].managed = model[m].managed
      BY <3>1 DEF CopyInv
    <3>3. Writable(mrun[m].storeID, stale) /\ fga' = Removed(mrun[m].storeID, stale)
      BY <2>5 DEF PruneModelTuples
    <3>4. stale \in SUBSET model[m].managed
      BY <3>2
    <3>5. Of(fga', m, i) \subseteq (model[m].tuples \cup model[m].managed) \ stale
      <4> HIDE DEF stale
      <4> QED
        BY <2>0, <3>1, <3>3, <3>4, ModelDeletes
    <3> QED
      BY <3>1, <3>2, <3>5
  <2>6. CASE FinalizeModelTuples(m)
    <3>1. mrun[m].pc = "untuple" /\ model'[m] = model[m] /\ mrun'[m].pc = "remove"
      BY <1>0, <2>6, ModelMoves DEF FinalizeModelTuples, ModelStep
    <3>2. mrun[m].managed = model[m].managed /\ model[m].managed = model[m].tuples
      BY <3>1 DEF CopyInv
    <3>3. /\ Writable(mrun[m].storeID, mrun[m].managed)
          /\ fga' = Removed(mrun[m].storeID, mrun[m].managed)
      BY <2>6 DEF FinalizeModelTuples
    <3>4. Of(fga', m, i) \subseteq (model[m].tuples \cup model[m].managed) \ mrun[m].managed
      BY <2>0, <3>1, <3>2, <3>3, ModelDeletes
    <3> QED
      BY <3>1, <3>2, <3>4
  <2>7. CASE PersistModelStatus(m) \/ RemoveModelObject(m) \/ ModelRefused(m) \/ ModelFault(m)
    <3>1. fga' = fga /\ mrun'[m].pc = "idle"
      BY <1>0, <2>7, ModelEnds
    <3>2. CASE model'[m] = model[m]
      BY <1>1, <2>0, <3>1, <3>2 DEF Of
    <3>3. CASE mrun[m].pc = "persist" /\ model'[m].tuples = model[m].tuples
      BY <1>1, <2>0, <3>1, <3>3 DEF Of
    <3>4. CASE mrun[m].pc = "remove"
      BY <1>1, <2>0, <3>1, <3>4 DEF Of
    <3> QED
      BY <1>0, <2>7, <3>2, <3>3, <3>4, ModelEnds
  <2>8. CASE DeliverModelEvent(m)
    BY <1>2, <2>0, <2>8 DEF DeliverModelEvent, modelVars, Of
  <2> QED
    BY <1>5, <2>1, <2>2, <2>3, <2>4, <2>5, <2>6, <2>7, <2>8, ModelSteps
<1>6. CASE UNCHANGED vars
  BY <1>1, <1>6 DEF vars, Of, Alive
<1> QED
  BY <1>3, <1>4, <1>5, <1>6 DEF Next

LEMMA TrackStep ==
  /\ KnownIds /\ OwnInv /\ ForwardInv /\ FreshInv /\ CopyInv /\ ReferredInv /\ HomeInv
  /\ TrackInv /\ [Next]_vars
  => TrackInv'
<1> SUFFICES ASSUME KnownIds, OwnInv, ForwardInv, FreshInv, CopyInv, ReferredInv, HomeInv,
                    TrackInv, [Next]_vars, patient
             PROVE  TrackInv'
  BY PatienceStays DEF TrackInv
<1>1. \A i \in Ids : fga'[i].state = "live" =>
        /\ Own(fga', i) \subseteq store'.tuples \cup store'.status.managed
        /\ store'.phase = "deleting" \/ run'.pc = "persist" =>
             Own(fga', i) \subseteq store'.tuples
  BY StoreTrackStep
<1>2. \A i \in Ids : fga'[i].state = "live" => \A m \in Models :
        /\ Of(fga', m, i) \subseteq model'[m].tuples \cup model'[m].managed
        /\ mrun'[m].pc = "persist" => Of(fga', m, i) \subseteq model'[m].tuples
        /\ mrun'[m].pc = "remove" => Of(fga', m, i) = {}
  BY ModelTrackStep
<1> QED
  BY <1>1, <1>2 DEF TrackInv, Alive

----------------------------------------------------------------------------
LEMMA InitialTracks == Init => CopyInv /\ ReferredInv /\ HomeInv /\ TrackInv
<1> SUFFICES ASSUME Init PROVE CopyInv /\ ReferredInv /\ HomeInv /\ TrackInv
  OBVIOUS
<1>1. /\ store = NoStore /\ run = Idle /\ \A i \in Ids : fga[i].tuples = {}
      /\ \A m \in Models : model[m] = NoModel /\ mrun[m] = IdleM
  BY DEF Init
<1>2. CopyInv /\ ReferredInv
  BY <1>1 DEF CopyInv, ReferredInv, NoStore, NoModel, Idle, IdleM
<1>3. HomeInv /\ TrackInv
  BY <1>1 DEF HomeInv, TrackInv, NoStore, Idle, IdleM, ProcessPCs, Own, Of
<1> QED
  BY <1>2, <1>3

\* The copies and the ids given out are right however many stores a page holds.
LEMMA CopiesStay == Spec => [](KnownIds /\ CopyInv /\ ReferredInv)
<1>1. KnownIds <=> TypeOK /\ ChainInv /\ NamesInv /\ OwnersInv
  BY DEF KnownIds
<1>2. Spec => []KnownIds
  BY <1>1, InitialInv, TypeCorrect, ChainStep, NamesStep, OwnersStep, PTL DEF Spec
<1> QED
  BY <1>1, <1>2, InitialTracks, CopyStep, ReferredStep, PTL DEF Spec

LEMMA Tracks ==
  ASSUME MaxStoreId <= PageSize
  PROVE  Spec => [](KnownIds /\ HomeInv /\ TrackInv)
<1>1. Spec => [](KnownIds /\ OwnInv /\ ForwardInv /\ FreshInv)
  BY Invariants, PTL
<1>2. Spec => []HomeInv
  BY <1>1, CopiesStay, InitialTracks, HomeStep, PTL DEF Spec
<1> QED
  BY <1>1, <1>2, CopiesStay, InitialTracks, TrackStep, PTL DEF Spec

\* What is in OpenFGA is in a spec or a status.
LEMMA TracksAccount == KnownIds /\ TrackInv => NoUntrackedTuple
<1> SUFFICES ASSUME KnownIds, TrackInv, patient, NEW i \in Ids, Alive(i),
                    NEW t \in fga[i].tuples
             PROVE  t \in AccountedFor
  BY DEF NoUntrackedTuple
<1>1. t \in AllTuples
  BY DEF KnownIds, TypeOK, FgaStores
<1>2. CASE t \in StoreTuples
  <2>1. t \in store.tuples \cup store.status.managed
    BY <1>2 DEF TrackInv, Own
  <2> QED
    BY <2>1 DEF AccountedFor
<1>3. ASSUME NEW m \in Models, t \in ModelTuples[m] PROVE t \in AccountedFor
  <2>1. t \in model[m].tuples \cup model[m].managed
    BY <1>3 DEF TrackInv, Of
  <2> QED
    BY <2>1 DEF AccountedFor
<1> QED
  BY <1>1, <1>2, <1>3 DEF AllTuples

\* Patient users never lose a tuple: whatever is in a live store of OpenFGA is still
\* in the spec or the managedTuples of the Store or of an AuthorizationModel, through
\* every crash and retry of the two controllers, so that some reconcile or finalizer
\* can take it out.
THEOREM NoUntrackedTupleCorrect ==
  ASSUME MaxStoreId <= PageSize
  PROVE  Spec => []NoUntrackedTuple
  BY Tracks, TracksAccount, PTL

\* OpenFGA loses a store only when no AuthorizationModel is left: the finalizer asks
\* the cache, and for patient users the cache has shown every one that still exists.
THEOREM DeletionDeniedCorrect == Spec => DeletionDeniedWhileReferenced
<1> DEFINE Denied == patient => \A i \in Ids : Alive(i) /\ ~ Alive(i)' =>
                       \A m \in Models : model[m].phase = "absent"
<1>1. KnownIds /\ ReferredInv /\ [Next]_vars => [Denied]_vars
  <2> SUFFICES ASSUME KnownIds, ReferredInv, [Next]_vars, patient,
                      NEW i \in Ids, Alive(i), ~ Alive(i)', NEW m \in Models
               PROVE  model[m].phase = "absent"
    OBVIOUS
  <2>0. TypeOK /\ fga'[i].state # "live"
    BY DEF KnownIds, Alive
  <2>1. CASE Environment
    BY <2>0, <2>1, EditsWrite DEF Alive
  <2>2. CASE StoreWorker \/ StoreFault
    <3>1. DeleteFgaStore
      BY <2>0, <2>2, StoresStay
    <3>2. run.pc = "drop"
      BY <2>0, <3>1, StepShape DEF DeleteFgaStore
    <3> QED
      BY <3>2 DEF ReferredInv
  <2>3. ASSUME NEW n \in Models, ModelWorker(n) \/ ModelFault(n) \/ DeliverModelEvent(n)
        PROVE  FALSE
    BY <2>0, <2>3, ModelWrites DEF Alive
  <2>4. CASE UNCHANGED vars
    BY <2>0, <2>4 DEF vars, Alive
  <2> QED
    BY <2>1, <2>2, <2>3, <2>4 DEF Next
<1> HIDE DEF Denied
<1>2. Spec => [][Denied]_vars
  BY <1>1, CopiesStay, PTL DEF Spec
<1> QED
  BY <1>2 DEF DeletionDeniedWhileReferenced, Denied
=============================================================================
