----------------------- MODULE StoreReconciler_proofs -----------------------
(* Proofs about StoreReconciler, for every value of its constants. *)
EXTENDS StoreReconciler, FiniteSetTheorems, TLAPS

\* The constants of the initial state have the types of the variables.
LEMMA InitialValues ==
  /\ NewStatus \in Status
  /\ NoStore \in StoreObjects
  /\ NoModel \in ModelObjects
  /\ Idle \in StoreRuns
  /\ IdleM \in ModelRuns
<1>1. NewStatus \in Status
  BY DEF NewStatus, Status, NoId, NoContent
<1>2. NoStore \in StoreObjects
  BY <1>1 DEF NoStore, StoreObjects, Phases
<1>3. NoModel \in ModelObjects
  BY DEF NoModel, ModelObjects, Phases
<1>4. Idle \in StoreRuns
  BY <1>1 DEF Idle, StoreRuns, StorePCs
<1>5. IdleM \in ModelRuns
  BY DEF IdleM, ModelRuns, ModelPCs
<1>6. QED
  BY <1>1, <1>2, <1>3, <1>4, <1>5

LEMMA InitTypeOK == Init => TypeOK
<1> SUFFICES ASSUME Init PROVE TypeOK
  OBVIOUS
<1>1. fga \in [Ids -> FgaStores]
  BY DEF Init, FgaStores
<1>2. /\ store \in StoreObjects /\ model \in [Models -> ModelObjects]
      /\ run \in StoreRuns /\ mrun \in [Models -> ModelRuns]
  BY InitialValues DEF Init
<1>3. seen \in Modules /\ mqueued \in SUBSET Models
  BY DEF Init, Modules
<1>4. /\ patient \in BOOLEAN
      /\ edits \in 0 .. MaxEdits[patient] /\ faults \in 0 .. MaxFaults[patient]
  <2>1. patient \in BOOLEAN /\ edits = 0 /\ faults = 0
    BY ConstantsAssumption DEF Init
  <2>2. MaxEdits[patient] \in Nat /\ MaxFaults[patient] \in Nat
    BY <2>1, ConstantsAssumption
  <2>3. QED
    BY <2>1, <2>2
<1>5. queued \in BOOLEAN
  BY DEF Init
<1>6. QED
  BY <1>1, <1>2, <1>3, <1>4, <1>5 DEF TypeOK

\* The steps of the environment: they count as an edit and touch one object.
LEMMA EditTypeOK ==
  ASSUME TypeOK, MayEdit
  PROVE  /\ patient' \in BOOLEAN
         /\ edits' \in 0 .. MaxEdits[patient'] /\ faults' \in 0 .. MaxFaults[patient']
<1>1. MaxEdits[patient] \in Nat /\ patient' = patient
  BY ConstantsAssumption DEF TypeOK, MayEdit
<1>2. QED
  BY <1>1 DEF TypeOK, MayEdit

LEMMA EnvironmentTypeOK == ASSUME TypeOK, Environment PROVE TypeOK'
<1>1. ASSUME NEW core \in Versions, NEW tuples \in SUBSET StoreTuples,
             CreateStoreObject(core, tuples) \/ EditStoreObject(core, tuples)
      PROVE  TypeOK'
  <2>1. store' \in StoreObjects
    BY <1>1, InitialValues
    DEF TypeOK, CreateStoreObject, EditStoreObject, StoreObjects, Phases
  <2>2. /\ queued' = TRUE /\ MayEdit
        /\ UNCHANGED <<model, seen, fga, run, mqueued, mrun>>
    BY <1>1 DEF CreateStoreObject, EditStoreObject, modelVars
  <2>3. QED
    BY <2>1, <2>2, EditTypeOK DEF TypeOK
<1>2. CASE DeleteStoreObject
  <2>1. store' \in StoreObjects
    BY <1>2 DEF TypeOK, DeleteStoreObject, StoreObjects, Phases
  <2>2. /\ queued' = TRUE /\ MayEdit
        /\ UNCHANGED <<model, seen, fga, run, mqueued, mrun>>
    BY <1>2 DEF DeleteStoreObject, modelVars
  <2>3. QED
    BY <2>1, <2>2, EditTypeOK DEF TypeOK
<1>3. ASSUME NEW m \in Models, NEW content \in Versions,
             NEW tuples \in SUBSET ModelTuples[m],
             CreateModelObject(m, content, tuples) \/ EditModelObject(m, content, tuples)
      PROVE  TypeOK'
  <2>1. tuples \in SUBSET AllTuples
    BY DEF AllTuples
  <2>2. model' \in [Models -> ModelObjects]
    BY <1>3, <2>1 DEF TypeOK, CreateModelObject, EditModelObject, ModelObjects, Phases
  <2>3. /\ mqueued' = mqueued \cup {m} /\ MayEdit
        /\ UNCHANGED <<store, queued, run, seen, fga, mrun>>
    BY <1>3 DEF CreateModelObject, EditModelObject, storeVars
  <2>4. QED
    BY <2>2, <2>3, EditTypeOK DEF TypeOK
<1>4. ASSUME NEW m \in Models, DeleteModelObject(m) PROVE TypeOK'
  <2>1. model' \in [Models -> ModelObjects]
    BY <1>4 DEF TypeOK, DeleteModelObject, ModelObjects, Phases
  <2>2. /\ mqueued' = mqueued \cup {m} /\ MayEdit
        /\ UNCHANGED <<store, queued, run, seen, fga, mrun>>
    BY <1>4 DEF DeleteModelObject, storeVars
  <2>3. QED
    BY <2>1, <2>2, EditTypeOK DEF TypeOK
<1>5. ASSUME NEW i \in Ids, RenameByHand(i) PROVE TypeOK'
  <2>0. [fga[i] EXCEPT !.ours = FALSE] \in FgaStores
    BY DEF TypeOK, FgaStores
  <2>1. fga' \in [Ids -> FgaStores]
    BY <1>5, <2>0 DEF RenameByHand, TypeOK
  <2>2. UNCHANGED <<seen, storeVars, modelVars, patient, edits, faults>>
    BY <1>5 DEF RenameByHand
  <2>3. QED
    BY <2>1, <2>2 DEF TypeOK, storeVars, modelVars
<1>6. QED
  BY <1>1, <1>2, <1>3, <1>4, <1>5 DEF Environment

\* The steps of the Store's controller: only the program counter, the status in
\* memory and OpenFGA change.
LEMMA StoreStepTypeOK ==
  ASSUME TypeOK, NEW from, NEW to \in StorePCs, StoreStep(from, to),
         fga' \in [Ids -> FgaStores]
  PROVE  TypeOK'
<1>1. run' \in StoreRuns
  BY DEF TypeOK, StoreStep, StoreRuns
<1>2. QED
  BY <1>1 DEF TypeOK, StoreStep, modelVars

LEMMA StoreStepWithTypeOK ==
  ASSUME TypeOK, NEW from, NEW to \in StorePCs, NEW status \in Status,
         StoreStepWith(from, to, status), fga' \in [Ids -> FgaStores]
  PROVE  TypeOK'
<1>1. run' \in StoreRuns
  BY DEF TypeOK, StoreStepWith, StoreRuns
<1>2. QED
  BY <1>1 DEF TypeOK, StoreStepWith, modelVars

\* What one call to OpenFGA leaves there.
LEMMA AppliedType ==
  ASSUME TypeOK, NEW id, NEW tuples \in SUBSET AllTuples, Writable(id, tuples)
  PROVE  /\ Applied(id, tuples) \in [Ids -> FgaStores]
         /\ Removed(id, tuples) \in [Ids -> FgaStores]
  BY DEF TypeOK, FgaStores, Writable, Alive, Applied, Removed

LEMMA StoreWorkerTypeOK == ASSUME TypeOK, StoreWorker \/ StoreFault PROVE TypeOK'
<1>0. /\ run \in StoreRuns /\ run.status \in Status /\ fga \in [Ids -> FgaStores]
      /\ store.status \in Status /\ StoreTuples \subseteq AllTuples
  BY DEF TypeOK, StoreRuns, StoreObjects, AllTuples
<1>1. CASE BeginStore
  <2>1. run' \in StoreRuns
    BY <1>0, <1>1 DEF BeginStore, TypeOK, StoreObjects, StoreRuns, StorePCs, NoContent
  <2>2. queued' = FALSE /\ UNCHANGED <<store, seen, fga, modelVars, patient, edits, faults>>
    BY <1>1 DEF BeginStore
  <2>3. QED
    BY <2>1, <2>2 DEF TypeOK, modelVars
<1>2. CASE FindStoreByName
  <2>1. ASSUME NEW i \in FirstPage,
               StoreStepWith("find", "list", [run.status EXCEPT !.storeID = i])
        PROVE  TypeOK'
    <3>1. [run.status EXCEPT !.storeID = i] \in Status
      BY <1>0 DEF Status, FirstPage
    <3>2. QED
      BY <1>0, <1>2, <2>1, <3>1, StoreStepWithTypeOK DEF FindStoreByName, StorePCs
  <2>2. CASE StoreStep("find", "create")
    BY <1>0, <1>2, <2>2, StoreStepTypeOK DEF FindStoreByName, StorePCs
  <2>3. QED
    BY <1>2, <2>1, <2>2 DEF FindStoreByName
<1>3. CASE CreateFgaStore
  <2>1. PICK i \in Ids :
           /\ fga' = [fga EXCEPT ![i] = [state |-> "live", ours |-> TRUE,
                                         tuples |-> {}, models |-> {}]]
           /\ StoreStepWith("create", "list", [run.status EXCEPT !.storeID = i])
    BY <1>3 DEF CreateFgaStore
  <2>2. fga' \in [Ids -> FgaStores] /\ [run.status EXCEPT !.storeID = i] \in Status
    BY <1>0, <2>1 DEF FgaStores, Status
  <2>3. QED
    BY <2>1, <2>2, StoreStepWithTypeOK DEF StorePCs
<1>4. CASE CheckStoreName
  BY <1>0, <1>4, StoreStepTypeOK DEF CheckStoreName, StorePCs
<1>5. CASE UpdateStoreName
  <2>1. fga' \in [Ids -> FgaStores]
    BY <1>0, <1>5 DEF UpdateStoreName, Alive, FgaStores
  <2>2. QED
    BY <1>5, <2>1, StoreStepTypeOK DEF UpdateStoreName, StorePCs
<1>6. CASE ListRelatedModels
  <2>1. run' \in StoreRuns
    BY <1>0, <1>6 DEF ListRelatedModels, TypeOK, StoreRuns, StorePCs, Contents
  <2>2. QED
    BY <1>6, <2>1 DEF ListRelatedModels, TypeOK, modelVars
<1>7. CASE WriteModelIfChanged
  <2>1. CASE run.status.modelID = run.desired
    BY <1>0, <1>7, <2>1, StoreStepTypeOK DEF WriteModelIfChanged, StorePCs
  <2>2. CASE run.status.modelID # run.desired
    <3>1. fga' \in [Ids -> FgaStores]
      BY <1>0, <1>7, <2>2 DEF WriteModelIfChanged, Alive, FgaStores, StoreRuns
    <3>2. [run.status EXCEPT !.modelID = run.desired] \in Status
      BY <1>0, <2>2 DEF Status, StoreRuns
    <3>3. QED
      BY <1>7, <2>2, <3>1, <3>2, StoreStepWithTypeOK DEF WriteModelIfChanged, StorePCs
  <2>3. QED
    BY <2>1, <2>2
<1>8. CASE ApplyStoreTuples
  <2>1. fga' \in [Ids -> FgaStores]
    BY <1>0, <1>8, AppliedType DEF ApplyStoreTuples, StoreRuns
  <2>2. QED
    BY <1>8, <2>1, StoreStepTypeOK DEF ApplyStoreTuples, StorePCs
<1>9. CASE PruneStoreTuples
  <2>1. fga' \in [Ids -> FgaStores]
    BY <1>0, <1>9, AppliedType DEF PruneStoreTuples, Status
  <2>2. [run.status EXCEPT !.managed = run.tuples] \in Status
    BY <1>0 DEF Status, StoreRuns
  <2>3. QED
    BY <1>9, <2>1, <2>2, StoreStepWithTypeOK DEF PruneStoreTuples, StorePCs
<1>10. CASE PersistStoreStatus
  <2>1. store' \in StoreObjects /\ run' \in StoreRuns
    BY <1>0, <1>10, InitialValues DEF PersistStoreStatus, TypeOK, StoreObjects
  <2>2. QED
    BY <1>10, <2>1 DEF PersistStoreStatus, TypeOK, modelVars
<1>11. CASE FinalizeStoreTuples
  <2>1. fga' \in [Ids -> FgaStores]
    BY <1>0, <1>11, AppliedType DEF FinalizeStoreTuples, Status
  <2>2. [run.status EXCEPT !.managed = {}] \in Status
    BY <1>0 DEF Status
  <2>3. QED
    BY <1>11, <2>1, <2>2, StoreStepWithTypeOK DEF FinalizeStoreTuples, StorePCs
<1>12. CASE ReleaseTuplesFinalizer
  <2>1. store' \in StoreObjects
    BY <1>12 DEF ReleaseTuplesFinalizer, TypeOK, StoreObjects
  <2>2. run' \in StoreRuns
    BY <1>0, <1>12 DEF ReleaseTuplesFinalizer, StoreRuns, StorePCs
  <2>3. QED
    BY <1>12, <2>1, <2>2 DEF ReleaseTuplesFinalizer, TypeOK, modelVars
<1>13. CASE CheckRelatedModels
  BY <1>0, <1>13, StoreStepTypeOK DEF CheckRelatedModels, StorePCs
<1>14. CASE DeleteFgaStore
  <2>1. fga' \in [Ids -> FgaStores]
    BY <1>0, <1>14 DEF DeleteFgaStore, Alive, FgaStores
  <2>2. QED
    BY <1>14, <2>1, StoreStepTypeOK DEF DeleteFgaStore, StorePCs
<1>15. CASE RemoveStoreObject
  BY <1>15, InitialValues DEF RemoveStoreObject, TypeOK, modelVars
<1>16. CASE StoreRefused \/ StoreFault
  <2>1. EndStoreRun /\ faults' \in 0 .. MaxFaults[patient]
    BY <1>16, ConstantsAssumption DEF StoreRefused, StoreFault, TypeOK
  <2>2. store' \in StoreObjects
    BY <1>0, <2>1 DEF EndStoreRun, TypeOK, StoreObjects
  <2>3. QED
    BY <2>1, <2>2, InitialValues DEF EndStoreRun, TypeOK, modelVars
<1>17. QED
  BY <1>1, <1>2, <1>3, <1>4, <1>5, <1>6, <1>7, <1>8, <1>9, <1>10, <1>11, <1>12, <1>13,
     <1>14, <1>15, <1>16 DEF StoreWorker

\* The steps of the AuthorizationModels' controller.
LEMMA ModelStepTypeOK ==
  ASSUME TypeOK, NEW m \in Models, NEW from, NEW to \in ModelPCs,
         ModelStep(m, from, to), fga' \in [Ids -> FgaStores]
  PROVE  TypeOK'
<1>1. mrun' \in [Models -> ModelRuns]
  BY DEF TypeOK, ModelStep, ModelRuns
<1>2. QED
  BY <1>1 DEF TypeOK, ModelStep

LEMMA ModelWorkerTypeOK ==
  ASSUME TypeOK, NEW m \in Models,
         ModelWorker(m) \/ ModelFault(m) \/ DeliverModelEvent(m)
  PROVE  TypeOK'
<1>0. /\ mrun[m] \in ModelRuns /\ model[m] \in ModelObjects
      /\ fga \in [Ids -> FgaStores]
  BY DEF TypeOK
<1>1. CASE BeginModel(m)
  <2>1. mrun' \in [Models -> ModelRuns]
    BY <1>0, <1>1 DEF BeginModel, TypeOK, ModelObjects, ModelRuns, ModelPCs
  <2>2. QED
    BY <1>1, <2>1 DEF BeginModel, TypeOK, storeVars
<1>2. CASE GetStoreOfModel(m)
  <2>1. store.status.storeID \in Ids \cup {NoId}
    BY DEF TypeOK, StoreObjects, Status
  <2>2. mrun' \in [Models -> ModelRuns]
    BY <1>0, <1>2, <2>1 DEF GetStoreOfModel, TypeOK, ModelRuns, ModelPCs
  <2>3. QED
    BY <1>2, <2>2 DEF GetStoreOfModel, TypeOK, storeVars
<1>3. CASE ApplyModelTuples(m)
  <2>1. fga' \in [Ids -> FgaStores]
    BY <1>0, <1>3, AppliedType DEF ApplyModelTuples, ModelRuns
  <2>2. QED
    BY <1>3, <2>1, ModelStepTypeOK DEF ApplyModelTuples, ModelPCs
<1>4. CASE PruneModelTuples(m)
  <2>1. fga' \in [Ids -> FgaStores]
    BY <1>0, <1>4, AppliedType DEF PruneModelTuples, ModelRuns
  <2>2. QED
    BY <1>4, <2>1, ModelStepTypeOK DEF PruneModelTuples, ModelPCs
<1>5. CASE PersistModelStatus(m)
  <2>1. model' \in [Models -> ModelObjects]
    BY <1>0, <1>5 DEF PersistModelStatus, TypeOK, ModelObjects, ModelRuns
  <2>2. mrun' \in [Models -> ModelRuns]
    BY <1>5, InitialValues DEF PersistModelStatus, TypeOK
  <2>3. QED
    BY <1>5, <2>1, <2>2 DEF PersistModelStatus, TypeOK, storeVars
<1>6. CASE FinalizeModelTuples(m)
  <2>1. fga' \in [Ids -> FgaStores]
    BY <1>0, <1>6, AppliedType DEF FinalizeModelTuples, ModelRuns
  <2>2. QED
    BY <1>6, <2>1, ModelStepTypeOK DEF FinalizeModelTuples, ModelPCs
<1>7. CASE RemoveModelObject(m)
  BY <1>7, InitialValues DEF RemoveModelObject, TypeOK, storeVars
<1>8. CASE ModelRefused(m) \/ ModelFault(m)
  <2>1. EndModelRun(m) /\ faults' \in 0 .. MaxFaults[patient]
    BY <1>8, ConstantsAssumption DEF ModelRefused, ModelFault, TypeOK
  <2>2. QED
    BY <2>1, InitialValues DEF EndModelRun, TypeOK, storeVars
<1>9. CASE DeliverModelEvent(m)
  <2>1. seen' \in Modules
    BY <1>0, <1>9 DEF DeliverModelEvent, TypeOK, ModelObjects, Modules
  <2>2. QED
    BY <1>9, <2>1 DEF DeliverModelEvent, TypeOK, modelVars
<1>10. QED
  BY <1>1, <1>2, <1>3, <1>4, <1>5, <1>6, <1>7, <1>8, <1>9 DEF ModelWorker

\* Every variable keeps its type: statuses name ids OpenFGA can hand out, and
\* the program counters stay on the chain of subroutines.
THEOREM TypeCorrect == Spec => []TypeOK
<1>1. Init => TypeOK
  BY InitTypeOK
<1>2. TypeOK /\ [Next]_vars => TypeOK'
  <2> SUFFICES ASSUME TypeOK, [Next]_vars PROVE TypeOK'
    OBVIOUS
  <2>1. CASE Next
    BY <2>1, EnvironmentTypeOK, StoreWorkerTypeOK, ModelWorkerTypeOK DEF Next
  <2>2. CASE UNCHANGED vars
    BY <2>2 DEF vars, TypeOK
  <2>3. QED
    BY <2>1, <2>2
<1>3. QED
  BY <1>1, <1>2, PTL DEF Spec

----------------------------------------------------------------------------
(* The inductive invariant behind the two invariants on ids.               *)

FinalPCs   == {"untuple", "release", "related", "drop", "remove"}
ProcessPCs == {"check", "rename", "list", "write", "apply", "prune", "persist"}

\* How the run under way relates to the object it was read from: finalizers run
\* on objects under deletion only, and the ids in memory extend those stored.
ChainInv ==
  /\ store.phase = "absent" => store.status = NewStatus /\ run.pc = "idle"
  /\ run.pc \in FinalPCs => store.phase = "deleting"
  /\ run.pc \in {"find", "create"} => run.status.storeID = NoId
  /\ run.pc \in ProcessPCs => run.status.storeID # NoId
  /\ run.pc # "idle" /\ store.status.storeID # NoId =>
        run.status.storeID = store.status.storeID
  /\ store.status.storeID = NoId => store.status.modelID = NoContent
  /\ run.status.storeID = NoId => run.status.modelID = NoContent

\* The ids of a status name what OpenFGA has.
Exists(status) ==
  status.storeID # NoId =>
     /\ Alive(status.storeID)
     /\ status.modelID # NoContent => status.modelID \in fga[status.storeID].models

NamesInv ==
  /\ store.phase = "live" => Exists(store.status)
  /\ run.pc \in ProcessPCs => Exists(run.status)

\* No store of this name but the one the status names.
OnlyOurs(id) == \A j \in Ids : Alive(j) /\ fga[j].ours => j = id

OwnInv ==
  /\ NoDuplicateStore
  /\ store.status.storeID # NoId => OnlyOurs(store.status.storeID)
  /\ run.pc # "idle" /\ run.status.storeID # NoId => OnlyOurs(run.status.storeID)
  /\ run.pc = "create" => \A j \in Ids : ~ (Alive(j) /\ fga[j].ours)

LEMMA ChainInit == Init => ChainInv
  BY DEF Init, ChainInv, NoStore, NewStatus, Idle, FinalPCs, ProcessPCs

\* Steps that leave the Store object and its reconcile alone.
LEMMA OtherSteps ==
  ASSUME NEW m \in Models, ModelWorker(m) \/ ModelFault(m) \/ DeliverModelEvent(m)
  PROVE  UNCHANGED <<store, run>>
  BY DEF ModelWorker, ModelFault, DeliverModelEvent, BeginModel, GetStoreOfModel,
         ApplyModelTuples, PruneModelTuples, PersistModelStatus, FinalizeModelTuples,
         RemoveModelObject, ModelRefused, EndModelRun, ModelStep, storeVars

\* What an edit does to the Store object, if anything.
LEMMA EditSteps ==
  ASSUME TypeOK, Environment
  PROVE  /\ run' = run
         /\ \/ store' = store
            \/ store.phase = "absent" /\ store'.phase = "live" /\ store'.status = NewStatus
            \/ store.phase = "live" /\ store'.phase \in {"live", "deleting"}
               /\ store'.status = store.status
<1>1. ASSUME NEW core \in Versions, NEW tuples \in SUBSET StoreTuples,
             CreateStoreObject(core, tuples)
      PROVE  /\ run' = run /\ store.phase = "absent"
             /\ store'.phase = "live" /\ store'.status = NewStatus
  BY <1>1 DEF CreateStoreObject, NoStore
<1>2. ASSUME NEW core \in Versions, NEW tuples \in SUBSET StoreTuples,
             EditStoreObject(core, tuples)
      PROVE  /\ run' = run /\ store.phase = "live"
             /\ store'.phase = "live" /\ store'.status = store.status
  BY <1>2 DEF EditStoreObject, TypeOK, StoreObjects
<1>3. CASE DeleteStoreObject
  <2>1. /\ run' = run /\ store.phase = "live"
        /\ store'.phase = "deleting" /\ store'.status = store.status
    BY <1>3 DEF DeleteStoreObject, TypeOK, StoreObjects
  <2>2. QED
    BY <2>1
<1>4. ASSUME NEW m \in Models, NEW content \in Versions,
             NEW tuples \in SUBSET ModelTuples[m],
             CreateModelObject(m, content, tuples) \/ EditModelObject(m, content, tuples)
      PROVE  UNCHANGED <<store, run>>
  BY <1>4 DEF CreateModelObject, EditModelObject, storeVars
<1>5. ASSUME NEW m \in Models, DeleteModelObject(m) PROVE UNCHANGED <<store, run>>
  BY <1>5 DEF DeleteModelObject, storeVars
<1>6. ASSUME NEW i \in Ids, RenameByHand(i) PROVE UNCHANGED <<store, run>>
  BY <1>6 DEF RenameByHand, storeVars
<1>7. QED
  BY <1>1, <1>2, <1>3, <1>4, <1>5, <1>6 DEF Environment

\* What a step along the chain does to the reconcile.
LEMMA StepShape ==
  ASSUME TypeOK, NEW from, NEW to, StoreStep(from, to)
  PROVE  /\ run.pc = from /\ run'.pc = to /\ run'.status = run.status
         /\ run'.tuples = run.tuples /\ run'.desired = run.desired /\ store' = store
  BY DEF TypeOK, StoreRuns, StoreStep

LEMMA StepWithShape ==
  ASSUME TypeOK, NEW from, NEW to, NEW status, StoreStepWith(from, to, status)
  PROVE  /\ run.pc = from /\ run'.pc = to /\ run'.status = status
         /\ run'.tuples = run.tuples /\ run'.desired = run.desired /\ store' = store
  BY DEF TypeOK, StoreRuns, StoreStepWith

LEMMA WorkerKeepsChain ==
  ASSUME TypeOK, ChainInv, StoreWorker \/ StoreFault
  PROVE  ChainInv'
<1>0. /\ run \in StoreRuns /\ run.status \in Status
      /\ store \in StoreObjects /\ store.status \in Status
  BY DEF TypeOK, StoreRuns, StoreObjects
<1>1. CASE BeginStore
  BY <1>0, <1>1 DEF BeginStore, ChainInv, FinalPCs, ProcessPCs, StoreObjects, Phases
<1>2. CASE FindStoreByName
  <2>1. ASSUME NEW i \in FirstPage,
               StoreStepWith("find", "list", [run.status EXCEPT !.storeID = i])
        PROVE  ChainInv'
    BY <1>0, <2>1
    DEF StoreStepWith, FirstPage, ChainInv, FinalPCs, ProcessPCs, StoreRuns, Status, Ids,
        NoId
  <2>2. CASE StoreStep("find", "create")
    BY <1>0, <2>2 DEF StoreStep, ChainInv, FinalPCs, ProcessPCs, StoreRuns
  <2>3. QED
    BY <1>2, <2>1, <2>2 DEF FindStoreByName
<1>3. CASE CreateFgaStore
  <2>1. PICK i \in Ids : StoreStepWith("create", "list", [run.status EXCEPT !.storeID = i])
    BY <1>3 DEF CreateFgaStore
  <2>2. QED
    BY <1>0, <2>1
    DEF StoreStepWith, ChainInv, FinalPCs, ProcessPCs, StoreRuns, Status, Ids, NoId
<1>4. CASE CheckStoreName \/ UpdateStoreName
  BY <1>0, <1>4
  DEF CheckStoreName, UpdateStoreName, StoreStep, ChainInv, FinalPCs, ProcessPCs, StoreRuns
<1>5. CASE ListRelatedModels
  BY <1>0, <1>5 DEF ListRelatedModels, ChainInv, FinalPCs, ProcessPCs, StoreRuns
<1>6. CASE WriteModelIfChanged
  <2>1. /\ run.pc = "write" /\ run'.pc = "apply" /\ store' = store
        /\ run'.status.storeID = run.status.storeID
    <3>1. CASE StoreStep("write", "apply")
      BY <3>1, StepShape
    <3>2. CASE StoreStepWith("write", "apply", [run.status EXCEPT !.modelID = run.desired])
      BY <1>0, <3>2, StepWithShape DEF Status
    <3>3. QED
      BY <1>6, <3>1, <3>2 DEF WriteModelIfChanged
  <2>2. QED
    BY <2>1 DEF ChainInv, FinalPCs, ProcessPCs
<1>7. CASE ApplyStoreTuples \/ PruneStoreTuples
  <2>1. /\ run.pc \in {"apply", "prune"} /\ run'.pc \in {"prune", "persist"}
        /\ store' = store /\ run'.status.storeID = run.status.storeID
    <3>1. CASE ApplyStoreTuples
      BY <3>1, StepShape DEF ApplyStoreTuples
    <3>2. CASE PruneStoreTuples
      BY <1>0, <3>2, StepWithShape DEF PruneStoreTuples, Status
    <3>3. QED
      BY <1>7, <3>1, <3>2
  <2>2. QED
    BY <2>1 DEF ChainInv, FinalPCs, ProcessPCs
<1>8. CASE PersistStoreStatus
  BY <1>0, <1>8
  DEF PersistStoreStatus, Idle, NewStatus, ChainInv, FinalPCs, ProcessPCs, StoreObjects
<1>9. CASE FinalizeStoreTuples
  BY <1>0, <1>9
  DEF FinalizeStoreTuples, StoreStepWith, ChainInv, FinalPCs, ProcessPCs, StoreRuns, Status
<1>10. CASE ReleaseTuplesFinalizer
  BY <1>0, <1>10
  DEF ReleaseTuplesFinalizer, ChainInv, FinalPCs, ProcessPCs, StoreRuns, StoreObjects
<1>11. CASE CheckRelatedModels \/ DeleteFgaStore
  BY <1>0, <1>11
  DEF CheckRelatedModels, DeleteFgaStore, StoreStep, ChainInv, FinalPCs, ProcessPCs,
      StoreRuns
<1>12. CASE RemoveStoreObject
  <2>1. /\ store'.status = NewStatus /\ run'.pc = "idle"
        /\ run'.status = NewStatus
    BY <1>12 DEF RemoveStoreObject, NoStore, Idle
  <2>2. NewStatus.storeID = NoId /\ NewStatus.modelID = NoContent
    BY DEF NewStatus
  <2>3. QED
    BY <2>1, <2>2 DEF ChainInv, FinalPCs, ProcessPCs
<1>13. CASE StoreRefused \/ StoreFault
  <2>1. EndStoreRun /\ run.pc # "idle"
    BY <1>13 DEF StoreRefused, StoreFault
  <2>2. /\ store'.phase = store.phase /\ run'.pc = "idle" /\ run'.status = NewStatus
        /\ store'.status = store.status \/ store'.status = run.status
    BY <1>0, <2>1 DEF EndStoreRun, Idle, StoreObjects
  <2>3. NewStatus.storeID = NoId /\ NewStatus.modelID = NoContent
    BY DEF NewStatus
  <2>4. QED
    BY <2>1, <2>2, <2>3 DEF ChainInv, FinalPCs, ProcessPCs
<1>14. QED
  BY <1>1, <1>2, <1>3, <1>4, <1>5, <1>6, <1>7, <1>8, <1>9, <1>10, <1>11, <1>12, <1>13
  DEF StoreWorker

LEMMA ChainStep == TypeOK /\ ChainInv /\ [Next]_vars => ChainInv'
<1> SUFFICES ASSUME TypeOK, ChainInv, [Next]_vars PROVE ChainInv'
  OBVIOUS
<1>1. CASE Environment
  BY <1>1, EditSteps DEF ChainInv, NewStatus, NoId, FinalPCs
<1>2. CASE StoreWorker \/ StoreFault
  BY <1>2, WorkerKeepsChain
<1>3. ASSUME NEW m \in Models, ModelWorker(m) \/ ModelFault(m) \/ DeliverModelEvent(m)
      PROVE  ChainInv'
  BY <1>3, OtherSteps DEF ChainInv
<1>4. CASE UNCHANGED vars
  BY <1>4 DEF vars, ChainInv
<1>5. QED
  BY <1>1, <1>2, <1>3, <1>4 DEF Next

----------------------------------------------------------------------------
(* StatusNamesWhatExists: stores and models never vanish under a live Store. *)

\* Every store OpenFGA has it still has, with all its models.
NothingLost ==
  \A i \in Ids : Alive(i) => /\ fga'[i].state = "live"
                            /\ fga[i].models \subseteq fga'[i].models

LEMMA ExistsPreserved ==
  ASSUME TypeOK, NothingLost, NEW status, Exists(status)
  PROVE  status.storeID # NoId =>
           /\ status.storeID \in Ids /\ fga'[status.storeID].state = "live"
           /\ status.modelID # NoContent =>
                status.modelID \in fga'[status.storeID].models
  BY DEF Exists, NothingLost, Alive

\* Writes of tuples change neither the state, nor the name, nor the models.
LEMMA TuplesOnly ==
  ASSUME TypeOK, NEW id, NEW tuples, Writable(id, tuples),
         fga' = Applied(id, tuples) \/ fga' = Removed(id, tuples)
  PROVE  \A i \in Ids : /\ fga'[i].state = fga[i].state
                        /\ fga'[i].ours = fga[i].ours
                        /\ fga'[i].models = fga[i].models
  BY DEF TypeOK, FgaStores, Writable, Alive, Applied, Removed

\* Users and the AuthorizationModels' controller lose no store, no model, and
\* give no store the Store's name.
LEMMA OthersKeepStores ==
  ASSUME TypeOK,
         \/ Environment
         \/ \E m \in Models : ModelWorker(m) \/ ModelFault(m) \/ DeliverModelEvent(m)
  PROVE  \A i \in Ids : /\ fga'[i].state = fga[i].state
                        /\ fga'[i].models = fga[i].models
                        /\ fga'[i].ours => fga[i].ours
<1>1. CASE fga' = fga
  BY <1>1
<1>2. ASSUME NEW i \in Ids, RenameByHand(i)
      PROVE  \A j \in Ids : /\ fga'[j].state = fga[j].state
                            /\ fga'[j].models = fga[j].models
                            /\ fga'[j].ours => fga[j].ours
  BY <1>2 DEF RenameByHand, TypeOK, FgaStores
<1>3. ASSUME NEW m \in Models,
             ApplyModelTuples(m) \/ PruneModelTuples(m) \/ FinalizeModelTuples(m)
      PROVE  \A j \in Ids : /\ fga'[j].state = fga[j].state
                            /\ fga'[j].models = fga[j].models
                            /\ fga'[j].ours => fga[j].ours
  BY <1>3, TuplesOnly DEF ApplyModelTuples, PruneModelTuples, FinalizeModelTuples
<1>4. CASE Environment
  <2>1. fga' = fga \/ \E i \in Ids : RenameByHand(i)
    BY <1>4
    DEF Environment, CreateStoreObject, EditStoreObject, DeleteStoreObject,
        CreateModelObject, EditModelObject, DeleteModelObject
  <2>2. QED
    BY <1>1, <1>2, <2>1
<1>5. ASSUME NEW m \in Models, ModelWorker(m) \/ ModelFault(m) \/ DeliverModelEvent(m)
      PROVE  \A j \in Ids : /\ fga'[j].state = fga[j].state
                            /\ fga'[j].models = fga[j].models
                            /\ fga'[j].ours => fga[j].ours
  <2>1. \/ fga' = fga
        \/ ApplyModelTuples(m) \/ PruneModelTuples(m) \/ FinalizeModelTuples(m)
    BY <1>5
    DEF ModelWorker, ModelFault, DeliverModelEvent, BeginModel, GetStoreOfModel,
        PersistModelStatus, RemoveModelObject, ModelRefused, EndModelRun
  <2>2. QED
    BY <1>1, <1>3, <2>1
<1>6. QED
  BY <1>4, <1>5

LEMMA WorkerKeepsNames ==
  ASSUME TypeOK, ChainInv, NamesInv, StoreWorker \/ StoreFault
  PROVE  NamesInv'
<1>0. /\ run \in StoreRuns /\ run.status \in Status
      /\ store \in StoreObjects /\ store.status \in Status
      /\ fga \in [Ids -> FgaStores]
  BY DEF TypeOK, StoreRuns, StoreObjects
<1>1. CASE BeginStore
  <2>1. fga' = fga /\ store' = store
    BY <1>1 DEF BeginStore
  <2>2. run'.pc \in ProcessPCs => store.phase = "live" /\ run'.status = store.status
    BY <1>0, <1>1 DEF BeginStore, ProcessPCs, ChainInv, StoreObjects, Phases
  <2>3. QED
    BY <2>1, <2>2 DEF NamesInv, Exists, Alive
<1>2. CASE FindStoreByName
  <2>1. fga' = fga
    BY <1>2 DEF FindStoreByName
  <2>2. ASSUME NEW i \in FirstPage,
               StoreStepWith("find", "list", [run.status EXCEPT !.storeID = i])
        PROVE  NamesInv'
    <3>1. /\ store' = store /\ run.pc = "find"
          /\ run'.status.storeID = i /\ run'.status.modelID = run.status.modelID
      BY <1>0, <2>2, StepWithShape DEF Status
    <3>2. run.status.modelID = NoContent
      BY <3>1 DEF ChainInv
    <3>3. QED
      BY <2>1, <3>1, <3>2 DEF NamesInv, Exists, FirstPage, Alive
  <2>3. CASE StoreStep("find", "create")
    BY <2>1, <2>3, StepShape DEF NamesInv, Exists, Alive, ProcessPCs
  <2>4. QED
    BY <1>2, <2>2, <2>3 DEF FindStoreByName
<1>3. CASE CreateFgaStore
  <2>1. PICK i \in Ids :
           /\ fga[i].state = "unused"
           /\ fga' = [fga EXCEPT ![i] = [state |-> "live", ours |-> TRUE,
                                         tuples |-> {}, models |-> {}]]
           /\ StoreStepWith("create", "list", [run.status EXCEPT !.storeID = i])
    BY <1>3 DEF CreateFgaStore
  <2>2. NothingLost /\ fga'[i].state = "live"
    BY <1>0, <2>1 DEF NothingLost, Alive, FgaStores
  <2>3. /\ store' = store /\ run.pc = "create"
        /\ run'.status.storeID = i /\ run'.status.modelID = run.status.modelID
    BY <1>0, <2>1, StepWithShape DEF Status
  <2>4. run.status.modelID = NoContent
    BY <2>3 DEF ChainInv
  <2>5. QED
    BY <2>2, <2>3, <2>4, ExistsPreserved DEF NamesInv, Exists, Alive
<1>4. CASE CheckStoreName
  BY <1>4, StepShape DEF CheckStoreName, NamesInv, Exists, Alive, ProcessPCs
<1>5. CASE UpdateStoreName
  <2>1. NothingLost
    BY <1>0, <1>5 DEF UpdateStoreName, NothingLost, Alive, FgaStores
  <2>2. run.pc = "rename" /\ run'.status = run.status /\ store' = store
    BY <1>5, StepShape DEF UpdateStoreName
  <2>3. QED
    BY <2>1, <2>2, ExistsPreserved DEF NamesInv, Exists, Alive, ProcessPCs
<1>6. CASE ListRelatedModels
  <2>1. /\ run.pc = "list" /\ run'.status = run.status
        /\ UNCHANGED <<store, fga>>
    BY <1>0, <1>6 DEF ListRelatedModels, StoreRuns
  <2>2. QED
    BY <2>1 DEF NamesInv, Exists, Alive, ProcessPCs
<1>7. CASE WriteModelIfChanged
  <2>1. CASE run.status.modelID = run.desired
    BY <1>7, <2>1, StepShape DEF WriteModelIfChanged, NamesInv, Exists, Alive, ProcessPCs
  <2>2. CASE run.status.modelID # run.desired
    <3>1. /\ Alive(run.status.storeID)
          /\ fga' = [fga EXCEPT ![run.status.storeID].models = @ \cup {run.desired}]
          /\ StoreStepWith("write", "apply", [run.status EXCEPT !.modelID = run.desired])
      BY <1>7, <2>2 DEF WriteModelIfChanged
    <3>2. NothingLost /\ run.desired \in fga'[run.status.storeID].models
      BY <1>0, <3>1 DEF NothingLost, Alive, FgaStores
    <3>3. /\ store' = store /\ run'.status.storeID = run.status.storeID
          /\ run'.status.modelID = run.desired
      BY <1>0, <3>1, StepWithShape DEF Status
    <3>4. fga'[run.status.storeID].state = "live" /\ run.status.storeID \in Ids
      BY <3>1, <3>2 DEF NothingLost, Alive
    <3>5. QED
      BY <3>2, <3>3, <3>4, ExistsPreserved DEF NamesInv, Exists, Alive
  <2>3. QED
    BY <2>1, <2>2
<1>8. CASE ApplyStoreTuples \/ PruneStoreTuples \/ FinalizeStoreTuples
  <2>1. NothingLost
    BY <1>8, TuplesOnly
    DEF ApplyStoreTuples, PruneStoreTuples, FinalizeStoreTuples, NothingLost, Alive
  <2>2. /\ store' = store
        /\ run'.status.storeID = run.status.storeID
        /\ run'.status.modelID = run.status.modelID
        /\ run'.pc \in ProcessPCs => run.pc \in ProcessPCs
    <3>1. CASE ApplyStoreTuples
      BY <3>1, StepShape DEF ApplyStoreTuples, ProcessPCs
    <3>2. CASE PruneStoreTuples
      BY <1>0, <3>2, StepWithShape DEF PruneStoreTuples, ProcessPCs, Status
    <3>3. CASE FinalizeStoreTuples
      BY <1>0, <3>3, StepWithShape DEF FinalizeStoreTuples, ProcessPCs, Status
    <3>4. QED
      BY <1>8, <3>1, <3>2, <3>3
  <2>3. QED
    BY <2>1, <2>2, ExistsPreserved DEF NamesInv, Exists, Alive
<1>9. CASE PersistStoreStatus
  <2>1. /\ fga' = fga /\ run.pc = "persist" /\ run'.pc = "idle"
        /\ store'.status = run.status
    BY <1>0, <1>9 DEF PersistStoreStatus, Idle, StoreObjects
  <2>2. QED
    BY <2>1 DEF NamesInv, Exists, Alive, ProcessPCs
<1>10. CASE ReleaseTuplesFinalizer \/ CheckRelatedModels \/ DeleteFgaStore
  <2>1. /\ run.pc \in FinalPCs /\ run'.pc \notin ProcessPCs
        /\ store'.phase = store.phase
    <3>1. CASE ReleaseTuplesFinalizer
      BY <1>0, <3>1 DEF ReleaseTuplesFinalizer, FinalPCs, ProcessPCs, StoreObjects, StoreRuns
    <3>2. CASE CheckRelatedModels
      BY <3>2, StepShape DEF CheckRelatedModels, FinalPCs, ProcessPCs
    <3>3. CASE DeleteFgaStore
      BY <3>3, StepShape DEF DeleteFgaStore, FinalPCs, ProcessPCs
    <3>4. QED
      BY <1>10, <3>1, <3>2, <3>3
  <2>2. QED
    BY <2>1 DEF NamesInv, ChainInv
<1>11. CASE RemoveStoreObject
  BY <1>11 DEF RemoveStoreObject, NoStore, Idle, NamesInv, ProcessPCs
<1>12. CASE StoreRefused \/ StoreFault
  <2>1. /\ fga' = fga /\ run'.pc = "idle" /\ run.pc # "idle"
        /\ store'.phase = store.phase
        /\ store'.status = store.status \/ store'.status = run.status
    BY <1>0, <1>12 DEF StoreRefused, StoreFault, EndStoreRun, Idle, StoreObjects
  <2>2. CASE run.pc \in ProcessPCs
    BY <2>1, <2>2 DEF NamesInv, Exists, Alive, ProcessPCs
  <2>3. CASE run.pc \in FinalPCs
    BY <2>1, <2>3 DEF NamesInv, ChainInv, ProcessPCs
  <2>4. CASE run.pc \in {"find", "create"}
    BY <2>1, <2>4 DEF NamesInv, ChainInv, Exists, Alive, ProcessPCs
  <2>5. QED
    BY <1>0, <2>1, <2>2, <2>3, <2>4 DEF StoreRuns, StorePCs, ProcessPCs, FinalPCs
<1>13. QED
  BY <1>1, <1>2, <1>3, <1>4, <1>5, <1>6, <1>7, <1>8, <1>9, <1>10, <1>11, <1>12
  DEF StoreWorker

LEMMA NamesStep == TypeOK /\ ChainInv /\ NamesInv /\ [Next]_vars => NamesInv'
<1> SUFFICES ASSUME TypeOK, ChainInv, NamesInv, [Next]_vars PROVE NamesInv'
  OBVIOUS
<1>1. CASE Environment
  <2>1. NothingLost
    BY <1>1, OthersKeepStores DEF NothingLost, Alive
  <2>2. QED
    BY <1>1, <2>1, EditSteps, ExistsPreserved
    DEF NamesInv, Exists, Alive, NewStatus
<1>2. CASE StoreWorker \/ StoreFault
  BY <1>2, WorkerKeepsNames
<1>3. ASSUME NEW m \in Models, ModelWorker(m) \/ ModelFault(m) \/ DeliverModelEvent(m)
      PROVE  NamesInv'
  <2>1. NothingLost
    BY <1>3, OthersKeepStores DEF NothingLost, Alive
  <2>2. QED
    BY <1>3, <2>1, OtherSteps, ExistsPreserved DEF NamesInv, Exists, Alive
<1>4. CASE UNCHANGED vars
  BY <1>4 DEF vars, NamesInv, Exists, Alive
<1>5. QED
  BY <1>1, <1>2, <1>3, <1>4 DEF Next

\* The ids in the status of a live Store always name a store and a model that
\* OpenFGA has, through every crash, retry, deletion and re-creation.
THEOREM StatusNamesCorrect == Spec => []StatusNamesWhatExists
<1>1. Init => ChainInv /\ NamesInv
  BY ChainInit DEF Init, NamesInv, NoStore, Idle, ProcessPCs
<1>2. NamesInv => StatusNamesWhatExists
  BY DEF NamesInv, Exists, StatusNamesWhatExists
<1>3. QED
  BY <1>1, <1>2, TypeCorrect, ChainStep, NamesStep, PTL DEF Spec

----------------------------------------------------------------------------
(* NoDuplicateStore, as long as one page of ListStores holds every store.  *)

Ours(j) == Alive(j) /\ fga[j].ours

\* A page as long as the list is the list.
LEMMA WholePage ==
  ASSUME MaxStoreId <= PageSize
  PROVE  FirstPage = {i \in Ids : Alive(i)}
<1> SUFFICES ASSUME NEW i \in Ids
             PROVE  Cardinality({j \in 1 .. i : Alive(j)}) <= PageSize
  BY DEF FirstPage
<1>1. i \in Nat /\ 1 \in Int /\ i \in Int /\ i <= PageSize /\ PageSize \in Nat
  BY ConstantsAssumption DEF Ids
<1>2. IsFiniteSet(1 .. i) /\ Cardinality(1 .. i) <= i
  BY <1>1, FS_Interval
<1>3. Cardinality({j \in 1 .. i : Alive(j)}) <= Cardinality(1 .. i)
  BY <1>2, FS_Subset
<1>4. /\ Cardinality({j \in 1 .. i : Alive(j)}) \in Nat
      /\ Cardinality(1 .. i) \in Nat
  <2>1. IsFiniteSet({j \in 1 .. i : Alive(j)})
    BY <1>2, FS_Subset
  <2>2. QED
    BY <1>2, <2>1, FS_CardinalityType
<1>5. QED
  BY <1>1, <1>2, <1>3, <1>4

\* Steps that give no store the name, and change no id but to known ones.
LEMMA NoNewStore ==
  ASSUME TypeOK, OwnInv,
         \A j \in Ids : Ours(j)' => Ours(j),
         \/ store'.status.storeID \in {NoId, store.status.storeID}
         \/ run.pc # "idle" /\ store'.status.storeID = run.status.storeID,
         \/ run'.pc = "idle"
         \/ run.pc = "idle" /\ run'.status.storeID = store.status.storeID
         \/ run.pc # "idle" /\ run'.status.storeID = run.status.storeID,
         run'.pc # "create"
  PROVE  OwnInv'
  BY DEF OwnInv, Ours, OnlyOurs, NoDuplicateStore

LEMMA WorkerKeepsOwn ==
  ASSUME MaxStoreId <= PageSize, TypeOK, ChainInv, NamesInv, OwnInv,
         StoreWorker \/ StoreFault
  PROVE  OwnInv'
<1>0. /\ run \in StoreRuns /\ run.status \in Status
      /\ store \in StoreObjects /\ store.status \in Status
      /\ fga \in [Ids -> FgaStores]
  BY DEF TypeOK, StoreRuns, StoreObjects
<1>1. CASE BeginStore
  <2>1. /\ run.pc = "idle" /\ UNCHANGED <<store, fga>>
        /\ run'.pc = "idle" \/ run'.status = store.status
        /\ run'.pc # "create"
    BY <1>0, <1>1 DEF BeginStore, StoreObjects, Phases
  <2>2. QED
    BY <2>1, NoNewStore DEF Ours, Alive
<1>2. CASE FindStoreByName
  <2>1. fga' = fga /\ store' = store
    BY <1>2, StepShape, StepWithShape DEF FindStoreByName
  <2>2. ASSUME NEW i \in FirstPage, fga[i].ours,
               StoreStepWith("find", "list", [run.status EXCEPT !.storeID = i])
        PROVE  OwnInv'
    <3>1. run.pc = "find" /\ run'.pc = "list" /\ run'.status.storeID = i
      BY <1>0, <2>2, StepWithShape DEF Status
    <3>2. i \in Ids /\ Ours(i)
      BY <2>2 DEF FirstPage, Ours
    <3>3. QED
      BY <2>1, <3>1, <3>2 DEF OwnInv, Ours, OnlyOurs, NoDuplicateStore, Alive
  <2>3. ASSUME StoreStep("find", "create"), \A i \in FirstPage : ~ fga[i].ours
        PROVE  OwnInv'
    <3>1. \A j \in Ids : ~ Ours(j)
      BY <2>3, WholePage DEF Ours
    <3>2. QED
      BY <2>1, <2>3, <3>1, StepShape DEF OwnInv, Ours, OnlyOurs, NoDuplicateStore, Alive
  <2>4. QED
    BY <1>2, <2>2, <2>3 DEF FindStoreByName
<1>3. CASE CreateFgaStore
  <2>1. PICK i \in Ids :
           /\ fga' = [fga EXCEPT ![i] = [state |-> "live", ours |-> TRUE,
                                         tuples |-> {}, models |-> {}]]
           /\ StoreStepWith("create", "list", [run.status EXCEPT !.storeID = i])
    BY <1>3 DEF CreateFgaStore
  <2>2. /\ store' = store /\ run.pc = "create" /\ run'.pc = "list"
        /\ run'.status.storeID = i
    BY <1>0, <2>1, StepWithShape DEF Status
  <2>3. store.status.storeID = NoId /\ \A j \in Ids : ~ Ours(j)
    BY <2>2 DEF ChainInv, OwnInv, Ours
  <2>4. \A j \in Ids : Ours(j)' => j = i
    BY <1>0, <2>1, <2>3 DEF Ours, Alive
  <2>5. QED
    BY <2>2, <2>3, <2>4 DEF OwnInv, Ours, OnlyOurs, NoDuplicateStore
<1>4. CASE UpdateStoreName
  <2>1. /\ run.pc = "rename" /\ run'.pc = "list" /\ run'.status = run.status
        /\ store' = store
    BY <1>4, StepShape DEF UpdateStoreName
  <2>2. run.status.storeID # NoId
    BY <2>1 DEF ChainInv, ProcessPCs
  <2>3. \A j \in Ids : Ours(j)' => j = run.status.storeID
    BY <1>0, <1>4, <2>1, <2>2
    DEF UpdateStoreName, OwnInv, OnlyOurs, Ours, Alive, FgaStores
  <2>4. store.status.storeID # NoId => store.status.storeID = run.status.storeID
    BY <2>1 DEF ChainInv
  <2>5. QED
    BY <2>1, <2>3, <2>4 DEF OwnInv, Ours, OnlyOurs, NoDuplicateStore
<1>5. CASE \/ CheckStoreName \/ ListRelatedModels \/ WriteModelIfChanged
           \/ ApplyStoreTuples \/ PruneStoreTuples \/ FinalizeStoreTuples
           \/ ReleaseTuplesFinalizer \/ CheckRelatedModels \/ DeleteFgaStore
  <2>1. \A j \in Ids : Ours(j)' => Ours(j)
    <3>1. CASE \/ CheckStoreName \/ ListRelatedModels \/ ReleaseTuplesFinalizer
               \/ CheckRelatedModels
      BY <3>1
      DEF CheckStoreName, ListRelatedModels, ReleaseTuplesFinalizer, CheckRelatedModels,
          Ours, Alive
    <3>2. CASE ApplyStoreTuples \/ PruneStoreTuples \/ FinalizeStoreTuples
      BY <3>2, TuplesOnly
      DEF ApplyStoreTuples, PruneStoreTuples, FinalizeStoreTuples, Ours, Alive
    <3>3. CASE WriteModelIfChanged
      BY <1>0, <3>3 DEF WriteModelIfChanged, Ours, Alive, FgaStores
    <3>4. CASE DeleteFgaStore
      BY <1>0, <3>4 DEF DeleteFgaStore, Ours, Alive, FgaStores
    <3>5. QED
      BY <1>5, <3>1, <3>2, <3>3, <3>4
  <2>2. /\ store'.status = store.status /\ run.pc # "idle" /\ run'.pc # "create"
        /\ run'.status.storeID = run.status.storeID
    <3>1. CASE CheckStoreName \/ ApplyStoreTuples \/ CheckRelatedModels \/ DeleteFgaStore
      BY <3>1, StepShape
      DEF CheckStoreName, ApplyStoreTuples, CheckRelatedModels, DeleteFgaStore
    <3>2. CASE ListRelatedModels \/ ReleaseTuplesFinalizer
      BY <1>0, <3>2 DEF ListRelatedModels, ReleaseTuplesFinalizer, StoreRuns, StoreObjects
    <3>3. CASE PruneStoreTuples \/ FinalizeStoreTuples
      BY <1>0, <3>3, StepWithShape DEF PruneStoreTuples, FinalizeStoreTuples, Status
    <3>4. CASE WriteModelIfChanged
      BY <1>0, <3>4, StepShape, StepWithShape DEF WriteModelIfChanged, Status
    <3>5. QED
      BY <1>5, <3>1, <3>2, <3>3, <3>4
  <2>3. QED
    BY <2>1, <2>2, NoNewStore
<1>6. CASE PersistStoreStatus \/ RemoveStoreObject \/ StoreRefused \/ StoreFault
  <2>1. /\ fga' = fga /\ run'.pc = "idle" /\ run.pc # "idle"
        /\ store'.status.storeID \in {NoId, store.status.storeID, run.status.storeID}
    BY <1>0, <1>6
    DEF PersistStoreStatus, RemoveStoreObject, StoreRefused, StoreFault, EndStoreRun,
        Idle, NoStore, NewStatus, StoreObjects
  <2>2. QED
    BY <2>1, NoNewStore DEF Ours, Alive
<1>7. QED
  BY <1>1, <1>2, <1>3, <1>4, <1>5, <1>6 DEF StoreWorker

LEMMA OwnStep ==
  ASSUME MaxStoreId <= PageSize
  PROVE  TypeOK /\ ChainInv /\ NamesInv /\ OwnInv /\ [Next]_vars => OwnInv'
<1> SUFFICES ASSUME TypeOK, ChainInv, NamesInv, OwnInv, [Next]_vars PROVE OwnInv'
  OBVIOUS
<1>1. ASSUME NEW m \in Models, ModelWorker(m) \/ ModelFault(m) \/ DeliverModelEvent(m)
      PROVE  OwnInv'
  <2>1. \A j \in Ids : Ours(j)' => Ours(j)
    BY <1>1, OthersKeepStores DEF Ours, Alive
  <2>2. QED
    BY <1>1, <2>1, OtherSteps DEF OwnInv, OnlyOurs, NoDuplicateStore, Ours
<1>2. CASE Environment
  <2>1. \A j \in Ids : Ours(j)' => Ours(j)
    BY <1>2, OthersKeepStores DEF Ours, Alive
  <2>2. QED
    BY <1>2, <2>1, EditSteps DEF OwnInv, OnlyOurs, NoDuplicateStore, Ours, NewStatus
<1>3. CASE StoreWorker \/ StoreFault
  BY <1>3, WorkerKeepsOwn
<1>4. CASE UNCHANGED vars
  BY <1>4 DEF vars, OwnInv, OnlyOurs, NoDuplicateStore, Alive
<1>5. QED
  BY <1>1, <1>2, <1>3, <1>4 DEF Next

\* The lookup by name makes the creation of the store idempotent: no crash
\* between CreateStore and the write of status.storeId leads to a second store,
\* provided the first page of ListStores holds all of them.
THEOREM NoDuplicateCorrect ==
  ASSUME MaxStoreId <= PageSize
  PROVE  Spec => []NoDuplicateStore
<1>1. Init => ChainInv /\ NamesInv /\ OwnInv
  <2>1. Init => ChainInv /\ NamesInv
    BY ChainInit DEF Init, NamesInv, NoStore, Idle, ProcessPCs
  <2>2. Init => OwnInv
    BY DEF Init, OwnInv, OnlyOurs, NoDuplicateStore, NoStore, NewStatus, Idle
  <2>3. QED
    BY <2>1, <2>2
<1>2. OwnInv => NoDuplicateStore
  BY DEF OwnInv
<1>3. TypeOK /\ ChainInv /\ NamesInv /\ OwnInv /\ [Next]_vars => OwnInv'
  BY OwnStep
<1>4. QED
  BY <1>1, <1>2, <1>3, TypeCorrect, ChainStep, NamesStep, PTL DEF Spec
=============================================================================
