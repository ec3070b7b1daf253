-------------------------- MODULE StoreReconciler --------------------------
(***************************************************************************)
(* One Store object, the AuthorizationModel objects that refer to it, the  *)
(* two controllers that reconcile them and the OpenFGA server they write.  *)
(*                                                                         *)
(* A reconcile is a chain of subroutines over an in-memory copy of the     *)
(* object: every call to OpenFGA or to the API server is a step of its     *)
(* own, what the subroutines put in the status is in the copy only, and    *)
(* the last step writes the status back.  Between two steps the other      *)
(* controller runs, users edit and delete objects, and the process may     *)
(* stop.                                                                   *)
(*                                                                         *)
(* The id of an OpenFGA authorization model is represented by the model it *)
(* names: models are immutable there and the code only compares contents.  *)
(***************************************************************************)
EXTENDS Integers, FiniteSets

CONSTANTS
  Models,        \* AuthorizationModel objects whose storeRef is this Store
  Versions,      \* contents of spec.coreModule and of spec.model
  StoreTuples,   \* tuples that may appear in the Store's spec
  ModelTuples,   \* [Models -> SUBSET tuples]: in the spec of an AuthorizationModel
  Foreign,       \* OpenFGA stores of other names that exist from the start
  PageSize,      \* stores one ListStores call returns
  MaxStoreId,    \* bound: ids OpenFGA hands out
  MaxEdits,      \* bound: creations, edits and deletions by users, by patience
  MaxFaults,     \* bound: calls that fail, status writes and processes lost, by patience
  Patience,      \* whether users wait for the controllers: the values to consider
  NoVersion      \* no content: the object does not exist, no model written yet

ASSUME ConstantsAssumption ==
  /\ IsFiniteSet(Models)
  /\ NoVersion \notin Versions
  /\ Foreign \in Nat /\ PageSize \in Nat /\ MaxStoreId \in Nat
  /\ MaxEdits \in [BOOLEAN -> Nat] /\ MaxFaults \in [BOOLEAN -> Nat]
  /\ Patience \subseteq BOOLEAN

\* No two owners put the same tuple into one OpenFGA store.
ASSUME TuplesAreDisjoint ==
  /\ \A m \in Models : StoreTuples \cap ModelTuples[m] = {}
  /\ \A m, n \in Models : m # n => ModelTuples[m] \cap ModelTuples[n] = {}

VARIABLES
  store,     \* the Store object: phase, spec and status
  model,     \* the AuthorizationModel objects
  seen,      \* the informer cache: content of each AuthorizationModel, as last delivered
  fga,       \* the stores in OpenFGA, by id
  queued,    \* the Store waits in its controller's queue
  run,       \* the reconcile of the Store: program counter and in-memory copy
  mqueued,   \* AuthorizationModels waiting in their controller's queue
  mrun,      \* the reconcile of each AuthorizationModel
  patient,   \* users wait until the controllers have caught up before the next edit
  edits,     \* edits so far
  faults     \* faults so far

storeVars == <<store, queued, run>>
modelVars == <<model, mqueued, mrun>>
vars == <<store, model, seen, fga, queued, run, mqueued, mrun, patient, edits, faults>>

----------------------------------------------------------------------------
AllTuples == StoreTuples \cup UNION {ModelTuples[m] : m \in Models}
Ids       == 1 .. MaxStoreId
NoId      == 0
Phases    == {"absent", "live", "deleting"}
Modules   == [Models -> Versions \cup {NoVersion}]
Contents  == [core : Versions \cup {NoVersion}, modules : Modules]
NoContent == NoVersion

Status == [storeID : Ids \cup {NoId},
           modelID : Contents \cup {NoContent},
           managed : SUBSET StoreTuples]

NewStatus == [storeID |-> NoId, modelID |-> NoContent, managed |-> {}]

StorePCs == {"idle", "find", "create", "check", "rename", "list", "write", "apply",
             "prune", "persist", "untuple", "release", "related", "drop", "remove"}
ModelPCs == {"idle", "get", "apply", "prune", "persist", "untuple", "remove"}

StoreObjects == [phase : Phases, core : Versions \cup {NoVersion},
                 tuples : SUBSET StoreTuples, released : BOOLEAN, status : Status]
ModelObjects == [phase : Phases, content : Versions \cup {NoVersion},
                 tuples : SUBSET AllTuples, managed : SUBSET AllTuples]
FgaStores    == [state : {"unused", "live", "deleted"}, ours : BOOLEAN,
                 tuples : SUBSET AllTuples, models : SUBSET (Contents \cup {NoContent})]
StoreRuns    == [pc : StorePCs, core : Versions \cup {NoVersion},
                 tuples : SUBSET StoreTuples, status : Status,
                 desired : Contents \cup {NoContent}]
ModelRuns    == [pc : ModelPCs, deleting : BOOLEAN, tuples : SUBSET AllTuples,
                 managed : SUBSET AllTuples, storeID : Ids \cup {NoId}]

TypeOK ==
  /\ store \in StoreObjects
  /\ model \in [Models -> ModelObjects]
  /\ seen \in Modules
  /\ fga \in [Ids -> FgaStores]
  /\ queued \in BOOLEAN
  /\ run \in StoreRuns
  /\ mqueued \in SUBSET Models
  /\ mrun \in [Models -> ModelRuns]
  /\ patient \in BOOLEAN
  /\ edits \in 0 .. MaxEdits[patient]
  /\ faults \in 0 .. MaxFaults[patient]

NoStore == [phase |-> "absent", core |-> NoVersion, tuples |-> {}, released |-> FALSE,
            status |-> NewStatus]
NoModel == [phase |-> "absent", content |-> NoVersion, tuples |-> {}, managed |-> {}]
Idle    == [pc |-> "idle", core |-> NoVersion, tuples |-> {}, status |-> NewStatus,
            desired |-> NoContent]
IdleM   == [pc |-> "idle", deleting |-> FALSE, tuples |-> {}, managed |-> {},
            storeID |-> NoId]

Init ==
  /\ store = NoStore
  /\ model = [m \in Models |-> NoModel]
  /\ seen = [m \in Models |-> NoVersion]
  /\ fga = [i \in Ids |-> [state  |-> IF i <= Foreign THEN "live" ELSE "unused",
                           ours   |-> FALSE, tuples |-> {}, models |-> {}]]
  /\ queued = FALSE /\ run = Idle
  /\ mqueued = {} /\ mrun = [m \in Models |-> IdleM]
  /\ patient \in Patience
  /\ edits = 0 /\ faults = 0

----------------------------------------------------------------------------
(* Users and the other controllers of the operator.                        *)

StoreSettled ==
  /\ run.pc = "idle"
  /\ store.status.storeID # NoId
  /\ store.status.managed = store.tuples

ModelSettled(m) ==
  /\ mrun[m].pc = "idle"
  /\ model[m].managed = model[m].tuples
  /\ seen[m] = model[m].content

MayEdit ==
  /\ edits < MaxEdits[patient] /\ edits' = edits + 1
  /\ UNCHANGED <<patient, faults>>

CreateStoreObject(core, tuples) ==
  /\ MayEdit
  /\ store.phase = "absent"
  /\ store' = [NoStore EXCEPT !.phase = "live", !.core = core, !.tuples = tuples]
  /\ queued' = TRUE
  /\ UNCHANGED <<run, seen, fga, modelVars>>

EditStoreObject(core, tuples) ==
  /\ MayEdit
  /\ store.phase = "live"
  /\ patient => StoreSettled
  /\ store' = [store EXCEPT !.core = core, !.tuples = tuples]
  /\ queued' = TRUE
  /\ UNCHANGED <<run, seen, fga, modelVars>>

DeleteStoreObject ==
  /\ MayEdit
  /\ store.phase = "live"
  /\ patient => StoreSettled /\ \A m \in Models : ModelSettled(m)
  /\ store' = [store EXCEPT !.phase = "deleting"]
  /\ queued' = TRUE
  /\ UNCHANGED <<run, seen, fga, modelVars>>

CreateModelObject(m, content, tuples) ==
  /\ MayEdit
  /\ model[m].phase = "absent"
  /\ patient => store.phase = "live"
  /\ model' = [model EXCEPT ![m] = [phase |-> "live", content |-> content,
                                    tuples |-> tuples, managed |-> {}]]
  /\ mqueued' = mqueued \cup {m}
  /\ UNCHANGED <<mrun, seen, fga, storeVars>>

EditModelObject(m, content, tuples) ==
  /\ MayEdit
  /\ model[m].phase = "live"
  /\ patient => ModelSettled(m)
  /\ model' = [model EXCEPT ![m].content = content, ![m].tuples = tuples]
  /\ mqueued' = mqueued \cup {m}
  /\ UNCHANGED <<mrun, seen, fga, storeVars>>

DeleteModelObject(m) ==
  /\ MayEdit
  /\ model[m].phase = "live"
  /\ patient => ModelSettled(m)
  /\ model' = [model EXCEPT ![m].phase = "deleting"]
  /\ mqueued' = mqueued \cup {m}
  /\ UNCHANGED <<mrun, seen, fga, storeVars>>

\* The watch delivers an AuthorizationModel event: the cache shows it, and the
\* Store it refers to is enqueued.
DeliverModelEvent(m) ==
  /\ seen[m] # model[m].content
  /\ seen' = [seen EXCEPT ![m] = model[m].content]
  /\ queued' = TRUE
  /\ UNCHANGED <<store, run, fga, modelVars, patient, edits, faults>>

\* Somebody renames the store in OpenFGA by hand.
RenameByHand(i) ==
  /\ i = store.status.storeID
  /\ fga[i].state = "live" /\ fga[i].ours
  /\ fga' = [fga EXCEPT ![i].ours = FALSE]
  /\ UNCHANGED <<seen, storeVars, modelVars, patient, edits, faults>>

Environment ==
  \/ \E core \in Versions, tuples \in SUBSET StoreTuples :
        CreateStoreObject(core, tuples) \/ EditStoreObject(core, tuples)
  \/ DeleteStoreObject
  \/ \E m \in Models : \E content \in Versions, tuples \in SUBSET ModelTuples[m] :
        CreateModelObject(m, content, tuples) \/ EditModelObject(m, content, tuples)
  \/ \E m \in Models : DeleteModelObject(m)
  \/ \E i \in Ids : RenameByHand(i)

----------------------------------------------------------------------------
(* The controller of the Store.                                            *)

StoreStep(from, to) ==
  /\ run.pc = from
  /\ run' = [run EXCEPT !.pc = to]
  /\ UNCHANGED <<store, queued, seen, modelVars, patient, edits, faults>>

\* As StoreStep, and the subroutine changes the status in memory.
StoreStepWith(from, to, status) ==
  /\ run.pc = from
  /\ run' = [run EXCEPT !.pc = to, !.status = status]
  /\ UNCHANGED <<store, queued, seen, modelVars, patient, edits, faults>>

\* The lifecycle reads the object and enters the chain: forward, or, for an
\* object under deletion, the finalizers in reverse.
BeginStore ==
  /\ queued
  /\ run.pc = "idle"
  /\ queued' = FALSE
  /\ run' = IF store.phase = "absent" THEN run
            ELSE [pc |-> CASE store.phase = "deleting" ->
                                IF store.released THEN "related" ELSE "untuple"
                           [] store.phase = "live" /\ store.status.storeID = NoId -> "find"
                           [] OTHER -> "check",
                  core |-> store.core, tuples |-> store.tuples,
                  status |-> store.status, desired |-> NoContent]
  /\ UNCHANGED <<store, seen, fga, modelVars, patient, edits, faults>>

Alive(i) == i \in Ids /\ fga[i].state = "live"

\* Mutant: the lookup by name never finds a store.
FirstPageIgnored == {i \in Ids : Alive(i) /\ PageSize < 0}

\* ListStores is called once: it returns the first page, oldest stores first.
FirstPage == {i \in Ids : Alive(i) /\ Cardinality({j \in 1 .. i : Alive(j)}) <= PageSize}

FindStoreByName ==
  /\ UNCHANGED fga
  /\ \/ \E i \in FirstPage :
           /\ fga[i].ours
           /\ \A j \in FirstPage : fga[j].ours => i <= j
           /\ StoreStepWith("find", "list", [run.status EXCEPT !.storeID = i])
     \/ /\ \A i \in FirstPage : ~ fga[i].ours
        /\ StoreStep("find", "create")

CreateFgaStore ==
  \E i \in Ids :
     /\ fga[i].state = "unused"
     /\ \A j \in Ids : j < i => fga[j].state # "unused"
     /\ fga' = [fga EXCEPT ![i] = [state |-> "live", ours |-> TRUE,
                                   tuples |-> {}, models |-> {}]]
     /\ StoreStepWith("create", "list", [run.status EXCEPT !.storeID = i])

CheckStoreName ==
  /\ Alive(run.status.storeID)
  /\ StoreStep("check", IF fga[run.status.storeID].ours THEN "list" ELSE "rename")
  /\ UNCHANGED fga

UpdateStoreName ==
  /\ Alive(run.status.storeID)
  /\ fga' = [fga EXCEPT ![run.status.storeID].ours = TRUE]
  /\ StoreStep("rename", "list")

\* List the related AuthorizationModels (from the cache) and merge them with
\* the core module.
ListRelatedModels ==
  /\ run.pc = "list"
  /\ run' = [run EXCEPT !.pc = "write",
                        !.desired = [core |-> run.core, modules |-> seen]]
  /\ UNCHANGED <<store, queued, seen, fga, modelVars, patient, edits, faults>>

\* Mutants: the id is recorded though the write is skipped; a model that exists
\* is never replaced.
RecordModelWithoutWrite ==
  /\ Alive(run.status.storeID)
  /\ StoreStepWith("write", "apply", [run.status EXCEPT !.modelID = run.desired])
  /\ UNCHANGED fga

WriteModelOnce ==
  LET id == run.status.storeID IN
  /\ Alive(id)
  /\ IF run.status.modelID # NoContent
     THEN StoreStep("write", "apply") /\ UNCHANGED fga
     ELSE /\ fga' = [fga EXCEPT ![id].models = @ \cup {run.desired}]
          /\ StoreStepWith("write", "apply", [run.status EXCEPT !.modelID = run.desired])

WriteModelIfChanged ==
  LET id == run.status.storeID IN
  /\ Alive(id)
  /\ IF run.status.modelID = run.desired
     THEN StoreStep("write", "apply") /\ UNCHANGED fga
     ELSE /\ fga' = [fga EXCEPT ![id].models = @ \cup {run.desired}]
          /\ StoreStepWith("write", "apply", [run.status EXCEPT !.modelID = run.desired])

\* TupleManager.Apply and Delete: one transaction each, none for an empty set.
Writable(id, tuples) == tuples = {} \/ Alive(id)

Applied(id, tuples) ==
  IF tuples = {} THEN fga ELSE [fga EXCEPT ![id].tuples = @ \cup tuples]

Removed(id, tuples) ==
  IF tuples = {} THEN fga ELSE [fga EXCEPT ![id].tuples = @ \ tuples]

ApplyStoreTuples ==
  /\ Writable(run.status.storeID, run.tuples)
  /\ fga' = Applied(run.status.storeID, run.tuples)
  /\ StoreStep("apply", "prune")

\* Mutants: what the OpenFGA store holds is recorded as managed, whoever wrote it;
\* tuples dropped from the spec stay; new ones are not recorded; all managed
\* tuples are deleted.
PruneAndAdopt ==
  LET stale == run.status.managed \ run.tuples
      id    == run.status.storeID IN
  /\ Writable(id, stale)
  /\ fga' = Removed(id, stale)
  /\ StoreStepWith("prune", "persist", [run.status EXCEPT !.managed = fga'[id].tuples])

PruneNothing ==
  /\ UNCHANGED fga
  /\ StoreStepWith("prune", "persist", [run.status EXCEPT !.managed = run.tuples])

RecordWhatStays ==
  LET stale == run.status.managed \ run.tuples IN
  /\ Writable(run.status.storeID, stale)
  /\ fga' = Removed(run.status.storeID, stale)
  /\ StoreStepWith("prune", "persist", [run.status EXCEPT !.managed = @ \cap run.tuples])

PruneAllManaged ==
  /\ Writable(run.status.storeID, run.status.managed)
  /\ fga' = Removed(run.status.storeID, run.status.managed)
  /\ StoreStepWith("prune", "persist", [run.status EXCEPT !.managed = run.tuples])

PruneStoreTuples ==
  LET stale == run.status.managed \ run.tuples IN
  /\ Writable(run.status.storeID, stale)
  /\ fga' = Removed(run.status.storeID, stale)
  /\ StoreStepWith("prune", "persist", [run.status EXCEPT !.managed = run.tuples])

PersistStoreStatus ==
  /\ run.pc = "persist"
  /\ store' = [store EXCEPT !.status = run.status]
  /\ run' = Idle
  /\ UNCHANGED <<queued, seen, fga, modelVars, patient, edits, faults>>

FinalizeStoreTuples ==
  /\ Writable(run.status.storeID, run.status.managed)
  /\ fga' = Removed(run.status.storeID, run.status.managed)
  /\ StoreStepWith("untuple", "release", [run.status EXCEPT !.managed = {}])

\* The finalizer of the tuples leaves the object, so a retry starts behind it.
ReleaseTuplesFinalizer ==
  /\ run.pc = "release"
  /\ store' = [store EXCEPT !.released = TRUE]
  /\ run' = [run EXCEPT !.pc = "related"]
  /\ UNCHANGED <<queued, seen, fga, modelVars, patient, edits, faults>>

\* Mutant: related AuthorizationModels do not block the deletion.
RelatedModelsIgnored == \A m \in Models : seen[m] \in Versions \cup {NoVersion}

NoRelatedModels == \A m \in Models : seen[m] = NoVersion

CheckRelatedModels ==
  /\ UNCHANGED fga
  /\ \/ run.status.storeID = NoId /\ StoreStep("related", "remove")
     \/ run.status.storeID # NoId /\ NoRelatedModels /\ StoreStep("related", "drop")

\* Mutants: the call is forgotten; NotFound is an error like any other.
SkipDeleteFgaStore == UNCHANGED fga /\ StoreStep("drop", "remove")

DeleteExistingFgaStore ==
  LET id == run.status.storeID IN
  /\ Alive(id)
  /\ fga' = [fga EXCEPT ![id] = [state |-> "deleted", ours |-> @.ours,
                                 tuples |-> {}, models |-> {}]]
  /\ StoreStep("drop", "remove")

\* A store that is gone already is deleted: the NotFound error is ignored.
DeleteFgaStore ==
  LET id == run.status.storeID IN
  /\ fga' = IF Alive(id)
            THEN [fga EXCEPT ![id] = [state |-> "deleted", ours |-> @.ours,
                                      tuples |-> {}, models |-> {}]]
            ELSE fga
  /\ StoreStep("drop", "remove")

\* The last finalizer goes and the API server removes the object.
RemoveStoreObject ==
  /\ run.pc = "remove"
  /\ store' = NoStore
  /\ run' = Idle
  /\ UNCHANGED <<queued, seen, fga, modelVars, patient, edits, faults>>

\* The reconcile ends early and is retried. What it put into the status is
\* written back, or lost with the process or the failed write.
EndStoreRun ==
  /\ \/ store' = [store EXCEPT !.status = run.status]
     \/ UNCHANGED store
  /\ run' = Idle
  /\ queued' = TRUE
  /\ UNCHANGED <<seen, fga, modelVars, patient, edits>>

StoreFault ==
  /\ run.pc # "idle"
  /\ faults < MaxFaults[patient] /\ faults' = faults + 1
  /\ EndStoreRun

\* The code returns an error of its own accord, or OpenFGA refuses the call.
StoreRefused ==
  /\ \/ run.pc = "related" /\ run.status.storeID # NoId /\ ~ NoRelatedModels
     \/ run.pc \in {"check", "rename", "write"} /\ ~ Alive(run.status.storeID)
     \/ run.pc = "apply" /\ ~ Writable(run.status.storeID, run.tuples)
     \/ run.pc = "prune"
        /\ ~ Writable(run.status.storeID, run.status.managed \ run.tuples)
     \/ run.pc = "untuple" /\ ~ Writable(run.status.storeID, run.status.managed)
  /\ UNCHANGED faults
  /\ EndStoreRun

StoreWorker ==
  \/ BeginStore \/ FindStoreByName \/ CreateFgaStore \/ CheckStoreName
  \/ UpdateStoreName \/ ListRelatedModels \/ WriteModelIfChanged
  \/ ApplyStoreTuples \/ PruneStoreTuples \/ PersistStoreStatus
  \/ FinalizeStoreTuples \/ ReleaseTuplesFinalizer \/ CheckRelatedModels 
  \/ DeleteFgaStore \/ RemoveStoreObject \/ StoreRefused

----------------------------------------------------------------------------
(* The controller of the AuthorizationModels: only their tuples; what they *)
(* contribute to the authorization model is merged by the Store's.         *)

ModelStep(m, from, to) ==
  /\ mrun[m].pc = from
  /\ mrun' = [mrun EXCEPT ![m].pc = to]
  /\ UNCHANGED <<store, queued, run, seen, model, mqueued, patient, edits, faults>>

BeginModel(m) ==
  /\ m \in mqueued
  /\ mrun[m].pc = "idle"
  /\ mqueued' = mqueued \ {m}
  /\ mrun' = IF model[m].phase = "absent" THEN mrun
             ELSE [mrun EXCEPT ![m] = [pc |-> "get",
                                       deleting |-> model[m].phase = "deleting",
                                       tuples |-> model[m].tuples,
                                       managed |-> model[m].managed,
                                       storeID |-> NoId]]
  /\ UNCHANGED <<storeVars, seen, fga, model, patient, edits, faults>>

\* Mutant: a Store under deletion no longer serves its models.
GetLiveStoreOfModel(m) ==
  /\ mrun[m].pc = "get"
  /\ store.phase = "live"
  /\ mrun' = [mrun EXCEPT ![m].pc = IF mrun[m].deleting THEN "untuple" ELSE "apply",
                          ![m].storeID = store.status.storeID]
  /\ UNCHANGED <<storeVars, seen, fga, model, mqueued, patient, edits, faults>>

\* The tuples go to whichever OpenFGA store the Store's status names now.
GetStoreOfModel(m) ==
  /\ mrun[m].pc = "get"
  /\ store.phase # "absent"
  /\ mrun' = [mrun EXCEPT ![m].pc = IF mrun[m].deleting THEN "untuple" ELSE "apply",
                          ![m].storeID = store.status.storeID]
  /\ UNCHANGED <<storeVars, seen, fga, model, mqueued, patient, edits, faults>>

ApplyModelTuples(m) ==
  /\ Writable(mrun[m].storeID, mrun[m].tuples)
  /\ fga' = Applied(mrun[m].storeID, mrun[m].tuples)
  /\ ModelStep(m, "apply", "prune")

PruneModelTuples(m) ==
  LET stale == mrun[m].managed \ mrun[m].tuples IN
  /\ Writable(mrun[m].storeID, stale)
  /\ fga' = Removed(mrun[m].storeID, stale)
  /\ ModelStep(m, "prune", "persist")

PersistModelStatus(m) ==
  /\ mrun[m].pc = "persist"
  /\ model' = [model EXCEPT ![m].managed = mrun[m].tuples]
  /\ mrun' = [mrun EXCEPT ![m] = IdleM]
  /\ UNCHANGED <<storeVars, seen, fga, mqueued, patient, edits, faults>>

FinalizeModelTuples(m) ==
  /\ Writable(mrun[m].storeID, mrun[m].managed)
  /\ fga' = Removed(mrun[m].storeID, mrun[m].managed)
  /\ ModelStep(m, "untuple", "remove")

RemoveModelObject(m) ==
  /\ mrun[m].pc = "remove"
  /\ model' = [model EXCEPT ![m] = NoModel]
  /\ mrun' = [mrun EXCEPT ![m] = IdleM]
  /\ UNCHANGED <<storeVars, seen, fga, mqueued, patient, edits, faults>>

\* The reconcile ends early: only its last step changes the status.
EndModelRun(m) ==
  /\ mrun' = [mrun EXCEPT ![m] = IdleM]
  /\ mqueued' = mqueued \cup {m}
  /\ UNCHANGED <<storeVars, seen, fga, model, patient, edits>>

ModelFault(m) ==
  /\ mrun[m].pc # "idle"
  /\ faults < MaxFaults[patient] /\ faults' = faults + 1
  /\ EndModelRun(m)

ModelRefused(m) ==
  /\ \/ mrun[m].pc = "get" /\ store.phase = "absent"
     \/ mrun[m].pc = "apply" /\ ~ Writable(mrun[m].storeID, mrun[m].tuples)
     \/ mrun[m].pc = "prune"
        /\ ~ Writable(mrun[m].storeID, mrun[m].managed \ mrun[m].tuples)
     \/ mrun[m].pc = "untuple" /\ ~ Writable(mrun[m].storeID, mrun[m].managed)
  /\ UNCHANGED faults
  /\ EndModelRun(m)

ModelWorker(m) ==
  \/ BeginModel(m) \/ GetStoreOfModel(m) \/ ApplyModelTuples(m)
  \/ PruneModelTuples(m) \/ PersistModelStatus(m) \/ FinalizeModelTuples(m)
  \/ RemoveModelObject(m) \/ ModelRefused(m)

Next ==
  \/ Environment
  \/ StoreWorker \/ StoreFault
  \/ \E m \in Models : DeliverModelEvent(m) \/ ModelWorker(m) \/ ModelFault(m)

Spec == Init /\ [][Next]_vars

\* The workers and the watches run; users and faults owe nothing.
Fairness ==
  /\ WF_vars(StoreWorker)
  /\ \A m \in Models : WF_vars(ModelWorker(m)) /\ WF_vars(DeliverModelEvent(m))

FairSpec == Spec /\ Fairness

----------------------------------------------------------------------------
(* Properties.                                                             *)

\* At most one live store in OpenFGA carries this Store's name, however often
\* a reconcile dies between CreateStore and the write of status.storeId
\* (Process looks the store up by name first).
NoDuplicateStore ==
  \A i, j \in Ids : Alive(i) /\ Alive(j) /\ fga[i].ours /\ fga[j].ours => i = j

\* The status of a live Store never names a store that OpenFGA does not have,
\* and never an authorization model that was not written to that store: both
\* ids survive crashes, retries, and deletion and re-creation of the object.
StatusNamesWhatExists ==
  store.phase = "live" /\ store.status.storeID # NoId =>
     /\ Alive(store.status.storeID)
     /\ store.status.modelID # NoContent =>
          store.status.modelID \in fga[store.status.storeID].models

\* What some spec, some status or some reconcile under way still knows of.
AccountedFor ==
  store.tuples \cup store.status.managed \cup run.status.managed \cup run.tuples
     \cup UNION {model[m].tuples \cup model[m].managed \cup mrun[m].tuples : m \in Models}

\* No tuple is left behind by patient users: one that is in the OpenFGA store is
\* in the spec or the managedTuples of an object (or of the reconcile under way),
\* so that some later reconcile or finalizer takes it out.
NoUntrackedTuple ==
  patient => \A i \in Ids : Alive(i) => fga[i].tuples \subseteq AccountedFor

\* The same of all users, as the tests have it (internal/subroutine/tuples_test.go).
NoTupleLeftBehind == \A i \in Ids : Alive(i) => fga[i].tuples \subseteq AccountedFor

\* When the Store object of patient users is gone its store is gone from OpenFGA.
NoOrphanedStore ==
  patient /\ store.phase = "absent" => \A i \in Ids : ~ (Alive(i) /\ fga[i].ours)

\* OpenFGA never loses a store while an AuthorizationModel of patient users
\* refers to it: its tuples would vanish unseen, and the object could no longer
\* be finalized.
DeletionDeniedWhileReferenced ==
  [][patient => \A i \in Ids : Alive(i) /\ ~ Alive(i)' =>
        \A m \in Models : model[m].phase = "absent"]_vars

\* Once edits stop, a live Store ends up with an authorization model merged
\* from its core module and every AuthorizationModel that refers to it, with
\* its tuples in the OpenFGA store its status names, and no stale managed tuple
\* there.
LiveStoreConverges ==
  <>[](store.phase = "live" =>
         /\ store.status.modelID = [core |-> store.core,
                                    modules |-> [m \in Models |-> model[m].content]]
         /\ Alive(store.status.storeID)
         /\ fga[store.status.storeID].tuples \cap
              (store.tuples \cup store.status.managed) = store.tuples)

\* With patient users the deletion of an AuthorizationModel completes, and a
\* Store under deletion goes away unless an AuthorizationModel stays.
StoreDeletionsComplete ==
  patient =>
    /\ \A m \in Models : model[m].phase = "deleting" ~> model[m].phase = "absent"
    /\ \/ <>[](store.phase # "deleting")
       \/ []<>(\E m \in Models : model[m].phase = "live")
=============================================================================
