-------------------------- MODULE ModelGeneration --------------------------
(***************************************************************************)
(* The APIBinding controller, which generates one AuthorizationModel per   *)
(* resource schema of the bound APIExport and per organization, and takes  *)
(* them away with the last binding; and the finalizer of the AccountInfo   *)
(* object each workspace has, which must outlive the bindings.             *)
(*                                                                         *)
(* Several reconciles run at a time, each on a binding of its own. A       *)
(* reconcile reads and writes other objects in steps of their own.         *)
(***************************************************************************)
EXTENDS Integers, FiniteSets

CONSTANTS
  Bindings,      \* names an APIBinding may have, over all workspaces
  Workspaces,
  Orgs,
  WorkspaceOf,   \* [Bindings -> Workspaces]
  OrgOf,         \* [Workspaces -> Orgs]
  ExportOf,      \* [Bindings -> APIExports]: spec.reference.export
  SchemasOf,     \* resource schemas of each APIExport
  Internal,      \* APIExports of platform-mesh and kcp, for which nothing is generated
  Exempt,        \* bindings whose name mentions platform-mesh.io or kcp.io
  Workers,       \* bound: reconciles at a time (MaxConcurrentReconciles)
  MaxFaults,     \* bound: reconciles that fail or are lost half-way, by patience
  MaxBinds,      \* bound: bindings created
  Patience       \* whether users wait for the controllers: the values to consider

ASSUME ConstantsAssumption ==
  /\ IsFiniteSet(Bindings)
  /\ WorkspaceOf \in [Bindings -> Workspaces]
  /\ OrgOf \in [Workspaces -> Orgs]
  /\ \A b \in Bindings : IsFiniteSet(SchemasOf[ExportOf[b]])
  /\ Workers \in Nat \ {0} /\ MaxFaults \in [BOOLEAN -> Nat] /\ MaxBinds \in Nat
  /\ Patience \subseteq BOOLEAN

VARIABLES
  binding,   \* phase of each APIBinding
  guarded,   \* bindings that carry the apibinding finalizer
  info,      \* phase of the AccountInfo of each workspace
  model,     \* phase of each AuthorizationModel
  queued,    \* bindings waiting in the controller's queue
  run,       \* the reconcile of each binding
  crossed,   \* models whose last finalizers crossed (only observed)
  patient,   \* users unbind what was reconciled, and rebind when all is gone
  binds, faults

vars == <<binding, guarded, info, model, queued, run, crossed, patient, binds, faults>>

Schemas   == UNION {SchemasOf[ExportOf[b]] : b \in Bindings}
ModelKeys == Schemas \X Orgs

\* Names of the models a binding calls for: schema and organization.
OrgOfBinding(b) == OrgOf[WorkspaceOf[b]]
KeysOf(b)       == SchemasOf[ExportOf[b]] \X {OrgOfBinding(b)}

PCs  == {"idle", "read", "write", "list", "count", "delete", "release"}
Idle == [pc |-> "idle", others |-> {}, todo |-> {}]

TypeOK ==
  /\ binding \in [Bindings -> {"absent", "live", "deleting"}]
  /\ guarded \in SUBSET Bindings
  /\ info \in [Workspaces -> {"live", "deleting", "cleared", "gone"}]
  /\ model \in [ModelKeys -> {"absent", "live", "deleting"}]
  /\ queued \in SUBSET Bindings
  /\ run \in [Bindings -> [pc : PCs, others : SUBSET Bindings, todo : SUBSET Schemas]]
  /\ crossed \in SUBSET ModelKeys
  /\ binds \in 0 .. MaxBinds
  /\ patient \in BOOLEAN
  /\ faults \in 0 .. MaxFaults[patient]

Init ==
  /\ binding = [b \in Bindings |-> "absent"]
  /\ guarded = {}
  /\ info = [w \in Workspaces |-> "live"]
  /\ model = [k \in ModelKeys |-> "absent"]
  /\ queued = {}
  /\ run = [b \in Bindings |-> Idle]
  /\ crossed = {}
  /\ patient \in Patience
  /\ binds = 0 /\ faults = 0

----------------------------------------------------------------------------
(* Users and the API server.                                               *)

\* Somebody else's finalizer is taking away what this binding calls for.
Contested(b) ==
  \/ \E k \in KeysOf(b) : model[k] = "deleting"
  \/ \E c \in Bindings : binding[c] = "deleting" /\ KeysOf(c) = KeysOf(b)

Bind(b) ==
  /\ binding[b] = "absent" /\ binds < MaxBinds
  /\ info[WorkspaceOf[b]] = "live"
  /\ patient => ~ Contested(b)
  /\ binding' = [binding EXCEPT ![b] = "live"]
  /\ queued' = queued \cup {b}
  /\ binds' = binds + 1
  /\ UNCHANGED <<patient, crossed, guarded, info, model, run, faults>>

\* An object without finalizers is gone at once.
DeletedPhase(b) == IF b \in guarded THEN "deleting" ELSE "absent"

Unbind(b) ==
  /\ binding[b] = "live"
  /\ patient => b \in guarded \cup Exempt
  /\ binding' = [binding EXCEPT ![b] = DeletedPhase(b)]
  /\ queued' = queued \cup {b}
  /\ UNCHANGED <<patient, crossed, guarded, info, model, run, binds, faults>>

BindingsIn(w) == {b \in Bindings : WorkspaceOf[b] = w}

\* The deletion of a workspace starts with any object in it: here with its
\* AccountInfo; the bindings follow one by one.
DeleteWorkspace(w) ==
  /\ info[w] = "live"
  /\ patient => {b \in BindingsIn(w) : binding[b] = "live"} \subseteq guarded \cup Exempt
  /\ info' = [info EXCEPT ![w] = "deleting"]
  /\ UNCHANGED <<patient, crossed, binding, guarded, model, queued, run, binds, faults>>

\* The AuthorizationModel controller finalizes a model under deletion.
ModelGone(k) ==
  /\ model[k] = "deleting"
  /\ model' = [model EXCEPT ![k] = "absent"]
  /\ UNCHANGED <<patient, crossed, binding, guarded, info, queued, run, binds, faults>>

----------------------------------------------------------------------------
(* The AccountInfo finalizer: it lets go when no binding of the workspace  *)
(* carries the finalizer, and looks again five seconds later otherwise.    *)

\* Mutant: a binding under deletion does not hold the AccountInfo back.
CheckLiveBindings(w) ==
  /\ info[w] = "deleting"
  /\ \A b \in BindingsIn(w) \cap guarded : binding[b] = "deleting"
  /\ info' = [info EXCEPT ![w] = "cleared"]
  /\ UNCHANGED <<patient, crossed, binding, guarded, model, queued, run, binds, faults>>

CheckBindings(w) ==
  /\ info[w] = "deleting"
  /\ BindingsIn(w) \cap guarded = {}
  /\ info' = [info EXCEPT ![w] = "cleared"]
  /\ UNCHANGED <<patient, crossed, binding, guarded, model, queued, run, binds, faults>>

ReleaseAccountInfo(w) ==
  /\ info[w] = "cleared"
  /\ info' = [info EXCEPT ![w] = "gone"]
  /\ UNCHANGED <<patient, crossed, binding, guarded, model, queued, run, binds, faults>>

----------------------------------------------------------------------------
(* The reconcile of a binding.                                             *)

Goto(b, from, to) ==
  /\ run[b].pc = from
  /\ run' = [run EXCEPT ![b].pc = to]

\* The lifecycle adds the finalizer before the first subroutine runs. Whether a
\* binding gets one depends on its own name, not on the export it binds.
Begin(b) ==
  /\ b \in queued
  /\ run[b].pc = "idle"
  /\ Cardinality({c \in Bindings : run[c].pc # "idle"}) < Workers
  /\ queued' = queued \ {b}
  /\ \/ binding[b] = "absent" /\ UNCHANGED <<guarded, run>>
     \/ /\ binding[b] = "live"
        /\ guarded' = guarded \cup ({b} \ Exempt)
        /\ Goto(b, "idle", "read")
     \/ binding[b] = "deleting" /\ Goto(b, "idle", "list") /\ UNCHANGED guarded
  /\ UNCHANGED <<patient, crossed, binding, info, model, binds, faults>>

Finish(b) == run' = [run EXCEPT ![b] = Idle]

\* Process: AccountInfo, APIExport, then one model per schema.
ReadForProcess(b) ==
  /\ run[b].pc = "read"
  /\ \/ ExportOf[b] \in Internal /\ Finish(b)
     \/ /\ ExportOf[b] \notin Internal
        /\ info[WorkspaceOf[b]] # "gone"
        /\ run' = [run EXCEPT ![b].pc = "write", ![b].todo = SchemasOf[ExportOf[b]]]
  /\ UNCHANGED <<patient, crossed, binding, guarded, info, model, queued, binds, faults>>

\* CreateOrUpdate: a model that exists is left as it is, also one under deletion.
WriteModel(b) ==
  /\ run[b].pc = "write"
  /\ \E s \in run[b].todo :
        LET k == <<s, OrgOfBinding(b)>> IN
        /\ model' = [model EXCEPT ![k] = IF @ = "absent" THEN "live" ELSE @]
        /\ run' = IF run[b].todo = {s} THEN [run EXCEPT ![b] = Idle]
                  ELSE [run EXCEPT ![b].todo = @ \ {s}]
  /\ UNCHANGED <<patient, crossed, binding, guarded, info, queued, binds, faults>>

Present == {c \in Bindings : binding[c] # "absent"}

\* Finalize: all bindings of all workspaces, this one and those under deletion
\* included.
ListBindings(b) ==
  /\ run[b].pc = "list"
  /\ run' = [run EXCEPT ![b].pc = "count", ![b].others = Present]
  /\ UNCHANGED <<patient, crossed, binding, guarded, info, model, queued, binds, faults>>

\* Bindings of the same export in workspaces of the same organization; those in
\* a workspace without AccountInfo do not count.
Counted(b) ==
  {c \in run[b].others : /\ ExportOf[c] = ExportOf[b]
                         /\ info[WorkspaceOf[c]] # "gone"
                         /\ OrgOfBinding(c) = OrgOfBinding(b)}

\* Only bindings under deletion are left, and each keeps the models for another.
Crossing(b) ==
  LET others == Counted(b) \ {b} IN
  IF others # {} /\ \A c \in others : binding[c] # "live" THEN KeysOf(b) ELSE {}

\* Mutants: the binding under deletion is not counted; or counted twice; names
\* of models are taken for names of schemas.
CountAnyBinding(b) ==
  /\ run[b].pc = "count"
  /\ info[WorkspaceOf[b]] # "gone"
  /\ run' = IF Cardinality(Counted(b)) > 0
            THEN [run EXCEPT ![b].pc = "release"]
            ELSE [run EXCEPT ![b].pc = "delete", ![b].todo = SchemasOf[ExportOf[b]]]
  /\ crossed' = crossed \cup Crossing(b)
  /\ UNCHANGED <<patient, binding, guarded, info, model, queued, binds, faults>>

CountThirdBinding(b) ==
  /\ run[b].pc = "count"
  /\ info[WorkspaceOf[b]] # "gone"
  /\ run' = IF Cardinality(Counted(b)) > 2
            THEN [run EXCEPT ![b].pc = "release"]
            ELSE [run EXCEPT ![b].pc = "delete", ![b].todo = SchemasOf[ExportOf[b]]]
  /\ crossed' = crossed \cup Crossing(b)
  /\ UNCHANGED <<patient, binding, guarded, info, model, queued, binds, faults>>

CountAndNameModels(b) ==
  /\ run[b].pc = "count"
  /\ info[WorkspaceOf[b]] # "gone"
  /\ run' = IF Cardinality(Counted(b)) > 1
            THEN [run EXCEPT ![b].pc = "release"]
            ELSE [run EXCEPT ![b].pc = "delete", ![b].todo = KeysOf(b)]
  /\ crossed' = crossed \cup Crossing(b)
  /\ UNCHANGED <<patient, binding, guarded, info, model, queued, binds, faults>>

CountBindings(b) ==
  /\ run[b].pc = "count"
  /\ info[WorkspaceOf[b]] # "gone"
  /\ run' = IF Cardinality(Counted(b)) > 1
            THEN [run EXCEPT ![b].pc = "release"]
            ELSE [run EXCEPT ![b].pc = "delete", ![b].todo = SchemasOf[ExportOf[b]]]
  /\ crossed' = crossed \cup Crossing(b)
  /\ UNCHANGED <<patient, binding, guarded, info, model, queued, binds, faults>>

\* Mutants: a model that is gone already is an error; the organization is not
\* part of a model's name.
DeleteExistingModel(b) ==
  /\ run[b].pc = "delete"
  /\ \E s \in run[b].todo :
        LET k == <<s, OrgOfBinding(b)>> IN
        /\ model[k] # "absent"
        /\ model' = [model EXCEPT ![k] = "deleting"]
        /\ run' = [run EXCEPT ![b].todo = @ \ {s},
                              ![b].pc = IF run[b].todo = {s} THEN "release" ELSE @]
  /\ UNCHANGED <<patient, crossed, binding, guarded, info, queued, binds, faults>>

DeleteModelOfSchema(b) ==
  /\ run[b].pc = "delete"
  /\ \E s \in run[b].todo :
        LET k == <<s, OrgOfBinding(b)>> IN
        /\ model' = [m \in ModelKeys |->
                       IF m[1] = s /\ model[m] = "live" THEN "deleting" ELSE model[m]]
        /\ run' = [run EXCEPT ![b].todo = @ \ {s},
                              ![b].pc = IF run[b].todo = {s} THEN "release" ELSE @]
  /\ UNCHANGED <<patient, crossed, binding, guarded, info, queued, binds, faults>>

\* A model that is gone already is passed over.
DeleteModel(b) ==
  /\ run[b].pc = "delete"
  /\ \E s \in run[b].todo :
        LET k == <<s, OrgOfBinding(b)>> IN
        /\ model' = [model EXCEPT ![k] = IF @ = "live" THEN "deleting" ELSE @]
        /\ run' = [run EXCEPT ![b].todo = @ \ {s},
                              ![b].pc = IF run[b].todo = {s} THEN "release" ELSE @]
  /\ UNCHANGED <<patient, crossed, binding, guarded, info, queued, binds, faults>>

\* The finalizer goes, and the object with it.
Release(b) ==
  /\ run[b].pc = "release"
  /\ binding' = [binding EXCEPT ![b] = "absent"]
  /\ guarded' = guarded \ {b}
  /\ Finish(b)
  /\ UNCHANGED <<patient, crossed, info, model, queued, binds, faults>>

\* An error ends the reconcile, and it is retried.
Fail(b) ==
  /\ Finish(b)
  /\ queued' = queued \cup {b}
  /\ UNCHANGED <<patient, crossed, binding, guarded, info, model, binds>>

\* The AccountInfo is gone: neither Process nor Finalize can go on.
Refuse(b) ==
  /\ \/ run[b].pc = "count"
     \/ run[b].pc = "read" /\ ExportOf[b] \notin Internal
  /\ info[WorkspaceOf[b]] = "gone"
  /\ UNCHANGED faults
  /\ Fail(b)

Fault(b) ==
  /\ run[b].pc # "idle"
  /\ faults < MaxFaults[patient] /\ faults' = faults + 1
  /\ Fail(b)

Step(b) ==
  \/ ReadForProcess(b) \/ WriteModel(b) \/ ListBindings(b) \/ CountBindings(b)
  \/ DeleteModel(b) \/ Release(b) \/ Refuse(b)

Next ==
  \/ \E b \in Bindings : Bind(b) \/ Unbind(b) \/ Begin(b) \/ Step(b) \/ Fault(b)
  \/ \E w \in Workspaces : DeleteWorkspace(w) \/ CheckBindings(w) \/ ReleaseAccountInfo(w)
  \/ \E k \in ModelKeys : ModelGone(k)

Spec == Init /\ [][Next]_vars

\* The queue is first in, first out: whoever waits gets a worker in the end.
\* Requeued finalizers run again, and the deletion of a workspace goes on.
FairSpec ==
  /\ Spec
  /\ \A b \in Bindings :
       /\ SF_vars(Begin(b)) /\ WF_vars(Step(b))
       /\ WF_vars(info[WorkspaceOf[b]] # "live" /\ Unbind(b))
  /\ \A w \in Workspaces : WF_vars(CheckBindings(w) \/ ReleaseAccountInfo(w))
  /\ WF_vars(\E k \in ModelKeys : ModelGone(k))

----------------------------------------------------------------------------
(* Properties.                                                             *)

Generates(b) == ExportOf[b] \notin Internal

BeingDeleted(w) ==
  info[w] = "deleting" \/ \E b \in BindingsIn(w) : binding[b] = "deleting"

CalledFor(k) == \E b \in Bindings : binding[b] # "absent" /\ Generates(b) /\ k \in KeysOf(b)

\* The last binding of an export in an organization takes the models with it
\* (Finalize, "delete model in Finalize if last binding"): a live model always
\* has a binding that calls for it.
NoLeakedModel == \A k \in ModelKeys : model[k] = "live" => CalledFor(k)

\* Two conditions under which the next two hold, on what is bound in the organizations.
\* Bindings whose name exempts them from the finalizer bind internal exports only:
\* otherwise nothing takes away what is generated for them.
ExemptAreInternal == \A b \in Bindings \cap Exempt : ExportOf[b] \in Internal

\* Exports share no schema: a finalizer counts the bindings of its own export only.
SchemasApart ==
  \A b, c \in Bindings :
    SchemasOf[ExportOf[b]] \cap SchemasOf[ExportOf[c]] # {} => ExportOf[b] = ExportOf[c]

\* Finalize leaks a model in one way only, when the finalizers of the last
\* bindings that call for it count each other; faults and retries leak nothing.
OnlyCrossingLeaks ==
  patient => \A k \in ModelKeys \ crossed : model[k] = "live" => CalledFor(k)

\* A binding that was reconciled and is in use has all its models: no other
\* binding's finalizer took them away ("skip Finalize if other bindings exist").
BoundModelsExist ==
  patient => \A b \in Bindings :
     binding[b] = "live" /\ Generates(b) /\ run[b].pc = "idle" /\ b \notin queued =>
        \A k \in KeysOf(b) : model[k] = "live"

\* The AccountInfo outlives the finalizers that read it, so none gets stuck.
AccountInfoOutlivesBindings ==
  patient => \A b \in guarded : info[WorkspaceOf[b]] # "gone"

\* A model goes only while a binding that calls for it, in its own organization,
\* is under deletion, however reconciles interleave, fail and are repeated.
ModelsFallWithTheirBindings ==
  [][\A k \in ModelKeys : model[k] = "live" /\ model'[k] # "live" =>
        \E b \in Bindings : binding[b] = "deleting" /\ k \in KeysOf(b)]_vars

\* The deletion of bindings and of the AccountInfo in a workspace comes to an end,
\* in whatever order they are deleted: none waits for what is gone already.
DeletionsComplete ==
  \A w \in Workspaces : patient /\ BeingDeleted(w) ~> ~ BeingDeleted(w)
=============================================================================
