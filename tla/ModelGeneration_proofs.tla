----------------------- MODULE ModelGeneration_proofs -----------------------
(***************************************************************************)
(* Proofs about ModelGeneration, for any number of bindings, workspaces,   *)
(* organizations, schemas and workers, and any number of faults; and about *)
(* the group in the names it generates.                                    *)
(***************************************************************************)
EXTENDS ModelGeneration, CapGroup, FiniteSetTheorems, TLAPS

Runs == [pc : PCs, others : SUBSET Bindings, todo : SUBSET Schemas]

LEMMA KeyFacts ==
  ASSUME NEW b \in Bindings
  PROVE  /\ WorkspaceOf[b] \in Workspaces
         /\ OrgOfBinding(b) \in Orgs
         /\ SchemasOf[ExportOf[b]] \subseteq Schemas
         /\ \A s \in Schemas : <<s, OrgOfBinding(b)>> \in ModelKeys
BY ConstantsAssumption DEF ConstantsAssumption, OrgOfBinding, Schemas, ModelKeys

LEMMA RunUpdate ==
  ASSUME TypeOK, NEW b \in Bindings, NEW pc \in PCs, NEW todo \in SUBSET Schemas
  PROVE  /\ [run EXCEPT ![b].pc = pc] \in [Bindings -> Runs]
         /\ [run EXCEPT ![b].pc = pc, ![b].todo = todo] \in [Bindings -> Runs]
         /\ [run EXCEPT ![b].todo = todo, ![b].pc = pc] \in [Bindings -> Runs]
         /\ run[b].pc \in PCs /\ run[b].todo \in SUBSET Schemas
<1>1. run \in [Bindings -> Runs]
  BY DEF TypeOK, Runs
<1>2. run[b] \in Runs
  BY <1>1
<1>3. /\ [run[b] EXCEPT !.pc = pc] \in Runs
      /\ [run[b] EXCEPT !.pc = pc, !.todo = todo] \in Runs
      /\ [run[b] EXCEPT !.todo = todo, !.pc = pc] \in Runs
  BY <1>2 DEF Runs
<1>4. \A r \in Runs : [run EXCEPT ![b] = r] \in [Bindings -> Runs]
  BY <1>1
<1>5. [run EXCEPT ![b].pc = pc] \in [Bindings -> Runs]
  BY <1>3, <1>4
<1>6. [run EXCEPT ![b].pc = pc, ![b].todo = todo] \in [Bindings -> Runs]
  BY <1>1, <1>3, <1>4, Zenon
<1>7. [run EXCEPT ![b].todo = todo, ![b].pc = pc] \in [Bindings -> Runs]
  BY <1>1, <1>3, <1>4, Zenon
<1> QED BY <1>2, <1>5, <1>6, <1>7 DEF Runs

LEMMA StepType ==
  ASSUME TypeOK, NEW b \in Bindings, Step(b)
  PROVE  TypeOK'
<1> USE KeyFacts
<1>1. Idle \in Runs
  BY DEF Idle, Runs, PCs
<1>2. CASE ReadForProcess(b)
  BY <1>1, <1>2 DEF ReadForProcess, Finish, TypeOK, Runs, PCs
<1>3. CASE WriteModel(b)
  <2>1. PICK s \in run[b].todo :
           /\ model' = [model EXCEPT ![<<s, OrgOfBinding(b)>>] =
                           IF @ = "absent" THEN "live" ELSE @]
           /\ run' = IF run[b].todo = {s} THEN [run EXCEPT ![b] = Idle]
                     ELSE [run EXCEPT ![b].todo = @ \ {s}]
    BY <1>3 DEF WriteModel
  <2>2. model' \in [ModelKeys -> {"absent", "live", "deleting"}]
    BY <2>1 DEF TypeOK
  <2>3. run' \in [Bindings -> Runs]
    BY <1>1, <2>1 DEF TypeOK, Runs
  <2> QED BY <1>3, <2>2, <2>3 DEF WriteModel, TypeOK, Runs
<1>4. CASE ListBindings(b)
  <2>1. "count" \in PCs /\ Present \in SUBSET Bindings
    BY DEF PCs, Present
  <2>2. run' = [run EXCEPT ![b].pc = "count", ![b].others = Present]
    BY <1>4 DEF ListBindings
  <2>3. run' \in [Bindings -> Runs]
    BY <2>1, <2>2 DEF TypeOK, Runs
  <2> QED BY <1>4, <2>3 DEF ListBindings, TypeOK, Runs
<1>5. CASE CountBindings(b)
  <2>1. "release" \in PCs /\ "delete" \in PCs
    BY DEF PCs
  <2>2. run' \in [Bindings -> Runs]
    <3>1. CASE Cardinality(Counted(b)) > 1
      BY <1>5, <2>1, <3>1, RunUpdate DEF CountBindings
    <3>2. CASE ~ (Cardinality(Counted(b)) > 1)
      BY <1>5, <2>1, <3>2, RunUpdate DEF CountBindings
    <3> QED BY <3>1, <3>2
  <2>3. Crossing(b) \in SUBSET ModelKeys
    BY DEF Crossing, KeysOf, ModelKeys, Schemas
  <2> QED BY <1>5, <2>2, <2>3 DEF CountBindings, TypeOK, Runs
<1>6. CASE DeleteModel(b)
  <2>1. PICK s \in run[b].todo :
           /\ model' = [model EXCEPT ![<<s, OrgOfBinding(b)>>] =
                           IF @ = "live" THEN "deleting" ELSE @]
           /\ run' = [run EXCEPT ![b].todo = @ \ {s},
                                 ![b].pc = IF run[b].todo = {s} THEN "release" ELSE @]
    BY <1>6 DEF DeleteModel
  <2>2. model' \in [ModelKeys -> {"absent", "live", "deleting"}]
    BY <2>1 DEF TypeOK
  <2>3. run' \in [Bindings -> Runs]
    <3>1. run[b].todo \ {s} \in SUBSET Schemas /\ "release" \in PCs /\ run[b].pc \in PCs
      BY RunUpdate DEF PCs
    <3>2. CASE run[b].todo = {s}
      <4>1. run' = [run EXCEPT ![b].todo = run[b].todo \ {s}, ![b].pc = "release"]
        BY <2>1, <3>2
      <4> QED BY <3>1, <4>1, RunUpdate
    <3>3. CASE run[b].todo # {s}
      <4>1. run' = [run EXCEPT ![b].todo = run[b].todo \ {s}, ![b].pc = run[b].pc]
        BY <2>1, <3>3
      <4> QED BY <3>1, <4>1, RunUpdate
    <3> QED BY <3>2, <3>3
  <2> QED BY <1>6, <2>2, <2>3 DEF DeleteModel, TypeOK, Runs
<1>7. CASE Release(b)
  BY <1>1, <1>7 DEF Release, Finish, TypeOK, Runs
<1>8. CASE Refuse(b)
  BY <1>1, <1>8 DEF Refuse, Fail, Finish, TypeOK, Runs
<1> QED BY <1>2, <1>3, <1>4, <1>5, <1>6, <1>7, <1>8 DEF Step

LEMMA NextType ==
  ASSUME TypeOK, [Next]_vars
  PROVE  TypeOK'
<1> USE KeyFacts, ConstantsAssumption DEF ConstantsAssumption
<1>1. Idle \in Runs
  BY DEF Idle, Runs, PCs
<1>2. CASE UNCHANGED vars
  BY <1>2 DEF TypeOK, vars
<1>3. ASSUME NEW b \in Bindings, Bind(b) PROVE TypeOK'
  BY <1>3 DEF Bind, TypeOK
<1>4. ASSUME NEW b \in Bindings, Unbind(b) PROVE TypeOK'
  BY <1>4 DEF Unbind, DeletedPhase, TypeOK
<1>5. ASSUME NEW b \in Bindings, Begin(b) PROVE TypeOK'
  <2>1. run' \in [Bindings -> Runs] /\ guarded' \in SUBSET Bindings
    <3>1. "read" \in PCs /\ "list" \in PCs
      BY DEF PCs
    <3>2. run \in [Bindings -> Runs] /\ guarded \in SUBSET Bindings
      BY DEF TypeOK, Runs
    <3>3. CASE binding[b] = "absent"
      BY <1>5, <3>2, <3>3 DEF Begin
    <3>4. CASE binding[b] = "live"
      <4>1. run' = [run EXCEPT ![b].pc = "read"] /\ guarded' = guarded \cup ({b} \ Exempt)
        BY <1>5, <3>4 DEF Begin, Goto
      <4> QED BY <3>1, <3>2, <4>1, RunUpdate
    <3>5. CASE binding[b] = "deleting"
      <4>1. run' = [run EXCEPT ![b].pc = "list"] /\ guarded' = guarded
        BY <1>5, <3>5 DEF Begin, Goto
      <4> QED BY <3>1, <3>2, <4>1, RunUpdate
    <3> QED BY <1>5, <3>3, <3>4, <3>5 DEF Begin
  <2> QED BY <1>5, <2>1 DEF Begin, TypeOK, Runs
<1>6. ASSUME NEW b \in Bindings, Fault(b) PROVE TypeOK'
  BY <1>1, <1>6 DEF Fault, Fail, Finish, TypeOK, Runs
<1>7. ASSUME NEW w \in Workspaces,
             DeleteWorkspace(w) \/ CheckBindings(w) \/ ReleaseAccountInfo(w)
      PROVE  TypeOK'
  BY <1>7 DEF DeleteWorkspace, CheckBindings, ReleaseAccountInfo, TypeOK
<1>8. ASSUME NEW k \in ModelKeys, ModelGone(k) PROVE TypeOK'
  BY <1>8 DEF ModelGone, TypeOK
<1> QED BY <1>2, <1>3, <1>4, <1>5, <1>6, <1>7, <1>8, StepType DEF Next

LEMMA InitType == Init => TypeOK
BY ConstantsAssumption DEF ConstantsAssumption, Init, TypeOK, Idle, PCs

\* Type correctness of the APIBinding controller and the AccountInfo finalizer.
THEOREM ModelGenerationTypeCorrect == Spec => []TypeOK
BY InitType, NextType, PTL DEF Spec

----------------------------------------------------------------------------
(* The AccountInfo outlives the finalizers that read it.                   *)

\* Inductive: past the check no binding of the workspace has the finalizer, and
\* none is left that could still get one.
AccountInv ==
  /\ \A b \in Bindings : info[WorkspaceOf[b]] \in {"cleared", "gone"} => b \notin guarded
  /\ \A b \in Bindings : binding[b] = "live" /\ info[WorkspaceOf[b]] # "live" =>
        b \in guarded \cup Exempt

LEMMA NextAccount ==
  ASSUME patient, TypeOK, AccountInv, [Next]_vars
  PROVE  AccountInv'
<1> USE KeyFacts
<1>1. CASE UNCHANGED vars
  BY <1>1 DEF AccountInv, vars
<1>2. ASSUME NEW b \in Bindings, Bind(b) PROVE AccountInv'
  BY <1>2 DEF Bind, AccountInv, TypeOK
<1>3. ASSUME NEW b \in Bindings, Unbind(b) PROVE AccountInv'
  BY <1>3 DEF Unbind, DeletedPhase, AccountInv, TypeOK
<1>4. ASSUME NEW b \in Bindings, Begin(b) PROVE AccountInv'
  BY <1>4 DEF Begin, AccountInv, TypeOK
<1>5. ASSUME NEW b \in Bindings, Step(b) PROVE AccountInv'
  <2>1. CASE Release(b)
    BY <1>5, <2>1 DEF Release, AccountInv, TypeOK
  <2>2. CASE ~ Release(b)
    <3>1. UNCHANGED <<binding, guarded, info>>
      BY <1>5, <2>2 DEF Step, ReadForProcess, WriteModel, ListBindings, CountBindings,
                        DeleteModel, Refuse, Fail
    <3> QED BY <3>1 DEF AccountInv
  <2> QED BY <2>1, <2>2
<1>6. ASSUME NEW b \in Bindings, Fault(b) PROVE AccountInv'
  BY <1>6 DEF Fault, Fail, AccountInv
<1>7. ASSUME NEW w \in Workspaces, DeleteWorkspace(w) PROVE AccountInv'
  BY <1>7 DEF DeleteWorkspace, BindingsIn, AccountInv, TypeOK
<1>8. ASSUME NEW w \in Workspaces, CheckBindings(w) PROVE AccountInv'
  BY <1>8 DEF CheckBindings, BindingsIn, AccountInv, TypeOK
<1>9. ASSUME NEW w \in Workspaces, ReleaseAccountInfo(w) PROVE AccountInv'
  BY <1>9 DEF ReleaseAccountInfo, AccountInv, TypeOK
<1>10. ASSUME NEW k \in ModelKeys, ModelGone(k) PROVE AccountInv'
  BY <1>10 DEF ModelGone, AccountInv
<1> QED BY <1>1, <1>2, <1>3, <1>4, <1>5, <1>6, <1>7, <1>8, <1>9, <1>10 DEF Next

LEMMA NextPatient == [Next]_vars => UNCHANGED patient
BY DEF Next, vars, Bind, Unbind, Begin, Fault, Fail, DeleteWorkspace, CheckBindings,
       ReleaseAccountInfo, ModelGone, Step, ReadForProcess, WriteModel, ListBindings,
       CountBindings, DeleteModel, Release, Refuse

\* As long as nobody deletes a workspace before its bindings were reconciled, the
\* AccountInfo stays until no binding of its workspace has the finalizer: no
\* finalizer of a binding is left without the AccountInfo it must read.
THEOREM AccountInfoCorrect == Spec => []AccountInfoOutlivesBindings
<1> DEFINE Inv == patient => AccountInv
<1>1. Init => Inv
  BY KeyFacts DEF Init, AccountInv
<1>2. TypeOK /\ Inv /\ [Next]_vars => Inv'
  BY NextAccount, NextPatient
<1>3. TypeOK /\ Inv => AccountInfoOutlivesBindings
  BY DEF AccountInv, AccountInfoOutlivesBindings, TypeOK
<1> HIDE DEF Inv
<1> QED BY <1>1, <1>2, <1>3, ModelGenerationTypeCorrect, PTL DEF Spec

----------------------------------------------------------------------------
(* Models fall with the bindings that call for them.                       *)

\* Inductive: a reconcile that finalizes works on a binding under deletion, and
\* its list of work names schemas of that binding's export.
FinalizingInv ==
  \A b \in Bindings :
    /\ run[b].pc \in {"list", "count", "delete", "release"} => binding[b] = "deleting"
    /\ run[b].todo \subseteq SchemasOf[ExportOf[b]]

LEMMA StepFinalizing ==
  ASSUME TypeOK, FinalizingInv, NEW b \in Bindings, Step(b)
  PROVE  FinalizingInv'
<1>1. CASE ReadForProcess(b)
  BY <1>1 DEF ReadForProcess, Finish, Idle, FinalizingInv, TypeOK
<1>2. CASE WriteModel(b)
  <2>1. PICK s \in run[b].todo :
           run' = IF run[b].todo = {s} THEN [run EXCEPT ![b] = Idle]
                  ELSE [run EXCEPT ![b].todo = @ \ {s}]
    BY <1>2 DEF WriteModel
  <2> QED BY <1>2, <2>1 DEF WriteModel, Idle, FinalizingInv, TypeOK
<1>3. CASE ListBindings(b)
  BY <1>3 DEF ListBindings, FinalizingInv, TypeOK
<1>4. CASE CountBindings(b)
  BY <1>4 DEF CountBindings, FinalizingInv, TypeOK
<1>5. CASE DeleteModel(b)
  <2>1. PICK s \in run[b].todo :
           run' = [run EXCEPT ![b].todo = @ \ {s},
                              ![b].pc = IF run[b].todo = {s} THEN "release" ELSE @]
    BY <1>5 DEF DeleteModel
  <2> QED BY <1>5, <2>1 DEF DeleteModel, FinalizingInv, TypeOK
<1>6. CASE Release(b)
  BY <1>6 DEF Release, Finish, Idle, FinalizingInv, TypeOK
<1>7. CASE Refuse(b)
  BY <1>7 DEF Refuse, Fail, Finish, Idle, FinalizingInv, TypeOK
<1> QED BY <1>1, <1>2, <1>3, <1>4, <1>5, <1>6, <1>7 DEF Step

\* The reconcile is the only one that works on its binding: nobody else puts a
\* binding back, or takes it away, while its finalizer runs.
LEMMA NextFinalizing ==
  ASSUME TypeOK, FinalizingInv, [Next]_vars
  PROVE  FinalizingInv'
<1>1. CASE UNCHANGED vars
  BY <1>1 DEF FinalizingInv, vars
<1>2. ASSUME NEW b \in Bindings, Bind(b) PROVE FinalizingInv'
  BY <1>2 DEF Bind, FinalizingInv, TypeOK
<1>3. ASSUME NEW b \in Bindings, Unbind(b) PROVE FinalizingInv'
  BY <1>3 DEF Unbind, FinalizingInv, TypeOK
<1>4. ASSUME NEW b \in Bindings, Begin(b) PROVE FinalizingInv'
  BY <1>4 DEF Begin, Goto, FinalizingInv, TypeOK
<1>5. ASSUME NEW b \in Bindings, Fault(b) PROVE FinalizingInv'
  BY <1>5 DEF Fault, Fail, Finish, Idle, FinalizingInv, TypeOK
<1>6. ASSUME NEW w \in Workspaces,
             DeleteWorkspace(w) \/ CheckBindings(w) \/ ReleaseAccountInfo(w)
      PROVE  FinalizingInv'
  BY <1>6 DEF DeleteWorkspace, CheckBindings, ReleaseAccountInfo, FinalizingInv
<1>7. ASSUME NEW k \in ModelKeys, ModelGone(k) PROVE FinalizingInv'
  BY <1>7 DEF ModelGone, FinalizingInv
<1> QED BY <1>1, <1>2, <1>3, <1>4, <1>5, <1>6, <1>7, StepFinalizing DEF Next

\* Only a finalizer that deletes models takes one away.
LEMMA ModelDeleted ==
  ASSUME TypeOK, FinalizingInv, [Next]_vars, NEW k \in ModelKeys,
         \/ model[k] = "live" /\ model'[k] # "live"
         \/ model[k] # "deleting" /\ model'[k] = "deleting"
  PROVE  \E b \in Bindings : run[b].pc = "delete" /\ k \in KeysOf(b) /\ UNCHANGED binding
<1>1. PICK b \in Bindings : DeleteModel(b)
  <2>1. ~ UNCHANGED model
    OBVIOUS
  <2>2. ASSUME NEW j \in ModelKeys, ModelGone(j) PROVE FALSE
    BY <2>2 DEF ModelGone, TypeOK
  <2>3. ASSUME NEW b \in Bindings, WriteModel(b) PROVE FALSE
    <3>1. PICK s \in run[b].todo :
             model' = [model EXCEPT ![<<s, OrgOfBinding(b)>>] =
                          IF @ = "absent" THEN "live" ELSE @]
      BY <2>3 DEF WriteModel
    <3> QED BY <3>1 DEF TypeOK
  <2> QED BY <2>1, <2>2, <2>3 DEF Next, Step, vars, Bind, Unbind, Begin, Fault, Fail,
             DeleteWorkspace, CheckBindings, ReleaseAccountInfo, ReadForProcess,
             ListBindings, CountBindings, Release, Refuse
<1>2. PICK s \in run[b].todo :
         model' = [model EXCEPT ![<<s, OrgOfBinding(b)>>] =
                      IF @ = "live" THEN "deleting" ELSE @]
  BY <1>1 DEF DeleteModel
<1>3. k = <<s, OrgOfBinding(b)>>
  BY <1>2 DEF TypeOK
<1>4. run[b].pc = "delete" /\ s \in SchemasOf[ExportOf[b]] /\ UNCHANGED binding
  BY <1>1, <1>2 DEF DeleteModel, FinalizingInv
<1> QED BY <1>3, <1>4 DEF KeysOf

LEMMA ModelFalls ==
  ASSUME TypeOK, FinalizingInv, [Next]_vars,
         NEW k \in ModelKeys, model[k] = "live", model'[k] # "live"
  PROVE  \E b \in Bindings : binding[b] = "deleting" /\ k \in KeysOf(b)
BY ModelDeleted DEF FinalizingInv

\* However reconciles interleave, fail and are repeated, an AuthorizationModel is
\* deleted only while a binding under deletion calls for it.
THEOREM ModelsFallCorrect == Spec => ModelsFallWithTheirBindings
<1>1. Init => FinalizingInv
  BY DEF Init, Idle, FinalizingInv
<1>2. TypeOK /\ FinalizingInv /\ [Next]_vars => FinalizingInv'
  BY NextFinalizing
<1>3. TypeOK /\ FinalizingInv /\ [Next]_vars =>
        [\A k \in ModelKeys : model[k] = "live" /\ model'[k] # "live" =>
            \E b \in Bindings : binding[b] = "deleting" /\ k \in KeysOf(b)]_vars
  BY ModelFalls
<1> QED BY <1>1, <1>2, <1>3, ModelGenerationTypeCorrect, PTL
        DEF Spec, ModelsFallWithTheirBindings

----------------------------------------------------------------------------
(* Patient users: only crossing finalizers leak, and bound models exist.   *)

\* Bindings of the same export in the same organization.
Alike(b, c) == ExportOf[b] = ExportOf[c] /\ OrgOfBinding(b) = OrgOfBinding(c)

\* A reconcile that writes models works on a binding that will not go before its
\* finalizer has run.
GuardInv ==
  \A b \in Bindings :
    /\ b \in guarded => binding[b] # "absent"
    /\ run[b].pc \in {"read", "write"} => b \in guarded \cup Exempt
    /\ run[b].pc = "write" => Generates(b)

\* b calls for the model, and its finalizer has still to take it away.
Holds(b, k) ==
  /\ Generates(b) /\ k \in KeysOf(b)
  /\ binding[b] # "absent" /\ run[b].pc # "release"
  /\ run[b].pc = "delete" => k[1] \in run[b].todo

HeldInv ==
  \A k \in ModelKeys \ crossed : model[k] = "live" => \E b \in Bindings : Holds(b, k)

\* No binding comes to life behind the back of a finalizer, and one that deletes
\* models is the last of its kind.
LastOK(c) ==
  /\ run[c].pc = "count" =>
       /\ c \in run[c].others
       /\ \A b \in Bindings : Alike(b, c) /\ binding[b] = "live" => b \in run[c].others
  /\ run[c].pc = "delete" /\ Generates(c) =>
       \A b \in Bindings : Alike(b, c) => binding[b] # "live"

LastInv == \A c \in Bindings : LastOK(c)

\* No live binding calls for a model under deletion.
FallenInv ==
  \A k \in ModelKeys, b \in Bindings :
    model[k] = "deleting" /\ Generates(b) /\ k \in KeysOf(b) => binding[b] # "live"

\* The reconcile of b has seen to the model.
Written(b, k) ==
  /\ Generates(b) /\ k \in KeysOf(b) /\ binding[b] = "live"
  /\ \/ run[b].pc = "idle" /\ b \notin queued
     \/ run[b].pc = "write" /\ k[1] \notin run[b].todo

WrittenInv == \A k \in ModelKeys, b \in Bindings : Written(b, k) => model[k] = "live"

BoundInv == LastInv /\ FallenInv /\ WrittenInv

LEMMA AlikeKeys ==
  ASSUME NEW b \in Bindings, NEW c \in Bindings, Alike(b, c)
  PROVE  KeysOf(b) = KeysOf(c) /\ (Generates(b) <=> Generates(c))
BY DEF Alike, KeysOf, Generates

\* Who shares a model shares the export.
LEMMA SharedKey ==
  ASSUME SchemasApart, NEW b \in Bindings, NEW c \in Bindings,
         NEW k, k \in KeysOf(b), k \in KeysOf(c)
  PROVE  Alike(b, c)
BY DEF SchemasApart, KeysOf, Alike

\* What a step of one reconcile does to the reconciles.
LEMMA SetRun ==
  ASSUME TypeOK, NEW b \in Bindings, NEW r, run' = [run EXCEPT ![b] = r]
  PROVE  run'[b] = r /\ \A c \in Bindings \ {b} : run'[c] = run[c]
BY DEF TypeOK

LEMMA NextGuard ==
  ASSUME patient, TypeOK, FinalizingInv, GuardInv, ExemptAreInternal, [Next]_vars
  PROVE  GuardInv'
<1>1. CASE UNCHANGED vars
  BY <1>1 DEF GuardInv, vars
<1>2. ASSUME NEW b \in Bindings, Bind(b) PROVE GuardInv'
  BY <1>2 DEF Bind, GuardInv, TypeOK
<1>3. ASSUME NEW b \in Bindings, Unbind(b) PROVE GuardInv'
  BY <1>3 DEF Unbind, DeletedPhase, GuardInv, TypeOK
<1>4. ASSUME NEW b \in Bindings, Begin(b) PROVE GuardInv'
  BY <1>4 DEF Begin, Goto, GuardInv, TypeOK
<1>5. ASSUME NEW b \in Bindings, Step(b) PROVE GuardInv'
  <2>1. CASE ReadForProcess(b)
    BY <2>1 DEF ReadForProcess, Finish, Idle, GuardInv, Generates, TypeOK
  <2>2. CASE WriteModel(b)
    <3>1. PICK s \in run[b].todo :
             run' = IF run[b].todo = {s} THEN [run EXCEPT ![b] = Idle]
                    ELSE [run EXCEPT ![b].todo = @ \ {s}]
      BY <2>2 DEF WriteModel
    <3> QED
      BY <2>2, <3>1 DEF WriteModel, Idle, GuardInv, TypeOK
  <2>3. CASE ListBindings(b)
    BY <2>3 DEF ListBindings, GuardInv, TypeOK
  <2>4. CASE CountBindings(b)
    BY <2>4 DEF CountBindings, GuardInv, TypeOK
  <2>5. CASE DeleteModel(b)
    <3>1. PICK s \in run[b].todo :
             run' = [run EXCEPT ![b].todo = @ \ {s},
                                ![b].pc = IF run[b].todo = {s} THEN "release" ELSE @]
      BY <2>5 DEF DeleteModel
    <3> QED
      BY <2>5, <3>1 DEF DeleteModel, GuardInv, TypeOK
  <2>6. CASE Release(b)
    BY <2>6 DEF Release, Finish, Idle, GuardInv, FinalizingInv, TypeOK
  <2>7. CASE Refuse(b)
    BY <2>7 DEF Refuse, Fail, Finish, Idle, GuardInv, TypeOK
  <2> QED
    BY <1>5, <2>1, <2>2, <2>3, <2>4, <2>5, <2>6, <2>7 DEF Step
<1>6. ASSUME NEW b \in Bindings, Fault(b) PROVE GuardInv'
  BY <1>6 DEF Fault, Fail, Finish, Idle, GuardInv, TypeOK
<1>7. ASSUME NEW w \in Workspaces,
             DeleteWorkspace(w) \/ CheckBindings(w) \/ ReleaseAccountInfo(w)
      PROVE  GuardInv'
  BY <1>7 DEF DeleteWorkspace, CheckBindings, ReleaseAccountInfo, GuardInv
<1>8. ASSUME NEW k \in ModelKeys, ModelGone(k) PROVE GuardInv'
  BY <1>8 DEF ModelGone, GuardInv
<1> QED
  BY <1>1, <1>2, <1>3, <1>4, <1>5, <1>6, <1>7, <1>8 DEF Next

\* A finalizer that counts more than itself has seen another binding; one that
\* does not has seen no other.
LEMMA CountOthers ==
  ASSUME TypeOK, NEW b \in Bindings
  PROVE  /\ Cardinality(Counted(b)) > 1 => Counted(b) \ {b} # {}
         /\ b \in Counted(b) /\ ~ (Cardinality(Counted(b)) > 1) => Counted(b) = {b}
<1>1. IsFiniteSet(Counted(b))
  <2>1. Counted(b) \subseteq Bindings /\ IsFiniteSet(Bindings)
    BY ConstantsAssumption DEF ConstantsAssumption, Counted, TypeOK
  <2> QED
    BY <2>1, FS_Subset
<1>2. IsFiniteSet({b}) /\ Cardinality({b}) = 1 /\ IsFiniteSet({}) /\ Cardinality({}) = 0
  BY FS_Singleton, FS_EmptySet
<1>3. Cardinality(Counted(b)) \in Nat
  BY <1>1, FS_CardinalityType
<1>4. ASSUME Cardinality(Counted(b)) > 1 PROVE Counted(b) \ {b} # {}
  <2> SUFFICES ASSUME Counted(b) \subseteq {b} PROVE FALSE
    OBVIOUS
  <2>1. Cardinality(Counted(b)) <= 1
    BY <1>2, FS_Subset
  <2> QED
    BY <1>3, <1>4, <2>1
<1>5. ASSUME b \in Counted(b), ~ (Cardinality(Counted(b)) > 1) PROVE Counted(b) = {b}
  <2> SUFFICES ASSUME NEW c \in Counted(b), c # b PROVE FALSE
    BY <1>5
  <2>1. IsFiniteSet({b, c}) /\ Cardinality({b, c}) = 2
    <3>1. {b} \cup {c} = {b, c} /\ c \notin {b}
      BY <1>5
    <3>2. 1 + 1 = 2
      OBVIOUS
    <3> QED
      BY <1>2, <3>1, <3>2, FS_AddElement
  <2>2. 2 <= Cardinality(Counted(b))
    <3>1. {b, c} \subseteq Counted(b)
      BY <1>5
    <3> QED
      BY <1>1, <2>1, <3>1, FS_Subset
  <2> QED
    BY <1>3, <1>5, <2>2
<1> QED
  BY <1>4, <1>5

(* Held models: only crossing finalizers let go of a model that is there. *)

\* A step of the reconcile of b that writes no model and adds to crossed what b
\* lets go of, unless another binding holds it.
LEMMA StepHeld ==
  ASSUME TypeOK, HeldInv, NEW b \in Bindings, UNCHANGED binding, crossed \subseteq crossed',
         \A c \in Bindings \ {b} : run'[c] = run[c],
         \A k \in ModelKeys \ crossed' : model'[k] = "live" =>
            \/ \E c \in Bindings : Holds(c, k)'
            \/ model[k] = "live" /\ (Holds(b, k) => Holds(b, k)')
  PROVE  HeldInv'
<1> SUFFICES ASSUME NEW k \in ModelKeys \ crossed', model'[k] = "live"
             PROVE  \E c \in Bindings : Holds(c, k)'
  BY DEF HeldInv
<1>1. CASE model[k] = "live" /\ (Holds(b, k) => Holds(b, k)')
  <2>1. PICK c \in Bindings : Holds(c, k)
    BY <1>1 DEF HeldInv
  <2>2. CASE c = b
    BY <1>1, <2>1, <2>2
  <2>3. CASE c # b
    <3>1. run'[c] = run[c] /\ binding'[c] = binding[c]
      BY <2>3
    <3> QED
      BY <2>1, <3>1 DEF Holds
  <2> QED
    BY <2>2, <2>3
<1> QED
  BY <1>1

LEMMA WriteHeld ==
  ASSUME TypeOK, FinalizingInv, GuardInv, ExemptAreInternal, HeldInv,
         NEW b \in Bindings, WriteModel(b)
  PROVE  HeldInv'
<1>1. PICK s \in run[b].todo :
         /\ model' = [model EXCEPT ![<<s, OrgOfBinding(b)>>] = IF @ = "absent" THEN "live" ELSE @]
         /\ run' = IF run[b].todo = {s} THEN [run EXCEPT ![b] = Idle]
                   ELSE [run EXCEPT ![b].todo = @ \ {s}]
  BY DEF WriteModel
<1>2. /\ run[b].pc = "write" /\ UNCHANGED <<binding, crossed>>
      /\ \A c \in Bindings \ {b} : run'[c] = run[c]
  BY <1>1 DEF WriteModel, TypeOK
<1>3. run'[b].pc \in {"idle", "write"}
  BY <1>1, <1>2 DEF TypeOK, Idle
<1>4. Generates(b) /\ binding[b] # "absent"
  BY <1>2 DEF GuardInv, ExemptAreInternal, Generates
<1>5. \A k \in KeysOf(b) : Holds(b, k)'
  BY <1>2, <1>3, <1>4 DEF Holds, Generates
<1>6. ASSUME NEW k \in ModelKeys, model'[k] = "live"
      PROVE  \/ \E c \in Bindings : Holds(c, k)'
             \/ model[k] = "live" /\ (Holds(b, k) => Holds(b, k)')
  <2>1. CASE k \in KeysOf(b)
    BY <1>5, <2>1
  <2>2. CASE k \notin KeysOf(b)
    <3>1. ~ Holds(b, k)
      BY <2>2 DEF Holds
    <3>2. model[k] = "live"
      <4>1. CASE k = <<s, OrgOfBinding(b)>>
        <5>1. s \in SchemasOf[ExportOf[b]]
          BY DEF FinalizingInv
        <5> QED
          BY <2>2, <4>1, <5>1 DEF KeysOf
      <4>2. CASE k # <<s, OrgOfBinding(b)>>
        BY <1>1, <1>6, <4>2 DEF TypeOK
      <4> QED
        BY <4>1, <4>2
    <3> QED
      BY <3>1, <3>2
  <2> QED
    BY <2>1, <2>2
<1> QED
  BY <1>2, <1>6, StepHeld

\* Whoever counts another binding leaves the models to it if it is live; if all
\* that it counts are under deletion, the finalizers may cross.
LEMMA CountHeld ==
  ASSUME TypeOK, FinalizingInv, HeldInv, NEW b \in Bindings, CountBindings(b)
  PROVE  HeldInv'
<1>1. /\ run[b].pc = "count" /\ UNCHANGED <<binding, model>>
      /\ crossed' = crossed \cup Crossing(b)
      /\ run' = IF Cardinality(Counted(b)) > 1
                THEN [run EXCEPT ![b].pc = "release"]
                ELSE [run EXCEPT ![b].pc = "delete", ![b].todo = SchemasOf[ExportOf[b]]]
  BY DEF CountBindings
<1>2. \A c \in Bindings \ {b} : run'[c] = run[c]
  BY <1>1 DEF TypeOK
<1>3. ASSUME NEW k \in ModelKeys \ crossed', Holds(b, k)
      PROVE  (\E c \in Bindings : Holds(c, k)') \/ Holds(b, k)'
  <2>1. CASE Cardinality(Counted(b)) > 1
    <3>1. Counted(b) \ {b} # {}
      BY <2>1, CountOthers
    <3>2. k \notin Crossing(b) /\ k \in KeysOf(b)
      BY <1>1, <1>3 DEF Holds
    <3>3. PICK c \in Counted(b) \ {b} : binding[c] = "live"
      BY <3>1, <3>2 DEF Crossing
    <3>4. c \in Bindings /\ Alike(b, c)
      BY <3>3 DEF Counted, Alike, TypeOK
    <3>5. k \in KeysOf(c) /\ Generates(c)
      BY <1>3, <3>4, AlikeKeys DEF Holds
    <3>6. run'[c] = run[c] /\ ~ (run[c].pc \in {"delete", "release"})
      BY <1>2, <3>3, <3>4 DEF FinalizingInv
    <3>7. Holds(c, k)'
      BY <1>1, <3>3, <3>5, <3>6 DEF Holds, Generates
    <3> QED
      BY <3>4, <3>7
  <2>2. CASE ~ (Cardinality(Counted(b)) > 1)
    <3>1. run'[b].pc = "delete" /\ run'[b].todo = SchemasOf[ExportOf[b]]
      BY <1>1, <2>2 DEF TypeOK
    <3>2. k \in KeysOf(b) /\ k[1] \in SchemasOf[ExportOf[b]]
      BY <1>3 DEF Holds, KeysOf
    <3> QED
      BY <1>1, <1>3, <3>1, <3>2 DEF Holds, Generates
  <2> QED
    BY <2>1, <2>2
<1> QED
  BY <1>1, <1>2, <1>3, StepHeld

LEMMA DeleteHeld ==
  ASSUME TypeOK, HeldInv, NEW b \in Bindings, DeleteModel(b)
  PROVE  HeldInv'
<1>1. PICK s \in run[b].todo :
         /\ model' = [model EXCEPT ![<<s, OrgOfBinding(b)>>] = IF @ = "live" THEN "deleting" ELSE @]
         /\ run' = [run EXCEPT ![b].todo = @ \ {s},
                               ![b].pc = IF run[b].todo = {s} THEN "release" ELSE @]
  BY DEF DeleteModel
<1>2. /\ run[b].pc = "delete" /\ UNCHANGED <<binding, crossed>>
      /\ \A c \in Bindings \ {b} : run'[c] = run[c]
  BY <1>1 DEF DeleteModel, TypeOK
<1>3. ASSUME NEW k \in ModelKeys, model'[k] = "live"
      PROVE  model[k] = "live" /\ (Holds(b, k) => Holds(b, k)')
  <2>1. model[k] = "live" /\ k # <<s, OrgOfBinding(b)>>
    BY <1>1, <1>3 DEF TypeOK
  <2>2. ASSUME Holds(b, k) PROVE Holds(b, k)'
    <3>1. k \in KeysOf(b) /\ k[1] \in run[b].todo
      BY <1>2, <2>2 DEF Holds
    <3>2. k[1] # s
      BY <2>1, <3>1 DEF KeysOf
    <3>3. run'[b].pc = "delete" /\ k[1] \in run'[b].todo
      BY <1>1, <1>2, <3>1, <3>2 DEF TypeOK
    <3> QED
      BY <1>2, <2>2, <3>3 DEF Holds, Generates
  <2> QED
    BY <2>1, <2>2
<1> QED
  BY <1>2, <1>3, StepHeld

LEMMA NextHeld ==
  ASSUME patient, TypeOK, FinalizingInv, GuardInv, HeldInv, ExemptAreInternal, [Next]_vars
  PROVE  HeldInv'
<1>1. CASE UNCHANGED vars
  BY <1>1 DEF HeldInv, Holds, Generates, vars
<1>2. ASSUME NEW b \in Bindings, Bind(b) PROVE HeldInv'
  BY <1>2 DEF Bind, HeldInv, Holds, Generates, TypeOK
<1>3. ASSUME NEW b \in Bindings, Unbind(b) PROVE HeldInv'
  <2>1. binding[b] = "live" /\ UNCHANGED <<crossed, model, run>>
    BY <1>3 DEF Unbind
  <2>2. \A c \in Bindings : binding'[c] # "absent" \/ binding[c] = "absent" \/ c = b
    BY <1>3 DEF Unbind, TypeOK
  <2>3. Generates(b) => binding'[b] # "absent"
    BY <1>3 DEF Unbind, DeletedPhase, Generates, ExemptAreInternal, TypeOK
  <2> QED
    BY <2>1, <2>2, <2>3 DEF HeldInv, Holds, Generates
<1>4. ASSUME NEW b \in Bindings, Begin(b) PROVE HeldInv'
  <2>1. UNCHANGED <<binding, crossed, model>>
    BY <1>4 DEF Begin
  <2>2. /\ \A c \in Bindings \ {b} : run'[c] = run[c]
        /\ run'[b].pc \in {"idle", "read", "list"}
    BY <1>4 DEF Begin, Goto, TypeOK
  <2>3. \A k : Holds(b, k) => Holds(b, k)'
    BY <2>1, <2>2 DEF Holds, Generates
  <2> QED
    BY <2>1, <2>2, <2>3, StepHeld
<1>5. ASSUME NEW b \in Bindings, Finish(b), UNCHANGED <<binding, crossed, model>> PROVE HeldInv'
  <2>1. /\ \A c \in Bindings \ {b} : run'[c] = run[c]
        /\ run'[b] = Idle
    BY <1>5, SetRun DEF Finish
  <2>2. \A k : Holds(b, k) => Holds(b, k)'
    BY <1>5, <2>1 DEF Holds, Generates, Idle
  <2> QED
    BY <1>5, <2>1, <2>2, StepHeld
<1>6. ASSUME NEW b \in Bindings, Step(b) PROVE HeldInv'
  <2>1. CASE ReadForProcess(b)
    <3>1. CASE Finish(b)
      BY <1>5, <2>1, <3>1 DEF ReadForProcess
    <3>2. CASE ~ Finish(b)
      <4>1. run' = [run EXCEPT ![b].pc = "write", ![b].todo = SchemasOf[ExportOf[b]]]
        BY <2>1, <3>2 DEF ReadForProcess
      <4>2. /\ \A c \in Bindings \ {b} : run'[c] = run[c]
            /\ run'[b].pc = "write" /\ UNCHANGED <<binding, crossed, model>>
        BY <2>1, <4>1 DEF TypeOK, ReadForProcess
      <4>3. \A k : Holds(b, k) => Holds(b, k)'
        BY <4>2 DEF Holds, Generates
      <4> QED
        BY <4>2, <4>3, StepHeld
    <3> QED
      BY <3>1, <3>2
  <2>2. CASE ListBindings(b)
    <3>1. /\ \A c \in Bindings \ {b} : run'[c] = run[c]
          /\ run'[b].pc = "count" /\ UNCHANGED <<binding, crossed, model>>
      BY <2>2 DEF TypeOK, ListBindings
    <3>2. \A k : Holds(b, k) => Holds(b, k)'
      BY <3>1 DEF Holds, Generates
    <3> QED
      BY <3>1, <3>2, StepHeld
  <2>3. CASE Release(b)
    <3>1. /\ run[b].pc = "release" /\ UNCHANGED <<crossed, model>>
          /\ \A c \in Bindings \ {b} : run'[c] = run[c] /\ binding'[c] = binding[c]
      BY <2>3 DEF Release, Finish, TypeOK
    <3>2. \A c \in Bindings, k \in ModelKeys : Holds(c, k) => Holds(c, k)'
      <4> SUFFICES ASSUME NEW c \in Bindings, NEW k \in ModelKeys, Holds(c, k) PROVE Holds(c, k)'
        OBVIOUS
      <4>1. c # b
        BY <3>1 DEF Holds
      <4> QED
        BY <3>1, <4>1 DEF Holds, Generates
    <3> QED
      BY <3>1, <3>2 DEF HeldInv
  <2>4. CASE Refuse(b)
    BY <1>5, <2>4 DEF Refuse, Fail
  <2> QED
    BY <1>6, <2>1, <2>2, <2>3, <2>4, WriteHeld, CountHeld, DeleteHeld DEF Step
<1>7. ASSUME NEW b \in Bindings, Fault(b) PROVE HeldInv'
  BY <1>5, <1>7 DEF Fault, Fail
<1>8. ASSUME NEW w \in Workspaces,
             DeleteWorkspace(w) \/ CheckBindings(w) \/ ReleaseAccountInfo(w)
      PROVE  HeldInv'
  BY <1>8 DEF DeleteWorkspace, CheckBindings, ReleaseAccountInfo, HeldInv, Holds, Generates
<1>9. ASSUME NEW j \in ModelKeys, ModelGone(j) PROVE HeldInv'
  <2>1. \A k \in ModelKeys : model'[k] = "live" => model[k] = "live"
    BY <1>9 DEF ModelGone, TypeOK
  <2>2. UNCHANGED <<binding, run, crossed>>
    BY <1>9 DEF ModelGone
  <2> QED
    BY <2>1, <2>2 DEF HeldInv, Holds, Generates
<1> QED
  BY <1>1, <1>2, <1>3, <1>4, <1>6, <1>7, <1>8, <1>9 DEF Next

(* Bound models: no finalizer takes a model away from a live binding.      *)

\* Only users bring a binding to life.
LEMMA LiveBefore ==
  ASSUME TypeOK, [Next]_vars, NEW b \in Bindings, binding[b] # "live", binding'[b] = "live"
  PROVE  Bind(b)
<1>1. ASSUME NEW c \in Bindings, Bind(c) PROVE Bind(b)
  BY <1>1 DEF Bind, TypeOK
<1>2. ASSUME NEW c \in Bindings, Unbind(c) PROVE FALSE
  BY <1>2 DEF Unbind, DeletedPhase, TypeOK
<1>3. ASSUME NEW c \in Bindings, Release(c) PROVE FALSE
  BY <1>3 DEF Release, TypeOK
<1> QED
  BY <1>1, <1>2, <1>3
  DEF Next, Step, vars, Begin, Fault, Fail, DeleteWorkspace, CheckBindings, ReleaseAccountInfo,
      ModelGone, ReadForProcess, WriteModel, ListBindings, CountBindings, DeleteModel, Refuse

\* Patient users bind no export while a binding of it in the organization goes.
LEMMA BindApart ==
  ASSUME patient, NEW b \in Bindings, Bind(b), NEW c \in Bindings, binding[c] = "deleting"
  PROVE  ~ Alike(b, c)
BY AlikeKeys DEF Bind, Contested

LEMMA SameLast ==
  ASSUME patient, TypeOK, FinalizingInv, [Next]_vars,
         NEW c \in Bindings, LastOK(c), run'[c] = run[c]
  PROVE  LastOK(c)'
<1> SUFFICES ASSUME run[c].pc \in {"count", "delete"} PROVE LastOK(c)'
  BY DEF LastOK
<1>1. binding[c] = "deleting"
  BY DEF FinalizingInv
<1>2. \A b \in Bindings : Alike(b, c) /\ binding'[b] = "live" => binding[b] = "live"
  BY <1>1, LiveBefore, BindApart
<1> QED
  BY <1>2 DEF LastOK, Alike, Generates

\* A finalizer that counts itself only is the last: whatever is live it has listed,
\* and what it leaves out of account has no AccountInfo, so is not live either.
LEMMA CountLast ==
  ASSUME patient, TypeOK, AccountInv, FinalizingInv, ExemptAreInternal,
         NEW c \in Bindings, LastOK(c), CountBindings(c)
  PROVE  LastOK(c)'
<1>1. /\ run[c].pc = "count" /\ UNCHANGED binding /\ info[WorkspaceOf[c]] # "gone"
      /\ run' = IF Cardinality(Counted(c)) > 1
                THEN [run EXCEPT ![c].pc = "release"]
                ELSE [run EXCEPT ![c].pc = "delete", ![c].todo = SchemasOf[ExportOf[c]]]
  BY DEF CountBindings
<1>2. CASE Cardinality(Counted(c)) > 1
  <2>1. run'[c].pc = "release"
    BY <1>1, <1>2 DEF TypeOK
  <2> QED
    BY <2>1 DEF LastOK
<1>3. CASE ~ (Cardinality(Counted(c)) > 1)
  <2>1. run'[c].pc = "delete"
    BY <1>1, <1>3 DEF TypeOK
  <2>2. c \in Counted(c)
    BY <1>1 DEF LastOK, Counted
  <2>3. Counted(c) = {c}
    BY <1>3, <2>2, CountOthers
  <2>4. ASSUME Generates(c), NEW b \in Bindings, Alike(b, c), binding[b] = "live"
        PROVE  FALSE
    <3>1. b \in run[c].others /\ b # c
      BY <1>1, <2>4 DEF LastOK, FinalizingInv
    <3>2. info[WorkspaceOf[b]] = "gone"
      BY <2>3, <2>4, <3>1 DEF Counted, Alike
    <3>3. b \in Exempt
      BY <2>4, <3>2 DEF AccountInv
    <3> QED
      BY <2>4, <3>3, AlikeKeys DEF ExemptAreInternal, Generates
  <2> QED
    BY <1>1, <2>1, <2>4 DEF LastOK, Generates, Alike
<1> QED
  BY <1>2, <1>3

\* A step of one reconcile.
LEMMA OwnLast ==
  ASSUME patient, TypeOK, AccountInv, FinalizingInv, ExemptAreInternal,
         NEW c \in Bindings, LastOK(c), Begin(c) \/ Step(c) \/ Fault(c)
  PROVE  LastOK(c)'
<1>1. CASE Begin(c)
  <2>1. run'[c].pc \notin {"count", "delete"} \/ (run' = run /\ binding' = binding)
    BY <1>1 DEF Begin, Goto, TypeOK
  <2> QED
    BY <2>1 DEF LastOK, Generates, Alike
<1>2. CASE ReadForProcess(c) \/ WriteModel(c) \/ Release(c) \/ Refuse(c) \/ Fault(c)
  <2>1. run'[c].pc \notin {"count", "delete"}
    <3>1. CASE ReadForProcess(c)
      BY <3>1 DEF ReadForProcess, Finish, Idle, TypeOK
    <3>2. CASE WriteModel(c)
      <4>1. PICK s \in run[c].todo : run' = IF run[c].todo = {s} THEN [run EXCEPT ![c] = Idle]
                                            ELSE [run EXCEPT ![c].todo = @ \ {s}]
        BY <3>2 DEF WriteModel
      <4> QED
        BY <3>2, <4>1 DEF WriteModel, Idle, TypeOK
    <3>3. CASE Finish(c)
      BY <3>3 DEF Finish, Idle, TypeOK
    <3> QED
      BY <1>2, <3>1, <3>2, <3>3 DEF Release, Refuse, Fault, Fail
  <2> QED
    BY <2>1 DEF LastOK
<1>3. CASE ListBindings(c)
  <2>1. /\ run'[c].pc = "count" /\ run'[c].others = Present
        /\ UNCHANGED binding
    BY <1>3 DEF ListBindings, TypeOK
  <2>2. binding[c] = "deleting"
    BY <1>3 DEF ListBindings, FinalizingInv
  <2> QED
    BY <2>1, <2>2 DEF LastOK, Present
<1>4. CASE DeleteModel(c)
  <2>1. PICK s \in run[c].todo :
           run' = [run EXCEPT ![c].todo = @ \ {s},
                              ![c].pc = IF run[c].todo = {s} THEN "release" ELSE @]
    BY <1>4 DEF DeleteModel
  <2>2. run'[c].pc \in {"delete", "release"} /\ UNCHANGED binding /\ run[c].pc = "delete"
    BY <1>4, <2>1 DEF DeleteModel, TypeOK
  <2> QED
    BY <2>2 DEF LastOK, Generates, Alike
<1> QED
  BY <1>1, <1>2, <1>3, <1>4, CountLast DEF Step

\* Other reconciles stay as they are.
LEMMA OtherRuns ==
  ASSUME TypeOK, [Next]_vars, NEW c \in Bindings, ~ (Begin(c) \/ Step(c) \/ Fault(c))
  PROVE  run'[c] = run[c]
<1>1. ASSUME NEW b \in Bindings, Begin(b) \/ Step(b) \/ Fault(b)
      PROVE  run'[c] = run[c]
  <2>1. b # c
    BY <1>1
  <2>2. CASE Begin(b)
    BY <2>1, <2>2 DEF Begin, Goto, TypeOK
  <2>3. CASE ReadForProcess(b) \/ Release(b) \/ Refuse(b) \/ Fault(b) \/ ListBindings(b)
    BY <2>1, <2>3 DEF ReadForProcess, Release, Refuse, Fault, Fail, Finish, ListBindings, TypeOK
  <2>4. CASE WriteModel(b) \/ CountBindings(b) \/ DeleteModel(b)
    BY <2>1, <2>4 DEF WriteModel, CountBindings, DeleteModel, TypeOK
  <2> QED
    BY <1>1, <2>2, <2>3, <2>4 DEF Step
<1> QED
  BY <1>1 DEF Next, vars, Bind, Unbind, DeleteWorkspace, CheckBindings, ReleaseAccountInfo, ModelGone

LEMMA NextLast ==
  ASSUME patient, TypeOK, AccountInv, FinalizingInv, ExemptAreInternal, LastInv, [Next]_vars
  PROVE  LastInv'
BY OwnLast, OtherRuns, SameLast DEF LastInv

LEMMA NextFallen ==
  ASSUME patient, TypeOK, FinalizingInv, LastInv, FallenInv, SchemasApart, [Next]_vars
  PROVE  FallenInv'
<1> SUFFICES ASSUME NEW k \in ModelKeys, NEW b \in Bindings, model'[k] = "deleting",
                    Generates(b), k \in KeysOf(b), binding'[b] = "live"
             PROVE  FALSE
  BY DEF FallenInv, Generates
<1>1. CASE model[k] = "deleting"
  BY <1>1, LiveBefore DEF FallenInv, Bind, Contested
<1>2. CASE model[k] # "deleting"
  <2>1. PICK c \in Bindings :
           run[c].pc = "delete" /\ k \in KeysOf(c) /\ UNCHANGED binding
    BY <1>2, ModelDeleted
  <2>2. Alike(b, c) /\ Generates(c)
    BY <2>1, SharedKey, AlikeKeys
  <2> QED
    BY <2>1, <2>2 DEF LastInv, LastOK
<1> QED
  BY <1>1, <1>2

\* A model of a live binding is taken away by nobody.
LEMMA LiveModelStays ==
  ASSUME patient, TypeOK, FinalizingInv, LastInv, SchemasApart, [Next]_vars,
         NEW k \in ModelKeys, NEW b \in Bindings, model[k] = "live",
         Generates(b), k \in KeysOf(b), binding[b] = "live"
  PROVE  model'[k] = "live"
<1> SUFFICES ASSUME model'[k] # "live" PROVE FALSE
  OBVIOUS
<1>1. PICK c \in Bindings : run[c].pc = "delete" /\ k \in KeysOf(c)
  BY ModelDeleted
<1>2. Alike(b, c) /\ Generates(c)
  BY <1>1, SharedKey, AlikeKeys
<1> QED
  BY <1>1, <1>2 DEF LastInv, LastOK

LEMMA WriteWritten ==
  ASSUME TypeOK, FallenInv, NEW c \in Bindings, WriteModel(c),
         NEW k \in ModelKeys, Written(c, k)', Written(c, k) => model[k] = "live"
  PROVE  model'[k] = "live"
<1>1. PICK s \in run[c].todo :
         /\ model' = [model EXCEPT ![<<s, OrgOfBinding(c)>>] = IF @ = "absent" THEN "live" ELSE @]
         /\ run' = IF run[c].todo = {s} THEN [run EXCEPT ![c] = Idle]
                   ELSE [run EXCEPT ![c].todo = @ \ {s}]
  BY DEF WriteModel
<1>2. run[c].pc = "write" /\ UNCHANGED <<binding, queued>>
  BY DEF WriteModel
<1>3. Generates(c) /\ k \in KeysOf(c) /\ binding[c] = "live"
  BY <1>2 DEF Written, Generates
<1>4. model[k] # "deleting"
  BY <1>3 DEF FallenInv
<1>5. CASE k[1] = s
  <2>1. k = <<s, OrgOfBinding(c)>>
    BY <1>3, <1>5 DEF KeysOf
  <2> QED
    BY <1>1, <1>4, <2>1 DEF TypeOK
<1>6. CASE k[1] # s
  <2>1. k[1] \notin run[c].todo
    <3>1. CASE run[c].todo = {s}
      BY <1>6, <3>1
    <3>2. CASE run[c].todo # {s}
      <4>1. run'[c].pc = "write" /\ run'[c].todo = run[c].todo \ {s}
        BY <1>1, <1>2, <3>2 DEF TypeOK
      <4> QED
        BY <1>6, <4>1 DEF Written
    <3> QED
      BY <3>1, <3>2
  <2>2. model[k] = "live"
    BY <1>2, <1>3, <2>1 DEF Written
  <2> QED
    BY <1>1, <2>2 DEF TypeOK
<1> QED
  BY <1>5, <1>6

\* Only by writing does a reconcile come to have written.
LEMMA WrittenBefore ==
  ASSUME TypeOK, GuardInv, ExemptAreInternal, [Next]_vars,
         NEW c \in Bindings, NEW k, Written(c, k)', ~ WriteModel(c)
  PROVE  Written(c, k)
<1>1. /\ Generates(c) /\ k \in KeysOf(c) /\ binding'[c] = "live"
      /\ \/ run'[c].pc = "idle" /\ c \notin queued'
         \/ run'[c].pc = "write" /\ k[1] \notin run'[c].todo
  BY DEF Written, Generates
<1>2. CASE Begin(c)
  BY <1>1, <1>2 DEF Begin, Goto, TypeOK
<1>3. CASE ReadForProcess(c)
  <2>1. run' = [run EXCEPT ![c].pc = "write", ![c].todo = SchemasOf[ExportOf[c]]]
    BY <1>1, <1>3 DEF ReadForProcess, Generates
  <2>2. run'[c].pc = "write" /\ run'[c].todo = SchemasOf[ExportOf[c]]
    BY <2>1 DEF TypeOK
  <2> QED
    BY <1>1, <2>2 DEF KeysOf
<1>4. CASE ListBindings(c)
  BY <1>1, <1>4 DEF ListBindings, TypeOK
<1>5. CASE CountBindings(c)
  BY <1>1, <1>5 DEF CountBindings, TypeOK
<1>6. CASE DeleteModel(c)
  <2>1. PICK s \in run[c].todo :
           run' = [run EXCEPT ![c].todo = @ \ {s},
                              ![c].pc = IF run[c].todo = {s} THEN "release" ELSE @]
    BY <1>6 DEF DeleteModel
  <2>2. run'[c].pc \in {"delete", "release"}
    BY <1>6, <2>1 DEF DeleteModel, TypeOK
  <2> QED
    BY <1>1, <2>2
<1>7. CASE Release(c)
  BY <1>1, <1>7 DEF Release, TypeOK
<1>8. CASE Fail(c)
  <2>1. run'[c] = Idle /\ c \in queued'
    BY <1>8, SetRun DEF Fail, Finish
  <2> QED
    BY <1>1, <2>1 DEF Idle
<1>9. CASE ~ (Begin(c) \/ Step(c) \/ Fault(c))
  <2>1. run'[c] = run[c]
    BY <1>9, OtherRuns
  <2>2. c \notin queued' => c \notin queued
    <3>1. ASSUME NEW b \in Bindings, Begin(b) \/ Step(b) \/ Fault(b)
          PROVE  c \notin queued' => c \notin queued
      <4>1. b # c
        BY <1>9, <3>1
      <4>2. queued \subseteq queued' \cup {b}
        BY <3>1 DEF Begin, Fault, Fail, Step, ReadForProcess, WriteModel, ListBindings,
                    CountBindings, DeleteModel, Release, Refuse
      <4> QED
        BY <4>1, <4>2
    <3> QED
      BY <3>1 DEF Next, vars, Bind, Unbind, DeleteWorkspace, CheckBindings, ReleaseAccountInfo,
                  ModelGone
  <2>3. CASE binding[c] = "live"
    BY <1>1, <2>1, <2>2, <2>3 DEF Written
  <2>4. CASE binding[c] # "live"
    <3>1. Bind(c)
      BY <1>1, <2>4, LiveBefore
    <3>2. c \in queued' /\ binding[c] = "absent"
      BY <3>1 DEF Bind
    <3>3. run[c].pc # "write"
      BY <1>1, <3>2 DEF GuardInv, ExemptAreInternal, Generates
    <3> QED
      BY <1>1, <2>1, <3>2, <3>3
  <2> QED
    BY <2>3, <2>4
<1> QED
  BY <1>2, <1>3, <1>4, <1>5, <1>6, <1>7, <1>8, <1>9 DEF Step, Refuse, Fault

LEMMA NextWritten ==
  ASSUME patient, TypeOK, FinalizingInv, GuardInv, LastInv, FallenInv, WrittenInv,
         ExemptAreInternal, SchemasApart, [Next]_vars
  PROVE  WrittenInv'
<1> SUFFICES ASSUME NEW k \in ModelKeys, NEW b \in Bindings, Written(b, k)'
             PROVE  model'[k] = "live"
  BY DEF WrittenInv
<1>1. CASE WriteModel(b)
  BY <1>1, WriteWritten DEF WrittenInv
<1>2. CASE ~ WriteModel(b)
  <2>1. Written(b, k)
    BY <1>2, WrittenBefore
  <2>2. model[k] = "live"
    BY <2>1 DEF WrittenInv
  <2> QED
    BY <2>1, <2>2, LiveModelStays DEF Written
<1> QED
  BY <1>1, <1>2

LEMMA InitBound == Init => AccountInv /\ FinalizingInv /\ GuardInv /\ HeldInv /\ BoundInv
<1> SUFFICES ASSUME Init PROVE AccountInv /\ FinalizingInv /\ GuardInv /\ HeldInv /\ BoundInv
  OBVIOUS
<1>1. /\ \A b \in Bindings : binding[b] = "absent" /\ run[b] = Idle
      /\ \A k \in ModelKeys : model[k] = "absent"
      /\ guarded = {}
  BY DEF Init
<1>2. AccountInv /\ FinalizingInv
  BY <1>1 DEF AccountInv, FinalizingInv, Idle
<1>3. GuardInv /\ HeldInv
  BY <1>1 DEF GuardInv, HeldInv, Idle
<1>4. LastInv
  BY <1>1 DEF LastInv, LastOK, Idle
<1>5. FallenInv /\ WrittenInv
  BY <1>1 DEF FallenInv, WrittenInv, Written
<1> QED
  BY <1>2, <1>3, <1>4, <1>5 DEF BoundInv

LEMMA HeldCorrect ==
  ASSUME ExemptAreInternal
  PROVE  Spec => [](FinalizingInv /\ (patient => GuardInv /\ HeldInv))
<1> DEFINE Inv == TypeOK /\ FinalizingInv /\ (patient => GuardInv /\ HeldInv)
<1>1. Init => Inv
  BY InitType, InitBound
<1>2. Inv /\ [Next]_vars => Inv'
  BY NextType, NextFinalizing, NextGuard, NextHeld, NextPatient
<1>3. Inv => FinalizingInv /\ (patient => GuardInv /\ HeldInv)
  OBVIOUS
<1> HIDE DEF Inv
<1> QED
  BY <1>1, <1>2, <1>3, PTL DEF Spec

\* The finalizer of the last binding of an export in an organization takes the
\* models with it, unless the last finalizers counted each other: with users who
\* wait, and whatever the faults, every other live model has a binding that calls
\* for it. Bindings whose name spares them the finalizer must bind internal exports.
THEOREM OnlyCrossingLeaksCorrect == ExemptAreInternal => (Spec => []OnlyCrossingLeaks)
<1> SUFFICES ASSUME ExemptAreInternal PROVE Spec => []OnlyCrossingLeaks
  OBVIOUS
<1>1. FinalizingInv /\ (patient => GuardInv /\ HeldInv) => OnlyCrossingLeaks
  BY DEF HeldInv, Holds, OnlyCrossingLeaks, CalledFor
<1> QED
  BY <1>1, HeldCorrect, PTL

LEMMA BoundCorrect ==
  ASSUME ExemptAreInternal, SchemasApart
  PROVE  Spec => [](patient => BoundInv)
<1> DEFINE Inv == /\ TypeOK /\ FinalizingInv
                  /\ patient => AccountInv /\ GuardInv /\ BoundInv
<1>1. Init => Inv
  BY InitType, InitBound
<1>2. Inv /\ [Next]_vars => Inv'
  BY NextType, NextFinalizing, NextAccount, NextGuard, NextLast, NextFallen, NextWritten,
     NextPatient DEF BoundInv
<1>3. Inv => (patient => BoundInv)
  OBVIOUS
<1> HIDE DEF Inv
<1> QED
  BY <1>1, <1>2, <1>3, PTL DEF Spec

\* A finalizer skips the models as long as it counts another binding of its export
\* in the organization: with users who wait, a binding that was reconciled has all
\* its models for as long as it is in use. Exports that share a schema, or bindings
\* without finalizer to ordinary exports, are out of this: the code does not count
\* the bindings of the other export.
THEOREM BoundModelsCorrect == ExemptAreInternal /\ SchemasApart => (Spec => []BoundModelsExist)
<1> SUFFICES ASSUME ExemptAreInternal, SchemasApart PROVE Spec => []BoundModelsExist
  OBVIOUS
<1>1. TypeOK /\ (patient => BoundInv) => BoundModelsExist
  <2> SUFFICES ASSUME patient, WrittenInv, NEW b \in Bindings, binding[b] = "live", Generates(b),
                      run[b].pc = "idle", b \notin queued, NEW k \in KeysOf(b)
               PROVE  model[k] = "live"
    BY DEF BoundModelsExist, BoundInv
  <2>1. k \in ModelKeys
    BY KeyFacts DEF KeysOf, ModelKeys
  <2> QED
    BY <2>1 DEF WrittenInv, Written
<1> QED
  BY <1>1, BoundCorrect, ModelGenerationTypeCorrect, PTL

----------------------------------------------------------------------------
(* Groups are capped alike in both places, for names and limits of any     *)
(* length. The slice of Go is a subsequence as long as it is in range.     *)

\* What is left of a group is shorter by what was cut off.
LEMMA LengthOfRest ==
  ASSUME NEW group \in Seq(Letters), NEW i \in Nat, InRange(group, i)
  PROVE  Len(From(group, i)) = Len(group) - i
<1>1. Len(group) \in Nat
  OBVIOUS
<1>2. i + 1 \in 1 .. Len(group) + 1
  BY <1>1 DEF InRange
<1> QED
  BY <1>1, <1>2 DEF From, InRange

\* For every group but the empty one, discovery and generation of models cap
\* alike; the relation fits, cut no more than necessary; and the slice is in
\* range exactly if the plural leaves room (util.go,
\* authorization_model_generation.go).
THEOREM CapsCorrect == CapsAgreeAndFit
<1> SUFFICES ASSUME NEW group \in Groups \ {<<>>}, NEW plural \in Plurals
             PROVE  LET capped == GeneratedGroup(group, plural) IN
                    /\ DiscoveredGroup(group, plural) = capped
                    /\ InRange(group, Excess(group, plural)) <=> PluralFits(plural)
                    /\ PluralFits(plural) =>
                         /\ RelationLength(capped, plural) <= MaxLength
                         /\ capped # group => RelationLength(capped, plural) = MaxLength
  BY DEF CapsAgreeAndFit
<1> DEFINE excess == Excess(group, plural)
           capped == GeneratedGroup(group, plural)
<1>1. /\ group \in Seq(Letters) /\ plural \in Seq(Letters)
      /\ Len(group) \in Nat /\ Len(plural) \in Nat /\ MaxLength \in Nat
  BY CapGroupAssumption
<1>2. excess = 8 + Len(group) + Len(plural) - MaxLength
  BY <1>1 DEF Excess, RelationLength
<1>3. PluralFits(plural) <=> 8 + Len(plural) <= MaxLength
  BY <1>1 DEF PluralFits, RelationLength
<1>4. DiscoveredGroup(group, plural) = capped
  BY DEF DiscoveredGroup, CapGroupToRelationLength, GeneratedGroup
<1>5. InRange(group, excess) <=> PluralFits(plural)
  BY <1>1, <1>2, <1>3 DEF InRange
<1>6. ASSUME PluralFits(plural)
      PROVE  /\ RelationLength(capped, plural) <= MaxLength
             /\ capped # group => RelationLength(capped, plural) = MaxLength
  <2>1. CASE excess > 0
    <3>1. excess \in Nat
      BY <1>1, <1>2, <2>1
    <3>2. capped = From(group, excess)
      BY <2>1 DEF GeneratedGroup
    <3>3. Len(capped) = Len(group) - excess
      BY <1>1, <1>5, <1>6, <3>1, <3>2, LengthOfRest
    <3> QED
      BY <1>1, <1>2, <3>3 DEF RelationLength
  <2>2. CASE ~ (excess > 0)
    <3>1. capped = group
      BY <2>2 DEF GeneratedGroup
    <3> QED
      BY <1>1, <1>2, <2>2, <3>1 DEF RelationLength
  <2> QED
    BY <2>1, <2>2
<1> QED
  BY <1>4, <1>5, <1>6
=============================================================================
