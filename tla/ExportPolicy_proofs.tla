------------------------ MODULE ExportPolicy_proofs ------------------------
(***************************************************************************)
(* The types of ExportPolicy, and that users who wait for the controller   *)
(* never leave a bind permission behind that no expression stands for.     *)
(***************************************************************************)
EXTENDS ExportPolicy, TLAPS

Policies == [phase : {"absent", "live", "deleting"}, spec : SUBSET Expressions,
             managed : SUBSET Expressions]
Runs     == [pc : PCs, spec : SUBSET Expressions, todo : SUBSET Expressions,
             work : SUBSET Grants]

LEMMA InitTypeOK == Init => TypeOK
<1> SUFFICES ASSUME Init PROVE TypeOK
  OBVIOUS
<1>0. patient \in BOOLEAN /\ lost \in BOOLEAN
  BY ConstantsAssumption DEF Init
<1>1. /\ edits \in 0 .. MaxEdits[patient] /\ faults \in 0 .. MaxFaults[patient]
      /\ info \in SUBSET Accounts /\ stores \in SUBSET Orgs /\ grants \in SUBSET Grants
  BY <1>0, ConstantsAssumption DEF Init
<1>2. policy \in Policies /\ run \in Runs /\ queued \in BOOLEAN
  BY DEF Init, NoPolicy, Idle, Policies, Runs, PCs
<1> QED
  BY <1>0, <1>1, <1>2 DEF TypeOK, Policies, Runs

\* A step of users, organizations and accounts.
Environment ==
  \/ \E spec \in Specs : CreatePolicy(spec) \/ EditPolicy(spec)
  \/ DeletePolicy
  \/ \E o \in Orgs : OrgReady(o) \/ DeleteOrgStore(o)
  \/ \E a \in Accounts : DeleteAccountInfo(a)

LEMMA EnvironmentTypeOK == ASSUME TypeOK, Environment PROVE TypeOK'
<1>0. MayEdit => /\ UNCHANGED <<patient, faults>> /\ patient \in BOOLEAN
                 /\ edits' \in 0 .. MaxEdits[patient]
  BY ConstantsAssumption DEF TypeOK, MayEdit
<1>1. ASSUME NEW spec \in Specs, CreatePolicy(spec) \/ EditPolicy(spec)
      PROVE  TypeOK'
  <2>1. spec \in SUBSET Expressions
    BY SpecsAssumption
  <2>2. policy \in Policies
    BY DEF TypeOK, Policies
  <2>3. policy' \in Policies
    BY <1>1, <2>1, <2>2 DEF CreatePolicy, EditPolicy, Policies
  <2> QED
    BY <1>0, <1>1, <2>3 DEF TypeOK, CreatePolicy, EditPolicy, Policies
<1>2. CASE DeletePolicy
  BY <1>0, <1>2 DEF TypeOK, DeletePolicy
<1>3. ASSUME NEW o \in Orgs, OrgReady(o) PROVE TypeOK'
  BY <1>0, <1>3, ConstantsAssumption DEF TypeOK, OrgReady
<1>4. ASSUME NEW o \in Orgs, DeleteOrgStore(o) PROVE TypeOK'
  BY <1>0, <1>4 DEF TypeOK, DeleteOrgStore
<1>5. ASSUME NEW a \in Accounts, DeleteAccountInfo(a) PROVE TypeOK'
  BY <1>5 DEF TypeOK, DeleteAccountInfo
<1> QED
  BY <1>1, <1>2, <1>3, <1>4, <1>5 DEF Environment

LEMMA ControllerTypeOK == ASSUME TypeOK, Controller \/ Fault PROVE TypeOK'
<1>0. policy \in Policies /\ run \in Runs
  BY DEF TypeOK, Policies, Runs
<1>1. CASE Begin
  <2>1. run' \in Runs
    BY <1>0, <1>1 DEF Begin, Runs, Policies, PCs
  <2> QED
    BY <1>1, <2>1 DEF Begin, TypeOK, Runs
<1>2. CASE NextStage
  BY <1>0, <1>2 DEF NextStage, TypeOK, Runs, PCs
<1>3. CASE PatchStatus
  BY <1>0, <1>3 DEF PatchStatus, TypeOK, Runs, Idle, PCs
<1>4. CASE Release
  BY <1>4 DEF Release, TypeOK, NoPolicy, Idle, PCs
<1>5. CASE Refuse
  BY <1>5 DEF Refuse, Fail, TypeOK, Idle, PCs
<1>6. CASE Fault
  <2>1. faults' \in 0 .. MaxFaults[patient]
    BY <1>6, ConstantsAssumption DEF Fault, TypeOK
  <2> QED
    BY <1>6, <2>1 DEF Fault, Fail, TypeOK, Idle, PCs
<1>7. ASSUME NEW e \in Expressions, TakeExpression(e) PROVE TypeOK'
  <2>1. Stand(e, run.pc # "apply") \subseteq Accounts
    BY <1>7 DEF TakeExpression, Stand, Expressions, Valid, TypeOK
  <2>2. Relation(e) \in Relations
    BY DEF Relation, Relations
  <2>3. Stand(e, run.pc # "apply") \X {Relation(e)} \subseteq Grants
    BY <2>1, <2>2 DEF Grants
  <2> QED
    BY <1>0, <1>7, <2>3 DEF TakeExpression, TypeOK, Runs
<1>8. ASSUME NEW g \in Grants, DeleteTuple(g) \/ ApplyTuple(g) PROVE TypeOK'
  BY <1>0, <1>8 DEF DeleteTuple, ApplyTuple, TypeOK, Runs
<1> QED
  BY <1>1, <1>2, <1>3, <1>4, <1>5, <1>6, <1>7, <1>8 DEF Controller

\* Every variable stays in its type, whoever edits the policy.
THEOREM ExportPolicyTypeCorrect == Spec => []TypeOK
<1>1. TypeOK /\ [Next]_vars => TypeOK'
  <2> SUFFICES ASSUME TypeOK, [Next]_vars PROVE TypeOK'
    OBVIOUS
  <2>1. CASE UNCHANGED vars
    BY <2>1 DEF vars, TypeOK
  <2> QED
    BY <2>1, EnvironmentTypeOK, ControllerTypeOK DEF Next, Environment
<1> QED
  BY <1>1, InitTypeOK, PTL DEF Spec

----------------------------------------------------------------------------
(* The invariant behind NoUnfoundedGrant, for users who wait.              *)

\* An expression stands for the tuple, in any organization: whether the organization
\* has a store and its AccountInfo is another matter.
Meant(exprs, g) ==
  \E e \in exprs : /\ e.path # RootOrgs => g[1] = e.path
                   /\ e.path = RootOrgs => g[1] \in Orgs
                   /\ g[2] = Relation(e)

\* The reconcile is one of the policy as it is.
RunInv ==
  /\ run.pc = "idle" => run = Idle
  /\ run.pc # "idle" => run.spec = policy.spec
  /\ policy.phase = "absent" => policy = NoPolicy /\ run.pc = "idle"
  /\ policy.phase = "live" => run.pc \in {"idle", "remove", "apply", "patch"}
  /\ policy.phase = "deleting" =>
       run.pc \in {"idle", "finalize", "release"} /\ policy.managed = policy.spec

\* Tuples are in stores that exist, and an organization with a store is known.
StoresInv ==
  /\ stores \subseteq info
  /\ \A g \in grants : OrgOf[g[1]] \in stores

\* Tuples that no expression stands for are on the list of those to be deleted.
GrantsInv ==
  /\ \A g \in grants : Meant(policy.spec \cup policy.managed, g)
  /\ run.pc = "remove" =>
       \A g \in grants : Meant(run.spec, g) \/ g \in run.work \/ Meant(run.todo, g)
  /\ run.pc = "apply" =>
       run.todo \subseteq run.spec /\ \A g \in grants \cup run.work : Meant(run.spec, g)
  /\ run.pc = "patch" => \A g \in grants : Meant(run.spec, g)
  /\ run.pc = "finalize" => \A g \in grants : g \in run.work \/ Meant(run.todo, g)
  /\ policy.phase = "absent" \/ run.pc = "release" => grants = {}

LEMMA MeantGrows ==
  ASSUME NEW exprs, NEW more, exprs \subseteq more, NEW g, Meant(exprs, g)
  PROVE  Meant(more, g)
  BY DEF Meant

\* An expression taken from the list leaves its tuples to be deleted behind.
LEMMA TakenExpression ==
  ASSUME TypeOK, StoresInv, NEW e \in run.todo, NEW g \in grants,
         run.pc # "apply", Meant(run.todo, g)
  PROVE  Meant(run.todo \ {e}, g) \/ g \in Stand(e, run.pc # "apply") \X {Relation(e)}
<1>1. PICK d \in run.todo : /\ d.path # RootOrgs => g[1] = d.path
                            /\ d.path = RootOrgs => g[1] \in Orgs
                            /\ g[2] = Relation(d)
  BY DEF Meant
<1>2. CASE d # e
  BY <1>1, <1>2 DEF Meant
<1>3. CASE d = e
  <2>1. g = <<g[1], g[2]>>
    BY DEF TypeOK, Grants
  <2>2. g[1] \in Orgs => g[1] \in info
    BY ConstantsAssumption DEF StoresInv
  <2>3. g[1] \in Stand(e, run.pc # "apply")
    BY <1>1, <1>3, <2>2 DEF Stand
  <2> QED
    BY <1>1, <1>3, <2>1, <2>3
<1> QED
  BY <1>2, <1>3

\* An expression of the spec is carried out for what it stands for only.
LEMMA AppliedExpression ==
  ASSUME TypeOK, NEW e \in run.spec, NEW g \in Stand(e, FALSE) \X {Relation(e)}
  PROVE  Meant(run.spec, g)
  BY DEF Stand, Meant

LEMMA RunStep ==
  ASSUME patient, TypeOK, RunInv, [Next]_vars
  PROVE  RunInv'
<1>0. policy \in Policies /\ run \in Runs
  BY DEF TypeOK, Policies, Runs
<1>1. ASSUME NEW spec \in Specs, CreatePolicy(spec) PROVE RunInv'
  BY <1>1 DEF RunInv, CreatePolicy, NoPolicy, Idle
<1>2. ASSUME NEW spec \in Specs, EditPolicy(spec) PROVE RunInv'
  BY <1>0, <1>2 DEF RunInv, EditPolicy, Settled, Policies
<1>3. CASE DeletePolicy
  BY <1>0, <1>3 DEF RunInv, DeletePolicy, Settled, Policies
<1>4. CASE UNCHANGED <<policy, run>>
  BY <1>4 DEF RunInv
<1>5. CASE Begin
  <2>1. CASE policy.phase = "live"
    BY <1>5, <2>1 DEF RunInv, Begin
  <2>2. CASE policy.phase = "deleting"
    BY <1>5, <2>2 DEF RunInv, Begin
  <2>3. CASE policy.phase = "absent"
    BY <1>4, <1>5, <2>3 DEF Begin
  <2> QED
    BY <1>0, <2>1, <2>2, <2>3 DEF Policies
<1>6. CASE NextStage
  BY <1>0, <1>6 DEF RunInv, NextStage, Runs
<1>7. CASE PatchStatus
  BY <1>0, <1>7 DEF RunInv, PatchStatus, Policies, Idle
<1>8. CASE Release
  BY <1>8 DEF RunInv, Release, NoPolicy, Idle
<1>9. CASE Refuse \/ Fault
  <2>1. run' = Idle /\ policy' = policy
    BY <1>9 DEF Refuse, Fault, Fail
  <2> QED
    BY <1>0, <2>1 DEF RunInv, Idle, Policies
<1>10. ASSUME NEW e \in Expressions, TakeExpression(e) PROVE RunInv'
  BY <1>0, <1>10 DEF RunInv, TakeExpression, Runs
<1>11. ASSUME NEW g \in Grants, DeleteTuple(g) \/ ApplyTuple(g) PROVE RunInv'
  BY <1>0, <1>11 DEF RunInv, DeleteTuple, ApplyTuple, Runs
<1>12. ASSUME NEW o \in Orgs, OrgReady(o) \/ DeleteOrgStore(o) PROVE UNCHANGED <<policy, run>>
  BY <1>12 DEF OrgReady, DeleteOrgStore
<1>13. ASSUME NEW a \in Accounts, DeleteAccountInfo(a) PROVE UNCHANGED <<policy, run>>
  BY <1>13 DEF DeleteAccountInfo
<1>14. CASE UNCHANGED vars
  BY <1>4, <1>14 DEF vars
<1> QED
  BY <1>1, <1>2, <1>3, <1>4, <1>5, <1>6, <1>7, <1>8, <1>9, <1>10, <1>11, <1>12, <1>13, <1>14
  DEF Next, Controller

LEMMA StoresStep ==
  ASSUME TypeOK, StoresInv, [Next]_vars
  PROVE  StoresInv'
<1>1. ASSUME NEW g \in Grants, ApplyTuple(g) \/ DeleteTuple(g) PROVE StoresInv'
  BY <1>1 DEF ApplyTuple, DeleteTuple, StoresInv
<1>2. ASSUME NEW o \in Orgs, OrgReady(o) PROVE StoresInv'
  BY <1>2 DEF OrgReady, StoresInv
<1>3. ASSUME NEW o \in Orgs, DeleteOrgStore(o) PROVE StoresInv'
  BY <1>3 DEF DeleteOrgStore, StoresInv
<1>4. ASSUME NEW a \in Accounts, DeleteAccountInfo(a) PROVE StoresInv'
  BY <1>4, ConstantsAssumption DEF DeleteAccountInfo, StoresInv, TypeOK
<1>5. CASE UNCHANGED <<info, stores, grants>>
  BY <1>5 DEF StoresInv
<1> QED
  BY <1>1, <1>2, <1>3, <1>4, <1>5
  DEF Next, Controller, vars, CreatePolicy, EditPolicy, DeletePolicy, Begin, TakeExpression,
      NextStage, PatchStatus, Release, Refuse, Fault, Fail

LEMMA GrantsStep ==
  ASSUME patient, TypeOK, RunInv, StoresInv, GrantsInv, [Next]_vars
  PROVE  GrantsInv'
<1>0. policy \in Policies /\ run \in Runs
  BY DEF TypeOK, Policies, Runs
<1>1. ASSUME NEW spec \in Specs, CreatePolicy(spec) PROVE GrantsInv'
  <2>1. grants' = {} /\ run' = run /\ run.pc = "idle"
    BY <1>1 DEF CreatePolicy, GrantsInv, RunInv
  <2> QED
    BY <2>1 DEF GrantsInv
<1>2. ASSUME NEW spec \in Specs, EditPolicy(spec) PROVE GrantsInv'
  <2>1. /\ run.pc = "idle" /\ run' = run /\ grants' = grants
        /\ policy.phase = "live" /\ policy'.phase = "live"
        /\ policy'.managed = policy.managed /\ policy.managed = policy.spec
    BY <1>0, <1>2 DEF EditPolicy, Settled, Policies
  <2>2. \A g \in grants : Meant(policy'.spec \cup policy'.managed, g)
    BY <2>1, MeantGrows DEF GrantsInv
  <2> QED
    BY <2>1, <2>2 DEF GrantsInv
<1>3. CASE DeletePolicy
  <2>1. /\ run.pc = "idle" /\ run' = run /\ grants' = grants /\ policy'.phase = "deleting"
        /\ policy'.managed = policy.managed /\ policy'.spec = policy.spec
    BY <1>0, <1>3 DEF DeletePolicy, Settled, Policies
  <2> QED
    BY <2>1 DEF GrantsInv
<1>4. CASE UNCHANGED <<policy, run>> /\ grants' \subseteq grants
  BY <1>4 DEF GrantsInv
<1>5. CASE Begin
  <2>1. CASE policy.phase = "live"
    <3>1. /\ run'.pc = "remove" /\ run'.spec = policy.spec
          /\ run'.todo = policy.managed \ policy.spec /\ UNCHANGED <<policy, grants>>
      BY <1>5, <2>1 DEF Begin
    <3>2. \A g \in grants : Meant(policy.spec, g) \/ Meant(policy.managed \ policy.spec, g)
      BY DEF GrantsInv, Meant
    <3> QED
      BY <2>1, <3>1, <3>2 DEF GrantsInv
  <2>2. CASE policy.phase = "deleting"
    <3>1. /\ run'.pc = "finalize" /\ run'.todo = policy.spec /\ UNCHANGED <<policy, grants>>
      BY <1>5, <2>2 DEF Begin
    <3>2. policy.managed = policy.spec
      BY <2>2 DEF RunInv
    <3> QED
      BY <2>2, <3>1, <3>2 DEF GrantsInv
  <2>3. CASE policy.phase = "absent"
    BY <1>4, <1>5, <2>3 DEF Begin
  <2> QED
    BY <1>0, <2>1, <2>2, <2>3 DEF Policies
<1>6. CASE NextStage
  <2>1. \A g : ~ Meant({}, g)
    BY DEF Meant
  <2>2. /\ UNCHANGED <<policy, grants>> /\ run.work = {} /\ run.todo = {}
        /\ run'.spec = run.spec /\ run'.work = {}
        /\ \/ run.pc = "remove" /\ run'.pc = "apply" /\ run'.todo = run.spec
           \/ run.pc = "apply" /\ run'.pc = "patch"
           \/ run.pc = "finalize" /\ run'.pc = "release"
    BY <1>0, <1>6 DEF NextStage, Runs
  <2>3. CASE run.pc = "remove"
    <3>1. \A g \in grants : Meant(run.spec, g)
      BY <2>1, <2>2, <2>3 DEF GrantsInv
    <3> QED
      BY <2>2, <2>3, <3>1 DEF GrantsInv
  <2>4. CASE run.pc = "apply"
    <3>1. \A g \in grants : Meant(run.spec, g)
      BY <2>4 DEF GrantsInv
    <3> QED
      BY <2>2, <2>4, <3>1 DEF GrantsInv
  <2>5. CASE run.pc = "finalize"
    <3>1. grants = {}
      BY <2>1, <2>2, <2>5 DEF GrantsInv
    <3> QED
      BY <2>2, <2>5, <3>1 DEF GrantsInv
  <2> QED
    BY <2>2, <2>3, <2>4, <2>5
<1>7. CASE PatchStatus
  <2>1. /\ run'.pc = "idle" /\ grants' = grants /\ policy'.managed = run.spec
        /\ policy'.spec = policy.spec /\ policy'.phase = policy.phase /\ run.pc = "patch"
    BY <1>0, <1>7 DEF PatchStatus, Policies, Idle
  <2>2. \A g \in grants : Meant(policy'.spec \cup policy'.managed, g)
    BY <2>1, MeantGrows DEF GrantsInv
  <2> QED
    BY <2>1, <2>2 DEF GrantsInv
<1>8. CASE Release
  BY <1>8 DEF GrantsInv, Release, Idle
<1>9. CASE Refuse \/ Fault
  <2>0. run' = Idle /\ UNCHANGED <<policy, grants>>
    BY <1>9 DEF Refuse, Fault, Fail
  <2>1. run'.pc = "idle" /\ UNCHANGED <<policy, grants>>
    BY <2>0 DEF Idle
  <2>2. \A g \in grants : Meant(policy'.spec \cup policy'.managed, g)
    BY <2>1 DEF GrantsInv
  <2>3. policy'.phase = "absent" => grants = {}
    BY <2>1 DEF GrantsInv
  <2> QED
    BY <2>1, <2>2, <2>3 DEF GrantsInv
<1>10. ASSUME NEW e \in Expressions, TakeExpression(e) PROVE GrantsInv'
  <2>1. /\ UNCHANGED <<policy, grants>> /\ e \in run.todo /\ run.work = {}
        /\ run'.pc = run.pc /\ run'.spec = run.spec /\ run'.todo = run.todo \ {e}
        /\ run'.work = Stand(e, run.pc # "apply") \X {Relation(e)}
    BY <1>0, <1>10 DEF TakeExpression, Runs
  <2>2. CASE run.pc = "apply"
    <3>1. e \in run.spec /\ run'.todo \subseteq run.spec
      BY <2>1, <2>2 DEF GrantsInv
    <3>2. \A g \in run'.work : Meant(run.spec, g)
      BY <2>1, <2>2, <3>1, AppliedExpression
    <3> QED
      BY <2>1, <2>2, <3>1, <3>2 DEF GrantsInv
  <2>3. CASE run.pc # "apply"
    <3>1. \A g \in grants : Meant(run.todo, g) => Meant(run'.todo, g) \/ g \in run'.work
      BY <2>1, <2>3, TakenExpression
    <3> QED
      BY <2>1, <2>3, <3>1 DEF GrantsInv
  <2> QED
    BY <2>2, <2>3
<1>11. ASSUME NEW g \in Grants, DeleteTuple(g) PROVE GrantsInv'
  <2>1. /\ UNCHANGED policy /\ grants' = grants \ {g} /\ run.pc \in {"remove", "finalize"}
        /\ run'.pc = run.pc /\ run'.spec = run.spec /\ run'.todo = run.todo
        /\ run'.work = run.work \ {g}
    BY <1>0, <1>11 DEF DeleteTuple, Runs
  <2> QED
    BY <2>1 DEF GrantsInv
<1>12. ASSUME NEW g \in Grants, ApplyTuple(g) PROVE GrantsInv'
  <2>1. /\ UNCHANGED policy /\ grants' = grants \cup {g} /\ run.pc = "apply"
        /\ run'.pc = run.pc /\ run'.spec = run.spec /\ run'.todo = run.todo
        /\ run'.work = run.work \ {g} /\ g \in run.work
    BY <1>0, <1>12 DEF ApplyTuple, Runs
  <2>2. run.spec = policy.spec /\ policy.phase # "absent"
    BY <2>1 DEF RunInv
  <2>3. Meant(run.spec, g)
    BY <2>1 DEF GrantsInv
  <2>4. Meant(policy.spec \cup policy.managed, g)
    BY <2>2, <2>3, MeantGrows
  <2> QED
    BY <2>1, <2>2, <2>3, <2>4 DEF GrantsInv
<1>13. ASSUME NEW o \in Orgs, OrgReady(o) \/ DeleteOrgStore(o)
       PROVE  UNCHANGED <<policy, run>> /\ grants' \subseteq grants
  BY <1>13 DEF OrgReady, DeleteOrgStore
<1>14. ASSUME NEW a \in Accounts, DeleteAccountInfo(a)
       PROVE  UNCHANGED <<policy, run>> /\ grants' \subseteq grants
  BY <1>14 DEF DeleteAccountInfo
<1>15. CASE UNCHANGED vars
  BY <1>4, <1>15 DEF vars
<1> QED
  BY <1>1, <1>2, <1>3, <1>4, <1>5, <1>6, <1>7, <1>8, <1>9, <1>10, <1>11, <1>12, <1>13, <1>14,
     <1>15
  DEF Next, Controller

LEMMA PatienceStays == [Next]_vars => patient' = patient
  BY DEF Next, Controller, vars, MayEdit, CreatePolicy, EditPolicy, DeletePolicy, OrgReady,
         DeleteOrgStore, DeleteAccountInfo, Begin, TakeExpression, DeleteTuple, ApplyTuple,
         NextStage, PatchStatus, Release, Refuse, Fault, Fail

LEMMA FoundedGrants ==
  ASSUME TypeOK, StoresInv, patient => GrantsInv
  PROVE  NoUnfoundedGrant
<1> SUFFICES ASSUME patient, NEW g \in grants
             PROVE  g \in Granted(policy.spec \cup policy.managed \cup run.spec)
  BY DEF NoUnfoundedGrant
<1>1. g \in Grants /\ OrgOf[g[1]] \in stores
  BY DEF TypeOK, StoresInv
<1>2. PICK e \in policy.spec \cup policy.managed : /\ e.path # RootOrgs => g[1] = e.path
                                                   /\ e.path = RootOrgs => g[1] \in Orgs
                                                   /\ g[2] = Relation(e)
  BY DEF GrantsInv, Meant
<1>3. g[1] \in Orgs => g[1] \in info
  BY <1>1, ConstantsAssumption DEF StoresInv
<1>4. g[1] \in Stand(e, FALSE)
  BY <1>2, <1>3 DEF Stand
<1> QED
  BY <1>1, <1>2, <1>4 DEF Granted

\* Users who wait for the controller take away with an expression, or with the
\* policy, all that it granted: whatever organizations and accounts do meanwhile,
\* and wherever a reconcile fails.
THEOREM NoUnfoundedGrantCorrect == Spec => []NoUnfoundedGrant
<1> DEFINE Founded == patient => RunInv /\ GrantsInv
<1>1. Init => RunInv /\ StoresInv /\ GrantsInv
  <2> SUFFICES ASSUME Init PROVE RunInv /\ StoresInv /\ GrantsInv
    OBVIOUS
  <2>1. stores \subseteq info
    BY ConstantsAssumption DEF Init
  <2> QED
    BY <2>1 DEF Init, RunInv, StoresInv, GrantsInv, NoPolicy, Idle
<1>2. TypeOK /\ StoresInv /\ Founded /\ [Next]_vars => StoresInv' /\ Founded'
  BY PatienceStays, RunStep, StoresStep, GrantsStep
<1>3. TypeOK /\ StoresInv /\ Founded => NoUnfoundedGrant
  BY FoundedGrants
<1>4. Init => StoresInv /\ Founded
  BY <1>1
<1> HIDE DEF Founded
<1> QED
  BY <1>2, <1>3, <1>4, ExportPolicyTypeCorrect, PTL DEF Spec
=============================================================================
