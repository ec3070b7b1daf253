---------------------------- MODULE ExportPolicy ----------------------------
(***************************************************************************)
(* One APIExportPolicy: the workspaces its allowPathExpressions name may   *)
(* bind the API export it refers to.  Its controller writes one tuple into *)
(* the OpenFGA store of an organization for every account an expression    *)
(* stands for, and takes tuples away with the expressions.                 *)
(*                                                                         *)
(* Every call to OpenFGA is a step; organizations and accounts come and go *)
(* and users edit the policy in between.                                   *)
(***************************************************************************)
EXTENDS Integers, FiniteSets

CONSTANTS
  Accounts,      \* accounts, organizations included
  Orgs,          \* those of type org
  OrgOf,         \* [Accounts -> Orgs]
  Specs,         \* contents of spec.allowPathExpressions: sets of expressions
  MaxEdits,      \* bound: edits of the policy, accounts that come or go, by patience
  MaxFaults,     \* bound: calls that fail, processes that are lost, by patience
  Patience       \* whether users wait for the controller: the values to consider

ASSUME ConstantsAssumption ==
  /\ Orgs \subseteq Accounts
  /\ OrgOf \in [Accounts -> Orgs] /\ \A o \in Orgs : OrgOf[o] = o
  /\ MaxEdits \in [BOOLEAN -> Nat] /\ MaxFaults \in [BOOLEAN -> Nat]
  /\ Patience \subseteq BOOLEAN

VARIABLES
  policy,   \* the APIExportPolicy
  info,     \* accounts whose AccountInfo exists
  stores,   \* organizations that have a store in OpenFGA
  grants,   \* tuples in OpenFGA for this API export: account and relation
  queued,
  run,      \* the reconcile
  patient,  \* users wait for the controller, and do not pull accounts from under it
  lost,     \* an organization went that the policy named (only observed)
  edits, faults

vars == <<policy, info, stores, grants, queued, run, patient, lost, edits, faults>>

\* An expression: a path, with or without ":*" at its end. "root:orgs" is the
\* path of no account, and a path outside of it is refused.
RootOrgs    == "root:orgs"
Outside     == "outside"
Expressions == [path : Accounts \cup {RootOrgs, Outside}, star : BOOLEAN]
Relations   == {"bind", "bind_inherited"}
Grants      == Accounts \X Relations

ASSUME SpecsAssumption == Specs \subseteq SUBSET Expressions

\* parseAllowExpression
Valid(e)    == e.path \in Accounts \/ (e.path = RootOrgs /\ e.star)

\* Mutant: the relation is set for wildcards only.
RelationOfWildcards(e) == IF e.star THEN "bind_inherited" ELSE ""
Relation(e) == IF e.star THEN "bind_inherited" ELSE "bind"

PCs == {"idle", "remove", "apply", "patch", "finalize", "release"}

TypeOK ==
  /\ policy \in [phase : {"absent", "live", "deleting"}, spec : SUBSET Expressions,
                 managed : SUBSET Expressions]
  /\ info \in SUBSET Accounts
  /\ stores \in SUBSET Orgs
  /\ grants \in SUBSET Grants
  /\ queued \in BOOLEAN
  /\ run \in [pc : PCs, spec : SUBSET Expressions, todo : SUBSET Expressions,
              work : SUBSET Grants]
  /\ patient \in BOOLEAN /\ lost \in BOOLEAN
  /\ edits \in 0 .. MaxEdits[patient]
  /\ faults \in 0 .. MaxFaults[patient]

NoPolicy == [phase |-> "absent", spec |-> {}, managed |-> {}]
Idle     == [pc |-> "idle", spec |-> {}, todo |-> {}, work |-> {}]

Init ==
  /\ policy = NoPolicy
  /\ stores \in SUBSET Orgs
  /\ info = {a \in Accounts : OrgOf[a] \in stores}
  /\ grants = {}
  /\ queued = FALSE /\ run = Idle
  /\ patient \in Patience /\ lost = FALSE
  /\ edits = 0 /\ faults = 0

----------------------------------------------------------------------------
(* Users, organizations and accounts.                                      *)

MayEdit ==
  /\ edits < MaxEdits[patient] /\ edits' = edits + 1
  /\ UNCHANGED <<patient, faults>>

Settled == run.pc = "idle" /\ policy.managed = policy.spec

\* The policy or the reconcile still needs an AccountInfo of this organization.
NamedIn(o) ==
  \E e \in policy.spec \cup policy.managed \cup run.spec \cup run.todo :
     e.path \in Accounts /\ OrgOf[e.path] = o

Reachable(spec) ==
  \A e \in spec : /\ Valid(e)
                  /\ e.path # RootOrgs => e.path \in info /\ OrgOf[e.path] \in stores

CreatePolicy(spec) ==
  /\ MayEdit
  /\ policy.phase = "absent"
  /\ patient => Reachable(spec)
  /\ policy' = [phase |-> "live", spec |-> spec, managed |-> {}]
  /\ queued' = TRUE
  /\ UNCHANGED <<info, stores, grants, run, lost>>

EditPolicy(spec) ==
  /\ MayEdit
  /\ policy.phase # "absent" /\ policy.spec # spec
  /\ patient => policy.phase = "live" /\ Settled /\ Reachable(spec)
  /\ policy' = [policy EXCEPT !.spec = spec]
  /\ queued' = TRUE
  /\ UNCHANGED <<info, stores, grants, run, lost>>

DeletePolicy ==
  /\ MayEdit
  /\ policy.phase = "live"
  /\ patient => Settled
  /\ policy' = [policy EXCEPT !.phase = "deleting"]
  /\ queued' = TRUE
  /\ UNCHANGED <<info, stores, grants, run, lost>>

\* Mutant: the event of a new organization enqueues no policy.
IgnoreReadyOrg(o) ==
  /\ MayEdit
  /\ o \notin info \cup stores
  /\ info' = info \cup {o}
  /\ stores' = stores \cup {o}
  /\ UNCHANGED <<policy, grants, queued, run, lost>>

\* An organization becomes ready. The watch enqueues the policies that have the
\* expression root:orgs:*.
OrgReady(o) ==
  /\ MayEdit
  /\ o \notin info \cup stores
  /\ info' = info \cup {o}
  /\ stores' = stores \cup {o}
  /\ queued' = (queued \/ (policy.phase # "absent" /\ [path |-> RootOrgs, star |-> TRUE] \in policy.spec))
  /\ UNCHANGED <<policy, grants, run, lost>>

\* An organization loses its store, an account its AccountInfo.
DeleteOrgStore(o) ==
  /\ MayEdit
  /\ o \in stores
  /\ patient => ~ NamedIn(o)
  /\ lost' = (lost \/ NamedIn(o))
  /\ stores' = stores \ {o}
  /\ grants' = {g \in grants : OrgOf[g[1]] # o}
  /\ UNCHANGED <<policy, info, queued, run>>

DeleteAccountInfo(a) ==
  /\ a \in info
  /\ OrgOf[a] \notin stores
  /\ info' = info \ {a}
  /\ UNCHANGED <<policy, stores, grants, queued, run, patient, lost, edits, faults>>

----------------------------------------------------------------------------
(* The controller.                                                         *)

Begin ==
  /\ queued
  /\ run.pc = "idle"
  /\ queued' = FALSE
  /\ run' = CASE policy.phase = "live" ->
                   [pc |-> "remove", spec |-> policy.spec,
                    todo |-> policy.managed \ policy.spec, work |-> {}]
              [] policy.phase = "deleting" ->
                   [pc |-> "finalize", spec |-> policy.spec, todo |-> policy.spec,
                    work |-> {}]
              [] OTHER -> run
  /\ UNCHANGED <<policy, info, stores, grants, patient, lost, edits, faults>>

\* Accounts an expression stands for: root:orgs:* is for the organizations when
\* tuples are written, and for every account when they are deleted.
Stand(e, deleting) ==
  IF e.path # RootOrgs THEN {e.path} ELSE IF deleting THEN info ELSE info \cap Orgs

TakeExpression(e) ==
  /\ run.pc \in {"remove", "apply", "finalize"}
  /\ run.work = {} /\ e \in run.todo
  /\ Valid(e) /\ e.path \in info \cup {RootOrgs}
  /\ run' = [run EXCEPT !.todo = @ \ {e},
                        !.work = Stand(e, run.pc # "apply") \X {Relation(e)}]
  /\ UNCHANGED <<policy, info, stores, grants, queued, patient, lost, edits, faults>>

\* Mutants: the tuple is not deleted; one that is gone already is an error.
KeepTuple(g) ==
  /\ run.pc \in {"remove", "finalize"}
  /\ g \in run.work /\ OrgOf[g[1]] \in stores
  /\ run' = [run EXCEPT !.work = @ \ {g}]
  /\ UNCHANGED <<policy, info, stores, grants, queued, patient, lost, edits, faults>>

DeleteExistingTuple(g) ==
  /\ run.pc \in {"remove", "finalize"}
  /\ g \in run.work \cap grants /\ OrgOf[g[1]] \in stores
  /\ grants' = grants \ {g}
  /\ run' = [run EXCEPT !.work = @ \ {g}]
  /\ UNCHANGED <<policy, info, stores, queued, patient, lost, edits, faults>>

DeleteTuple(g) ==
  /\ run.pc \in {"remove", "finalize"}
  /\ g \in run.work /\ OrgOf[g[1]] \in stores
  /\ grants' = grants \ {g}
  /\ run' = [run EXCEPT !.work = @ \ {g}]
  /\ UNCHANGED <<policy, info, stores, queued, patient, lost, edits, faults>>

ApplyTuple(g) ==
  /\ run.pc = "apply"
  /\ g \in run.work /\ OrgOf[g[1]] \in stores
  /\ grants' = grants \cup {g}
  /\ run' = [run EXCEPT !.work = @ \ {g}]
  /\ UNCHANGED <<policy, info, stores, queued, patient, lost, edits, faults>>

NextStage ==
  /\ run.work = {} /\ run.todo = {}
  /\ \/ run.pc = "remove" /\ run' = [run EXCEPT !.pc = "apply", !.todo = run.spec]
     \/ run.pc = "apply" /\ run' = [run EXCEPT !.pc = "patch"]
     \/ run.pc = "finalize" /\ run' = [run EXCEPT !.pc = "release"]
  /\ UNCHANGED <<policy, info, stores, grants, queued, patient, lost, edits, faults>>

\* The status patch carries the expressions the reconcile started with.
PatchStatus ==
  /\ run.pc = "patch"
  /\ policy' = [policy EXCEPT !.managed = run.spec]
  /\ run' = Idle
  /\ UNCHANGED <<info, stores, grants, queued, patient, lost, edits, faults>>

Release ==
  /\ run.pc = "release"
  /\ policy' = NoPolicy
  /\ run' = Idle
  /\ UNCHANGED <<info, stores, grants, queued, patient, lost, edits, faults>>

Fail ==
  /\ run' = Idle
  /\ queued' = TRUE
  /\ UNCHANGED <<policy, info, stores, grants, patient, lost, edits>>

\* The expression does not parse, the workspace has no AccountInfo, or there is
\* no store of the organization's name.
Refuse ==
  /\ \/ run.pc \in {"remove", "apply", "finalize"} /\ run.work = {}
        /\ \E e \in run.todo : ~ (Valid(e) /\ e.path \in info \cup {RootOrgs})
     \/ \E g \in run.work : OrgOf[g[1]] \notin stores
  /\ UNCHANGED faults
  /\ Fail

Fault ==
  /\ run.pc # "idle"
  /\ faults < MaxFaults[patient] /\ faults' = faults + 1
  /\ Fail

Controller ==
  \/ Begin \/ NextStage \/ PatchStatus \/ Release \/ Refuse
  \/ \E e \in Expressions : TakeExpression(e)
  \/ \E g \in Grants : DeleteTuple(g) \/ ApplyTuple(g)

Next ==
  \/ \E spec \in Specs : CreatePolicy(spec) \/ EditPolicy(spec)
  \/ DeletePolicy
  \/ \E o \in Orgs : OrgReady(o) \/ DeleteOrgStore(o)
  \/ \E a \in Accounts : DeleteAccountInfo(a)
  \/ Controller
  \/ Fault

Spec == Init /\ [][Next]_vars

\* The worker runs, and the deletion of an organization goes on.
FairSpec ==
  /\ Spec
  /\ WF_vars(Controller)
  /\ \A a \in Accounts : WF_vars(DeleteAccountInfo(a))

----------------------------------------------------------------------------
(* Properties.                                                             *)

\* Tuples a set of expressions stands for, in the stores there are.
Granted(spec) ==
  {g \in Grants : /\ OrgOf[g[1]] \in stores
                  /\ \E e \in spec : g[1] \in Stand(e, FALSE) /\ g[2] = Relation(e)}

\* With patient users a bind permission in OpenFGA is one that an expression in the
\* spec, in the status or in the reconcile under way stands for: when an expression
\* or the whole policy is gone, so is what it granted (Finalize,
\* deleteRemovedExpressions).
NoUnfoundedGrant ==
  patient => grants \subseteq Granted(policy.spec \cup policy.managed \cup run.spec)

\* Once edits stop, a live policy permits whatever its expressions stand for, in
\* organizations that became ready after it too, and also where an expression that was
\* dropped overlaps with one that stays; with patient users it permits nothing else.
\* An expression that cannot be carried out, in the spec or about to be taken away,
\* holds up all others, and a named organization that is replaced is not noticed.
GrantsConverge ==
  <>[](policy.phase = "live" /\ Reachable(policy.spec \cup policy.managed) /\ ~ lost =>
         /\ Granted(policy.spec) \subseteq grants
         /\ patient => grants = Granted(policy.spec))

\* The deletion of a policy completes, unless an expression of impatient users
\* cannot be carried out: Finalize fails on it for ever.
PolicyDeletionCompletes ==
  <>[](policy.phase = "deleting" => ~ patient /\ ~ Reachable(policy.spec))
=============================================================================
