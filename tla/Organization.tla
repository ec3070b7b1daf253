---------------------------- MODULE Organization ----------------------------
(***************************************************************************)
(* The logical cluster of a new organization.  Four subroutines prepare it *)
(* one after the other: a Store with the creator's tuples, an              *)
(* IdentityProviderConfiguration with the organization's OIDC clients,     *)
(* which go into the AccountInfo, an Invite for the creator, and the       *)
(* authentication configuration with the clients of the AccountInfo as     *)
(* audiences.  The initializer runs them until all are done and takes its  *)
(* mark off the cluster; from then on the operator repeats them, when it   *)
(* starts and when the cluster changes.                                    *)
(*                                                                         *)
(* Of the controllers of the Store and of the IdentityProviderConfiguration*)
(* only what Provisioning says is known here; the Invite is reconciled in  *)
(* full.                                                                   *)
(***************************************************************************)
EXTENDS Integers, FiniteSets

CONSTANTS
  Tuples,       \* the tuples of the organization's creator
  Base,         \* the clients of the organization
  OrgClient,    \* the one of them that is named like it
  UserClients,  \* clients that users add
  Types,        \* the WorkspaceTypes of the organization
  MaxEdits,     \* bound: edits of the clients by users, restarts
  MaxFaults     \* bound: calls that fail, processes that stop

Clients   == Base \cup UserClients
Processes == {"initializer", "operator"}

ASSUME OrganizationAssumption ==
  /\ OrgClient \in Base
  /\ Base \cap UserClients = {}
  /\ MaxEdits \in Nat /\ MaxFaults \in Nat

VARIABLES
  lc,        \* the cluster: still initializing, in a work queue
  creator,   \* the Account has a creator
  info, seen,          \* the AccountInfo, and each process's cache of it
  store, idp,          \* the two objects and what they provide: see Provisioning
  idpReady,            \* the Ready condition of the IdentityProviderConfiguration
  outdated,            \* its redirect URLs are not those of the configuration
  audiences, patched,  \* the authentication configuration, the types that use it
  run,                 \* the reconcile of the cluster
  asked, crossed,      \* the clients of users; they changed during a patch (observed)
  invite, user, inviteRun, abandoned,   \* see Invite
  edits, faults

cluster == <<lc, creator, info, seen>>
desk    == <<idpReady, outdated, asked, crossed>>
auth    == <<audiences, patched>>
count   == <<edits, faults>>
invited == <<invite, user, inviteRun, abandoned>>
vars    == <<cluster, store, idp, desk, auth, run, invited, count>>

StoreOf == INSTANCE Provisioning WITH Things <- Tuples, obj <- store
IdpOf   == INSTANCE Provisioning WITH Things <- Clients, obj <- idp
Inviter == INSTANCE Invite WITH info <- seen["operator"], clients <- idp.granted

----------------------------------------------------------------------------
NoInfo == [exists |-> FALSE, clients |-> {}]
Infos  == [exists : BOOLEAN, clients : SUBSET Clients]
Idle   == [pc |-> "idle", clients |-> {}, found |-> FALSE, types |-> {}]
Runs   == [pc : {"idle", "account", "store", "idp", "patch", "wait", "info", "invite",
                 "ready", "audiences", "types", "done"},
           clients : SUBSET Clients, found : BOOLEAN, types : SUBSET Types]

TypeOK ==
  /\ lc \in [initializing : BOOLEAN, queued : BOOLEAN]
  /\ creator \in BOOLEAN
  /\ info \in Infos /\ seen \in [Processes -> Infos]
  /\ store \in StoreOf!Objects /\ idp \in IdpOf!Objects
  /\ idpReady \in BOOLEAN /\ outdated \in BOOLEAN
  /\ asked \in SUBSET UserClients /\ crossed \in BOOLEAN
  /\ audiences \in SUBSET Clients /\ patched \in SUBSET Types
  /\ run \in Runs
  /\ Inviter!InviteTypeOK
  /\ edits \in 0 .. MaxEdits /\ faults \in 0 .. MaxFaults

Init ==
  /\ lc = [initializing |-> TRUE, queued |-> TRUE]
  /\ creator = FALSE
  /\ info = NoInfo /\ seen = [p \in Processes |-> NoInfo]
  /\ StoreOf!Init /\ store.bound
  /\ IdpOf!Init /\ idp.bound
  /\ idpReady = FALSE /\ outdated = FALSE
  /\ asked = {} /\ crossed = FALSE
  /\ audiences = {} /\ patched = {}
  /\ run = Idle
  /\ Inviter!InviteInit
  /\ edits = 0 /\ faults = 0

\* The process that reconciles the cluster: the initializer sees clusters that
\* carry its mark, the operator those that have lost it.
Process == IF lc.initializing THEN "initializer" ELSE "operator"

----------------------------------------------------------------------------
(* The reconcile of the cluster.                                           *)

Go(next) ==
  /\ run' = next
  /\ UNCHANGED count

\* Mutant: the reconcile stops for good.
StopForGood ==
  /\ run' = Idle
  /\ UNCHANGED <<cluster, count>>

\* An error, or a StopWithRequeue.
Requeue ==
  /\ run' = Idle
  /\ lc' = [lc EXCEPT !.queued = TRUE]
  /\ UNCHANGED <<creator, info, seen, count>>

Begin ==
  /\ lc.queued /\ run.pc = "idle"
  /\ lc' = [lc EXCEPT !.queued = FALSE]
  /\ Go([run EXCEPT !.pc = "account"])
  /\ UNCHANGED <<creator, info, seen, store, idp, desk, auth, invited>>

ReadAccount ==
  /\ run.pc = "account"
  /\ IF seen[Process].exists /\ creator
     THEN Go([run EXCEPT !.pc = "store"]) /\ UNCHANGED cluster
     ELSE Requeue
  /\ UNCHANGED <<store, idp, desk, auth, invited>>

\* Mutant: the status of the Store is not looked at.
WriteStoreOnly ==
  /\ run.pc = "store"
  /\ IF store.wanted # Tuples
     THEN StoreOf!Ask(Tuples) /\ Requeue
     ELSE /\ UNCHANGED store
          /\ Go([run EXCEPT !.pc = "idp"]) /\ UNCHANGED cluster
  /\ UNCHANGED <<idp, desk, auth, invited>>

\* A Store that had to be written, or whose status lacks a tuple, is waited for.
WriteStore ==
  /\ run.pc = "store"
  /\ IF store.wanted # Tuples
     THEN StoreOf!Ask(Tuples) /\ Requeue
     ELSE /\ UNCHANGED store
          /\ IF Tuples \subseteq store.recorded
             THEN Go([run EXCEPT !.pc = "idp"]) /\ UNCHANGED cluster
             ELSE Requeue
  /\ UNCHANGED <<idp, desk, auth, invited>>

\* Mutant: the clients of users are dropped.
ReplaceClients(existing) == (existing \ UserClients) \cup Base

\* Mutant: a client for every type of workspace.
ClientsOfTypes(existing) == existing \cup Base \cup Types

\* The list of clients that is patched: those it has, and the organization's.
EnsureClients(existing) == existing \cup Base

\* CreateOrPatch reads the object.
ReadIdp ==
  /\ run.pc = "idp"
  /\ Go([run EXCEPT !.pc = "patch", !.clients = idp.wanted, !.found = idp.phase = "live"])
  /\ UNCHANGED <<cluster, store, idp, desk, auth, invited>>

\* A patch sends the list as a whole, and no version with it.
PatchIdp ==
  LET desired == EnsureClients(run.clients) IN
  /\ run.pc = "patch"
  /\ run.found <=> idp.phase = "live"
  /\ IF run.found /\ desired = run.clients /\ ~ outdated
     THEN UNCHANGED <<idp, desk>>
     ELSE /\ IF desired = idp.wanted THEN UNCHANGED idp ELSE IdpOf!Ask(desired)
          /\ outdated' = FALSE
          /\ crossed' = (crossed \/ run.clients # idp.wanted)
          /\ UNCHANGED <<idpReady, asked>>
  /\ Go([run EXCEPT !.pc = "wait", !.clients = {}, !.found = FALSE])
  /\ UNCHANGED <<cluster, store, auth, invited>>

WaitForIdp ==
  /\ run.pc = "wait"
  /\ IF idpReady /\ idp.recorded # {} /\ idp.wanted \subseteq idp.recorded
     THEN Go([run EXCEPT !.pc = "info", !.clients = idp.recorded]) /\ UNCHANGED cluster
     ELSE Requeue
  /\ UNCHANGED <<store, idp, desk, auth, invited>>

\* The merge patch is the difference to the AccountInfo in the cache.
PatchAccountInfo ==
  LET old == seen[Process].clients IN
  /\ run.pc = "info"
  /\ info' = [info EXCEPT !.clients = (@ \ (old \ run.clients)) \cup (run.clients \ old)]
  /\ Go([run EXCEPT !.pc = "invite", !.clients = {}])
  /\ UNCHANGED <<lc, creator, seen, store, idp, desk, auth, invited>>

WriteInvite ==
  /\ run.pc = "invite"
  /\ Inviter!EnsureInvite
  /\ Go([run EXCEPT !.pc = "ready"])
  /\ UNCHANGED <<cluster, store, idp, desk, auth>>

WaitForInvite ==
  /\ run.pc = "ready"
  /\ IF invite.ready THEN Go([run EXCEPT !.pc = "audiences"]) /\ UNCHANGED cluster
                     ELSE Requeue
  /\ UNCHANGED <<store, idp, desk, auth, invited>>

\* The AccountInfo is the one in the cache again, not the one just patched.
WriteAuthConfig ==
  /\ run.pc = "audiences"
  /\ IF seen[Process].clients = {}
     THEN Requeue /\ UNCHANGED auth
     ELSE /\ audiences' = seen[Process].clients
          /\ Go([run EXCEPT !.pc = "types", !.types = Types \ patched])
          /\ UNCHANGED <<cluster, patched>>
  /\ UNCHANGED <<store, idp, desk, invited>>

\* patchWorkspaceTypes, in the order of the list.
PatchType(t) ==
  /\ run.pc = "types" /\ t \in run.types
  /\ patched' = patched \cup {t}
  /\ Go([run EXCEPT !.types = @ \ {t}])
  /\ UNCHANGED <<cluster, store, idp, desk, audiences, invited>>

TypesPatched ==
  /\ run.pc = "types" /\ run.types = {}
  /\ Go([run EXCEPT !.pc = "done"])
  /\ UNCHANGED <<cluster, store, idp, desk, auth, invited>>

\* The lifecycle takes the mark off; that brings the cluster to the operator.
Finish ==
  /\ run.pc = "done"
  /\ lc' = [initializing |-> FALSE, queued |-> lc.queued \/ lc.initializing]
  /\ Go(Idle)
  /\ UNCHANGED <<creator, info, seen, store, idp, desk, auth, invited>>

Reconcile ==
  \/ Begin \/ ReadAccount \/ WriteStore \/ ReadIdp \/ PatchIdp \/ WaitForIdp
  \/ PatchAccountInfo \/ WriteInvite \/ WaitForInvite \/ WriteAuthConfig
  \/ (\E t \in Types : PatchType(t)) \/ TypesPatched \/ Finish

----------------------------------------------------------------------------
(* The other controllers.                                                  *)

\* The condition is set by a reconcile that did all the spec asked for.  Nothing
\* is promised once the bound was broken; such reports are counted as failures.
ServeStore(recorded, granted) ==
  /\ StoreOf!Serve(recorded, granted)
  /\ UNCHANGED <<cluster, idp, desk, auth, run, invited, count>>

ServeIdp(recorded, granted) ==
  /\ IdpOf!Serve(recorded, granted)
  /\ idpReady' = (idpReady \/ recorded = idp.wanted)
  /\ IF idp.bound \/ recorded = idp.wanted
     THEN UNCHANGED faults
     ELSE faults < MaxFaults /\ faults' = faults + 1
  /\ UNCHANGED <<cluster, store, outdated, asked, crossed, auth, run, invited, edits>>

InviteStep ==
  /\ Inviter!InviteStep
  /\ UNCHANGED <<cluster, store, idp, desk, auth, run, count>>

SignUp ==
  /\ Inviter!SignUp
  /\ UNCHANGED <<cluster, store, idp, desk, auth, run, count>>

Deliver(p) ==
  /\ seen' = [seen EXCEPT ![p] = info]
  /\ UNCHANGED <<lc, creator, info, store, idp, desk, auth, run, invited, count>>

----------------------------------------------------------------------------
(* Users, the account operator, failures.                                  *)

CreateAccountInfo ==
  /\ ~ info.exists
  /\ info' = [info EXCEPT !.exists = TRUE]
  /\ UNCHANGED <<lc, creator, seen, store, idp, desk, auth, run, invited, count>>

SetCreator ==
  /\ ~ creator
  /\ creator' = TRUE
  /\ UNCHANGED <<lc, info, seen, store, idp, desk, auth, run, invited, count>>

\* Users add a client or take one away, when the last change is done.
EditClients(own) ==
  /\ idp.phase = "live" /\ IdpOf!Settled
  /\ own # asked
  /\ edits < MaxEdits /\ edits' = edits + 1
  /\ asked' = own
  /\ IdpOf!Ask((idp.wanted \ UserClients) \cup own)
  /\ UNCHANGED <<cluster, store, idpReady, outdated, crossed, auth, run, invited, faults>>

\* Both processes start again, with other redirect URLs.
Restart ==
  /\ edits < MaxEdits /\ edits' = edits + 1
  /\ lc' = [lc EXCEPT !.queued = TRUE]
  /\ outdated' = TRUE
  /\ run' = Idle
  /\ Inviter!RestartInvite
  /\ UNCHANGED <<creator, info, seen, store, idp, idpReady, asked, crossed, auth, faults>>

Fault ==
  /\ faults < MaxFaults /\ faults' = faults + 1
  /\ UNCHANGED <<edits, store, idp, outdated, asked, crossed, auth>>
  /\ \/ /\ run.pc # "idle"
        /\ run' = Idle /\ lc' = [lc EXCEPT !.queued = TRUE]
        /\ UNCHANGED <<creator, info, seen, idpReady, invited>>
     \/ Inviter!BreakInvite /\ UNCHANGED <<cluster, idpReady, run>>
     \/ idpReady /\ idpReady' = FALSE /\ UNCHANGED <<cluster, run, invited>>

Next ==
  \/ Reconcile
  \/ \E recorded, granted \in SUBSET Tuples : ServeStore(recorded, granted)
  \/ \E recorded, granted \in SUBSET Clients : ServeIdp(recorded, granted)
  \/ InviteStep \/ SignUp
  \/ \E p \in Processes : Deliver(p)
  \/ CreateAccountInfo \/ SetCreator
  \/ \E own \in SUBSET UserClients : EditClients(own)
  \/ Restart \/ Fault

Spec == Init /\ [][Next]_vars

\* Queues are worked off, caches catch up, and the two controllers do what
\* StoreReconciler and IdentityProvider do: StoreProvides, IdpProvides.
FairSpec ==
  /\ Spec
  /\ WF_vars(Reconcile)
  /\ WF_vars(InviteStep)
  /\ WF_vars(\E granted \in SUBSET Tuples : ServeStore(store.wanted, granted))
  /\ WF_vars(\E granted \in SUBSET Clients : ServeIdp(idp.wanted, granted))
  /\ \A p \in Processes : WF_vars(Deliver(p))

----------------------------------------------------------------------------
(* Properties.                                                             *)

\* The mark comes off an organization that can be used: the creator has its
\* tuples, the organization's clients are in Keycloak, in the AccountInfo and
\* among the audiences, the types refer to them and the invitation is done.  It
\* stays so whatever was seen late or failed on the way.
ReadyOrganizationIsUsable ==
  ~ lc.initializing =>
     /\ store.bound => Tuples \subseteq store.granted
     /\ idp.bound => Base \subseteq idp.granted
     /\ Base \subseteq info.clients
     /\ Base \subseteq audiences
     /\ patched = Types
     /\ user # "none"

\* "ensureClient updates only clients managed by this subroutine" (idp.go): the
\* clients of users are those they asked for, but for a change that fell between
\* the read and the patch.
UserClientsRespected ==
  ~ crossed => idp.wanted \ Base = asked

\* Whoever is taken for invited got the e-mail or registered himself, unless a
\* reconcile stopped between the two calls (invite/subroutine.go).
InviteReachesCreator ==
  invite.ready => user \in {"mailed", "self"} \/ abandoned

\* An organization with an AccountInfo and a creator becomes ready, whatever the
\* failures and however late the caches, if its clients are edited only when the
\* last edit is done.
OrganizationsBecomeReady ==
  <>(info.exists /\ creator) => <>(~ idp.bound \/ ~ lc.initializing)
=============================================================================
