------------------------- MODULE Organization_proofs -------------------------
(***************************************************************************)
(* Type correctness of Organization, and that the initializer's mark only  *)
(* comes off an organization that can be used, for any clients, tuples and *)
(* types.  The proof uses of the controllers of the Store and of the       *)
(* IdentityProviderConfiguration what Provisioning says, and no more.      *)
(***************************************************************************)
EXTENDS Organization, TLAPS

(***************************************************************************)
(* The two objects and the Invite: what their steps do to them.            *)
(***************************************************************************)

\* A new spec leaves what is recorded and granted alone.
LEMMA AskStore ==
  ASSUME store \in StoreOf!Objects, NEW wanted \in SUBSET Tuples, StoreOf!Ask(wanted)
  PROVE  /\ store' \in StoreOf!Objects
         /\ store'.phase = "live" /\ store'.wanted = wanted
         /\ store'.recorded = store.recorded /\ store'.granted = store.granted
         /\ store'.bound => /\ store.bound
                            /\ store.phase = "live" => store.recorded = store.wanted
  BY DEF StoreOf!Objects, StoreOf!Ask, StoreOf!Settled

LEMMA AskIdp ==
  ASSUME idp \in IdpOf!Objects, NEW wanted \in SUBSET Clients, IdpOf!Ask(wanted)
  PROVE  /\ idp' \in IdpOf!Objects
         /\ idp'.phase = "live" /\ idp'.wanted = wanted
         /\ idp'.recorded = idp.recorded /\ idp'.granted = idp.granted
         /\ idp'.bound => /\ idp.bound
                          /\ idp.phase = "live" => idp.recorded = idp.wanted
  BY DEF IdpOf!Objects, IdpOf!Ask, IdpOf!Settled

\* A report leaves the spec alone, and as long as the users have waited it takes
\* away and forgets nothing that is wanted.
LEMMA StoreReports ==
  ASSUME store \in StoreOf!Objects, NEW recorded \in SUBSET Tuples,
         NEW granted \in SUBSET Tuples, StoreOf!Serve(recorded, granted)
  PROVE  /\ store' \in StoreOf!Objects
         /\ store'.phase = store.phase /\ store'.wanted = store.wanted
         /\ store'.recorded = recorded /\ store'.granted = granted
         /\ store'.bound = store.bound
         /\ store.bound /\ store.phase = "live" =>
              /\ store.wanted \cap recorded \subseteq granted
              /\ store.wanted \cap store.recorded \subseteq recorded
  BY DEF StoreOf!Objects, StoreOf!Serve, StoreOf!Kept

LEMMA IdpReports ==
  ASSUME idp \in IdpOf!Objects, NEW recorded \in SUBSET Clients,
         NEW granted \in SUBSET Clients, IdpOf!Serve(recorded, granted)
  PROVE  /\ idp' \in IdpOf!Objects
         /\ idp'.phase = idp.phase /\ idp'.wanted = idp.wanted
         /\ idp'.recorded = recorded /\ idp'.granted = granted
         /\ idp'.bound = idp.bound
         /\ idp.bound /\ idp.phase = "live" =>
              /\ idp.wanted \cap recorded \subseteq granted
              /\ idp.wanted \cap idp.recorded \subseteq recorded
  BY DEF IdpOf!Objects, IdpOf!Serve, IdpOf!Kept

\* Whatever happens to the Invite, it keeps its type, a user does not go away,
\* and nobody is taken for invited who has no user.
UserKnown ==
  /\ inviteRun.pc \in {"mail", "persist"} => user # "none"
  /\ invite.ready => user # "none"

InviteChange ==
  \/ Inviter!EnsureInvite \/ Inviter!SignUp \/ Inviter!InviteStep
  \/ Inviter!BreakInvite \/ Inviter!RestartInvite \/ UNCHANGED invited

InviteTypePcs == {"idle", "query", "client", "create", "mail", "persist"}

LEMMA GoesOn ==
  ASSUME Inviter!InviteTypeOK, NEW pc \in InviteTypePcs, Inviter!GoOn(pc)
  PROVE  /\ inviteRun'.pc = pc
         /\ inviteRun' \in [pc : InviteTypePcs, known : BOOLEAN]
         /\ invite' = invite /\ abandoned' = abandoned
<1>1. inviteRun \in [pc : InviteTypePcs, known : BOOLEAN]
  BY DEF Inviter!InviteTypeOK, InviteTypePcs
<1> HIDE DEF InviteTypePcs
<1> QED
  BY <1>1 DEF Inviter!GoOn

LEMMA Retries ==
  ASSUME Inviter!InviteTypeOK, Inviter!Retry
  PROVE  /\ inviteRun'.pc = "idle"
         /\ inviteRun' \in [pc : InviteTypePcs, known : BOOLEAN]
         /\ invite' \in [exists : BOOLEAN, ready : BOOLEAN, queued : BOOLEAN]
         /\ invite'.ready = FALSE
  BY DEF Inviter!InviteTypeOK, Inviter!Retry, Inviter!Waiting, InviteTypePcs

LEMMA InviteChanges ==
  ASSUME Inviter!InviteTypeOK, InviteChange
  PROVE  /\ Inviter!InviteTypeOK'
         /\ user # "none" => user' # "none"
         /\ UserKnown => UserKnown'
<1> USE DEF Inviter!InviteTypeOK, UserKnown, Inviter!Waiting
<1>1. CASE Inviter!EnsureInvite
  BY <1>1 DEF Inviter!EnsureInvite
<1>2. CASE Inviter!SignUp
  BY <1>2 DEF Inviter!SignUp
<1>3. CASE Inviter!BeginInvite
  <2> DEFINE known == OrgClient \in seen["operator"].clients
  <2>1. known \in BOOLEAN
    OBVIOUS
  <2>2. /\ invite' = [invite EXCEPT !.queued = FALSE]
        /\ inviteRun' = [pc |-> "query", known |-> known]
        /\ UNCHANGED <<user, abandoned>>
    BY <1>3, Zenon DEF Inviter!BeginInvite
  <2> HIDE DEF known
  <2> QED
    BY <2>1, <2>2
<1>4. CASE Inviter!QueryUsers
  <2>1. CASE user # "none" /\ Inviter!GoOn("persist")
    BY <2>1, <1>4, GoesOn DEF Inviter!QueryUsers, InviteTypePcs
  <2>2. CASE Inviter!GoOn("client")
    BY <2>2, <1>4, GoesOn DEF Inviter!QueryUsers, InviteTypePcs
  <2>3. CASE Inviter!Retry /\ UNCHANGED abandoned
    BY <2>3, <1>4, Retries DEF Inviter!QueryUsers, InviteTypePcs
  <2> QED
    BY <1>4, <2>1, <2>2, <2>3 DEF Inviter!QueryUsers
<1>5. CASE Inviter!VerifyClient
  <2>1. CASE Inviter!GoOn("create")
    BY <2>1, <1>5, GoesOn DEF Inviter!VerifyClient, InviteTypePcs
  <2>2. CASE Inviter!Retry /\ UNCHANGED abandoned
    BY <2>2, <1>5, Retries DEF Inviter!VerifyClient, InviteTypePcs
  <2> QED
    BY <1>5, <2>1, <2>2 DEF Inviter!VerifyClient
<1>6. CASE Inviter!CreateUser
  <2>1. CASE user' = "created" /\ Inviter!GoOn("mail")
    BY <2>1, <1>6, GoesOn DEF InviteTypePcs
  <2>2. CASE Inviter!Retry /\ UNCHANGED <<user, abandoned>>
    BY <2>2, <1>6, Retries DEF InviteTypePcs
  <2> QED
    BY <1>6, <2>1, <2>2 DEF Inviter!CreateUser
<1>7. CASE Inviter!SendMail
  <2>1. user' = "mailed" /\ Inviter!GoOn("persist")
    BY <1>7 DEF Inviter!SendMail
  <2> QED
    BY <2>1, GoesOn DEF InviteTypePcs
<1>8. CASE Inviter!PersistInvite
  BY <1>8 DEF Inviter!PersistInvite
<1>9. CASE Inviter!BreakInvite
  BY <1>9 DEF Inviter!BreakInvite, Inviter!Abandon, Inviter!Retry
<1>10. CASE Inviter!RestartInvite
  BY <1>10 DEF Inviter!RestartInvite, Inviter!Abandon
<1>11. CASE UNCHANGED invited
  BY <1>11 DEF invited
<1> QED
  BY <1>1, <1>2, <1>3, <1>4, <1>5, <1>6, <1>7, <1>8, <1>9, <1>10, <1>11
     DEF InviteChange, Inviter!InviteStep

(***************************************************************************)
(* Type correctness.                                                       *)
(***************************************************************************)
LEMMA Requeues ==
  ASSUME TypeOK, Requeue
  PROVE  /\ run' = Idle /\ run' \in Runs
         /\ lc' \in [initializing : BOOLEAN, queued : BOOLEAN]
         /\ lc'.initializing = lc.initializing
         /\ UNCHANGED <<creator, info, seen, edits, faults>>
  BY DEF TypeOK, Requeue, count, Idle, Runs

LEMMA InviteKept ==
  ASSUME TypeOK, UNCHANGED invited
  PROVE  Inviter!InviteTypeOK'
  BY InviteChanges DEF InviteChange, TypeOK

\* Every step keeps the types.
LEMMA TypeInductive ==
  ASSUME TypeOK, [Next]_vars
  PROVE  TypeOK'
<1> USE OrganizationAssumption DEF TypeOK, Runs, Infos, NoInfo, Idle, Clients,
          Processes, Process
<1>1. CASE Begin
  BY <1>1, InviteKept DEF Begin, cluster, count, invited, desk, auth, Go
<1>2. CASE ReadAccount
  <2>1. CASE Requeue
    BY <1>2, <2>1, Requeues, InviteKept DEF ReadAccount, cluster, count, invited, desk, auth
  <2>2. CASE ~ Requeue
    BY <1>2, <2>2, InviteKept DEF ReadAccount, Go, cluster, count, invited, desk, auth
  <2> QED
    BY <2>1, <2>2
<1>3. CASE WriteStore
  <2>0. store' \in StoreOf!Objects
    BY <1>3, AskStore DEF WriteStore
  <2>1. CASE Requeue
    BY <1>3, <2>1, <2>0, Requeues, InviteKept DEF WriteStore, cluster, count, invited, desk, auth
  <2>2. CASE ~ Requeue
    BY <1>3, <2>2, <2>0, InviteKept DEF WriteStore, Go, cluster, count, invited, desk, auth
  <2> QED
    BY <2>1, <2>2
<1>4. CASE ReadIdp
  <2> DEFINE found == idp.phase = "live"
  <2>1. found \in BOOLEAN /\ idp.wanted \in SUBSET Clients
    BY DEF IdpOf!Objects
  <2>2. run' = [run EXCEPT !.pc = "patch", !.clients = idp.wanted, !.found = found]
    BY <1>4, Zenon DEF ReadIdp, Go
  <2> HIDE DEF found
  <2>3. run' \in Runs
    BY <2>1, <2>2
  <2> QED
    BY <1>4, <2>3, InviteKept DEF ReadIdp, Go, cluster, count, invited, desk, auth
<1>5. CASE PatchIdp
  <2>1. EnsureClients(run.clients) \in SUBSET Clients
    BY DEF EnsureClients
  <2>2. idp' \in IdpOf!Objects
    BY <1>5, <2>1, AskIdp DEF PatchIdp
  <2> QED
    BY <1>5, <2>2, InviteChanges DEF PatchIdp, Go, InviteChange, cluster, count, invited, desk, auth
<1>6. CASE WaitForIdp
  <2>0. idp.recorded \in SUBSET Clients
    BY DEF IdpOf!Objects
  <2>1. CASE Requeue
    BY <1>6, <2>1, <2>0, Requeues, InviteKept DEF WaitForIdp, cluster, count, invited, desk, auth
  <2>2. CASE ~ Requeue
    BY <1>6, <2>2, <2>0, InviteKept DEF WaitForIdp, Go, cluster, count, invited, desk, auth
  <2> QED
    BY <2>1, <2>2
<1>7. CASE PatchAccountInfo
  BY <1>7, InviteKept DEF PatchAccountInfo, cluster, count, invited, desk, auth, Go
<1>8. CASE WriteInvite
  BY <1>8, InviteChanges DEF WriteInvite, Go, InviteChange, cluster, count, invited, desk, auth
<1>9. CASE WaitForInvite
  <2>1. CASE Requeue
    BY <1>9, <2>1, Requeues, InviteKept DEF WaitForInvite, cluster, count, invited, desk, auth
  <2>2. CASE ~ Requeue
    BY <1>9, <2>2, InviteKept DEF WaitForInvite, Go, cluster, count, invited, desk, auth
  <2> QED
    BY <2>1, <2>2
<1>10. CASE WriteAuthConfig
  <2>0. seen[Process].clients \in SUBSET Clients
    OBVIOUS
  <2>2. CASE Requeue
    BY <1>10, <2>2, Requeues, InviteKept DEF WriteAuthConfig, cluster, count, invited, desk, auth
  <2>3. CASE ~ Requeue
    <3>1. /\ audiences' = seen[Process].clients
          /\ run' = [run EXCEPT !.pc = "types", !.types = Types \ patched]
          /\ UNCHANGED <<cluster, patched, store, idp, desk, invited, count>>
      BY <1>10, <2>3 DEF WriteAuthConfig, Go
    <3>2. run' \in Runs
      BY <3>1
    <3> QED
      BY <2>0, <3>1, <3>2, InviteKept DEF cluster, count, invited, desk, auth
  <2> QED
    BY <2>2, <2>3
<1>11. ASSUME NEW t \in Types, PatchType(t)
      PROVE  TypeOK'
  BY <1>11, InviteKept DEF PatchType, cluster, count, invited, desk, auth, Go
<1>12. CASE TypesPatched
  BY <1>12, InviteKept DEF TypesPatched, cluster, count, invited, desk, auth, Go
<1>13. CASE Finish
  BY <1>13, InviteKept DEF Finish, cluster, count, invited, desk, auth, Go
<1>14. ASSUME NEW recorded \in SUBSET Tuples, NEW granted \in SUBSET Tuples, ServeStore(recorded, granted)
      PROVE  TypeOK'
  BY <1>14, StoreReports, InviteChanges DEF ServeStore, InviteChange, cluster, count, invited, desk, auth
<1>15. ASSUME NEW recorded \in SUBSET Clients, NEW granted \in SUBSET Clients, ServeIdp(recorded, granted)
      PROVE  TypeOK'
  <2>1. idpReady' \in BOOLEAN
    BY <1>15 DEF ServeIdp
  <2>2. idp' \in IdpOf!Objects
    BY <1>15, IdpReports DEF ServeIdp
  <2> QED
    BY <1>15, <2>1, <2>2, InviteChanges DEF ServeIdp, InviteChange, cluster, count, invited, desk, auth
<1>16. CASE InviteStep
  BY <1>16, InviteChanges DEF InviteStep, InviteChange, cluster, count, invited, desk, auth
<1>17. CASE SignUp
  BY <1>17, InviteChanges DEF SignUp, InviteChange, cluster, count, invited, desk, auth
<1>18. ASSUME NEW p \in Processes, Deliver(p)
      PROVE  TypeOK'
  BY <1>18, InviteKept DEF Deliver, cluster, count, invited, desk, auth
<1>19. CASE CreateAccountInfo
  BY <1>19, InviteKept DEF CreateAccountInfo, cluster, count, invited, desk, auth
<1>20. CASE SetCreator
  BY <1>20, InviteKept DEF SetCreator, cluster, count, invited, desk, auth
<1>21. ASSUME NEW own \in SUBSET UserClients, EditClients(own)
      PROVE  TypeOK'
  <2>1. (idp.wanted \ UserClients) \cup own \in SUBSET Clients
    BY DEF IdpOf!Objects
  <2>2. idp' \in IdpOf!Objects
    BY <1>21, <2>1, AskIdp DEF EditClients
  <2> QED
    BY <1>21, <2>2, InviteChanges DEF EditClients, InviteChange, cluster, count, invited, desk, auth
<1>22. CASE Restart
  <2>1. Inviter!InviteTypeOK'
    BY <1>22, InviteChanges DEF Restart, InviteChange
  <2>2. lc' \in [initializing : BOOLEAN, queued : BOOLEAN]
    BY <1>22 DEF Restart
  <2> QED
    BY <1>22, <2>1, <2>2 DEF Restart, cluster, count, invited, desk, auth
<1>23. CASE Fault
  <2>1. Inviter!InviteTypeOK'
    BY <1>23, InviteChanges DEF Fault, InviteChange
  <2>2. lc' \in [initializing : BOOLEAN, queued : BOOLEAN]
    BY <1>23 DEF Fault, cluster
  <2>3. run' \in Runs
    <3>1. run' = run \/ run' = Idle
      BY <1>23 DEF Fault
    <3>2. run \in Runs /\ Idle \in Runs
      OBVIOUS
    <3> QED
      BY <3>1, <3>2
  <2>4. faults' \in 0 .. MaxFaults
    BY <1>23 DEF Fault
  <2>5. idpReady' \in BOOLEAN /\ UNCHANGED <<creator, info, seen>>
    BY <1>23 DEF Fault, cluster
  <2> QED
    BY <1>23, <2>1, <2>2, <2>3, <2>4, <2>5 DEF Fault, cluster, count, invited, desk, auth
<1>24. CASE UNCHANGED vars
  BY <1>24, InviteKept DEF vars, cluster, count, invited, desk, auth
<1> QED
  BY <1>1, <1>2, <1>3, <1>4, <1>5, <1>6, <1>7, <1>8, <1>9, <1>10, <1>11, <1>12,
     <1>13, <1>14, <1>15, <1>16, <1>17, <1>18, <1>19, <1>20, <1>21, <1>22, <1>23, <1>24 DEF Next, Reconcile

LEMMA TypeHoldsFirst == Init => TypeOK
<1> SUFFICES ASSUME Init PROVE TypeOK
  OBVIOUS
<1>1. /\ lc \in [initializing : BOOLEAN, queued : BOOLEAN]
      /\ store \in StoreOf!Objects /\ idp \in IdpOf!Objects
      /\ Inviter!InviteTypeOK
  BY DEF Init, StoreOf!Init, IdpOf!Init, Inviter!InviteInit, Inviter!InviteTypeOK,
         Inviter!Waiting
<1>2. /\ info \in Infos /\ seen \in [Processes -> Infos] /\ run \in Runs
  BY DEF Init, Infos, NoInfo, Idle, Runs
<1>3. /\ creator \in BOOLEAN /\ idpReady \in BOOLEAN /\ outdated \in BOOLEAN
      /\ asked \in SUBSET UserClients /\ crossed \in BOOLEAN
      /\ audiences \in SUBSET Clients /\ patched \in SUBSET Types
  BY DEF Init
<1>4. edits \in 0 .. MaxEdits /\ faults \in 0 .. MaxFaults
  BY OrganizationAssumption DEF Init
<1> QED
  BY <1>1, <1>2, <1>3, <1>4 DEF TypeOK

\* Everything has its type, whatever the organization's tuples, clients and types
\* and whatever fails: the type invariant of the reconcile in
\* internal/subroutine/workspace_initializer.go, idp.go, invite.go and
\* workspace_authorization.go.
THEOREM OrganizationTypeCorrect == Spec => []TypeOK
<1>1. Init => TypeOK
  BY TypeHoldsFirst
<1>2. TypeOK /\ [Next]_vars => TypeOK'
  BY TypeInductive
<1> QED
  BY <1>1, <1>2, PTL DEF Spec
(***************************************************************************)
(* What the reconcile has behind it.  Each part speaks of one object.      *)
(***************************************************************************)

\* The reconcile is at one of these calls; or it has passed all of them once.
Passed(pcs) == ~ lc.initializing \/ run.pc \in pcs

\* The Store asks for the creator's tuples, and its status had them.
StoreInv ==
  /\ store.phase = "live" \/ (store.phase = "absent" /\ store.wanted = {}
                              /\ store.recorded = {} /\ store.granted = {})
  /\ store.bound /\ store.phase = "live" => store.wanted \cap store.recorded \subseteq store.granted
  /\ Passed({"idp", "patch", "wait", "info", "invite", "ready", "audiences", "types", "done"}) =>
       /\ store.wanted = Tuples
       /\ store.bound => Tuples \subseteq store.recorded

\* The same of the clients, which users may add to; the list that goes into the
\* AccountInfo has all of the organization.
IdpInv ==
  /\ idp.phase = "live" \/ (idp.phase = "absent" /\ idp.wanted = {}
                            /\ idp.recorded = {} /\ idp.granted = {})
  /\ idp.bound /\ idp.phase = "live" => idp.wanted \cap idp.recorded \subseteq idp.granted
  /\ idp.phase = "live" => Base \subseteq idp.wanted
  /\ Passed({"wait", "info", "invite", "ready", "audiences", "types", "done"}) =>
       idp.phase = "live"
  /\ Passed({"info", "invite", "ready", "audiences", "types", "done"}) =>
       (idp.bound => Base \subseteq idp.recorded)
  /\ run.pc = "info" => Base \subseteq run.clients

\* An AccountInfo with clients has those of the organization, in the caches too.
InfoInv ==
  /\ info.clients = {} \/ Base \subseteq info.clients
  /\ \A p \in Processes : seen[p].clients = {} \/ (Base \subseteq seen[p].clients
                                                   /\ Base \subseteq info.clients)
  /\ Passed({"invite", "ready", "audiences", "types", "done"}) => Base \subseteq info.clients

\* The authentication configuration, and the types that are still to be patched.
AuthInv ==
  /\ Passed({"types", "done"}) => Base \subseteq audiences
  /\ run.pc = "types" => Types \subseteq run.types \cup patched
  /\ Passed({"done"}) => Types \subseteq patched

UserInv ==
  /\ UserKnown
  /\ Passed({"audiences", "types", "done"}) => user # "none"

\* The Store, through every step.
LEMMA StoreInvInductive ==
  ASSUME TypeOK, StoreInv, [Next]_vars
  PROVE  StoreInv'
<1> USE DEF StoreInv, Passed
<1>1. CASE Begin
  BY <1>1 DEF TypeOK, Runs, Begin, Go, cluster, count, invited, desk, auth
<1>2. CASE ReadAccount
  <2>1. CASE Requeue
    BY <1>2, <2>1, Requeues DEF ReadAccount, Idle, cluster, count, invited, desk, auth
  <2>2. CASE ~ Requeue
    BY <1>2, <2>2 DEF TypeOK, Runs, ReadAccount, Go, cluster, count, invited, desk, auth
  <2> QED
    BY <2>1, <2>2
<1>3. CASE WriteStore
  <2>1. CASE store.wanted # Tuples
    <3>1. /\ StoreOf!Ask(Tuples) /\ Requeue
      BY <1>3, <2>1 DEF WriteStore
    <3>2. lc.initializing /\ run' = Idle /\ lc'.initializing
      BY <1>3, <2>1, <3>1, Requeues DEF WriteStore, TypeOK
    <3> QED
      BY <3>1, <3>2, AskStore DEF TypeOK, Idle
  <2>2. CASE store.wanted = Tuples /\ Tuples \subseteq store.recorded
    BY <1>3, <2>2 DEF TypeOK, Runs, WriteStore, Go, cluster
  <2>3. CASE store.wanted = Tuples /\ ~ (Tuples \subseteq store.recorded)
    BY <1>3, <2>3, Requeues DEF TypeOK, WriteStore, Idle
  <2> QED
    BY <2>1, <2>2, <2>3
<1>4. CASE ReadIdp
  BY <1>4 DEF TypeOK, Runs, ReadIdp, Go, cluster, count, invited, desk, auth
<1>5. CASE PatchIdp
  BY <1>5 DEF TypeOK, Runs, PatchIdp, Go, cluster, count, invited, desk, auth
<1>6. CASE WaitForIdp
  <2>1. CASE Requeue
    BY <1>6, <2>1, Requeues DEF WaitForIdp, Idle, cluster, count, invited, desk, auth
  <2>2. CASE ~ Requeue
    BY <1>6, <2>2 DEF TypeOK, Runs, WaitForIdp, Go, cluster, count, invited, desk, auth
  <2> QED
    BY <2>1, <2>2
<1>7. CASE PatchAccountInfo
  BY <1>7 DEF TypeOK, Runs, PatchAccountInfo, Go, cluster, count, invited, desk, auth
<1>8. CASE WriteInvite
  BY <1>8 DEF TypeOK, Runs, WriteInvite, Go, cluster, count, invited, desk, auth
<1>9. CASE WaitForInvite
  <2>1. CASE Requeue
    BY <1>9, <2>1, Requeues DEF WaitForInvite, Idle, cluster, count, invited, desk, auth
  <2>2. CASE ~ Requeue
    BY <1>9, <2>2 DEF TypeOK, Runs, WaitForInvite, Go, cluster, count, invited, desk, auth
  <2> QED
    BY <2>1, <2>2
<1>10. CASE WriteAuthConfig
  <2>1. CASE Requeue
    BY <1>10, <2>1, Requeues DEF WriteAuthConfig, Idle, cluster, count, invited, desk, auth
  <2>2. CASE ~ Requeue
    BY <1>10, <2>2 DEF TypeOK, Runs, WriteAuthConfig, Go, cluster, count, invited, desk, auth
  <2> QED
    BY <2>1, <2>2
<1>11. ASSUME NEW t \in Types, PatchType(t)
      PROVE  StoreInv'
  BY <1>11 DEF TypeOK, Runs, PatchType, Go, cluster, count, invited, desk, auth
<1>12. CASE TypesPatched
  BY <1>12 DEF TypeOK, Runs, TypesPatched, Go, cluster, count, invited, desk, auth
<1>13. CASE Finish
  BY <1>13 DEF TypeOK, Finish, Go, Idle, cluster, count, invited, desk, auth
<1>14. ASSUME NEW recorded \in SUBSET Tuples, NEW granted \in SUBSET Tuples, ServeStore(recorded, granted)
      PROVE  StoreInv'
  <2>1. store.phase # "absent" /\ UNCHANGED <<lc, run>>
    BY <1>14 DEF ServeStore, StoreOf!Serve, cluster
  <2> QED
    BY <1>14, <2>1, StoreReports DEF TypeOK, ServeStore
<1>15. ASSUME NEW recorded \in SUBSET Clients, NEW granted \in SUBSET Clients, ServeIdp(recorded, granted)
      PROVE  StoreInv'
  BY <1>15 DEF ServeIdp, cluster, count, invited, desk, auth
<1>16. CASE InviteStep
  BY <1>16 DEF InviteStep, cluster, count, invited, desk, auth
<1>17. CASE SignUp
  BY <1>17 DEF SignUp, cluster, count, invited, desk, auth
<1>18. ASSUME NEW p \in Processes, Deliver(p)
      PROVE  StoreInv'
  BY <1>18 DEF Deliver, cluster, count, invited, desk, auth
<1>19. CASE CreateAccountInfo
  BY <1>19 DEF CreateAccountInfo, cluster, count, invited, desk, auth
<1>20. CASE SetCreator
  BY <1>20 DEF SetCreator, cluster, count, invited, desk, auth
<1>21. ASSUME NEW own \in SUBSET UserClients, EditClients(own)
      PROVE  StoreInv'
  BY <1>21 DEF EditClients, cluster, count, invited, desk, auth
<1>22. CASE Restart
  BY <1>22 DEF TypeOK, Restart, Idle, cluster, count, invited, desk, auth
<1>23. CASE Fault
  BY <1>23 DEF TypeOK, Fault, Idle, cluster, count, invited, desk, auth
<1>24. CASE UNCHANGED vars
  BY <1>24 DEF vars, cluster, count, invited, desk, auth
<1> QED
  BY <1>1, <1>2, <1>3, <1>4, <1>5, <1>6, <1>7, <1>8, <1>9, <1>10, <1>11, <1>12,
     <1>13, <1>14, <1>15, <1>16, <1>17, <1>18, <1>19, <1>20, <1>21, <1>22, <1>23, <1>24 DEF Next, Reconcile

\* The IdentityProviderConfiguration, through every step.
LEMMA IdpInvInductive ==
  ASSUME TypeOK, IdpInv, [Next]_vars
  PROVE  IdpInv'
<1> USE DEF IdpInv, Passed
<1>1. CASE Begin
  BY <1>1 DEF TypeOK, Runs, Begin, Go, cluster, count, invited, desk, auth
<1>2. CASE ReadAccount
  <2>1. CASE Requeue
    BY <1>2, <2>1, Requeues DEF ReadAccount, Idle, cluster, count, invited, desk, auth
  <2>2. CASE ~ Requeue
    BY <1>2, <2>2 DEF TypeOK, Runs, ReadAccount, Go, cluster, count, invited, desk, auth
  <2> QED
    BY <2>1, <2>2
<1>3. CASE WriteStore
  <2>1. CASE Requeue
    BY <1>3, <2>1, Requeues DEF WriteStore, Idle, cluster, count, invited, desk, auth
  <2>2. CASE ~ Requeue
    BY <1>3, <2>2 DEF TypeOK, Runs, WriteStore, Go, cluster, count, invited, desk, auth
  <2> QED
    BY <2>1, <2>2
<1>4. CASE ReadIdp
  BY <1>4 DEF TypeOK, Runs, ReadIdp, Go, cluster, count, invited, desk, auth
<1>5. CASE PatchIdp
  <2>1. /\ run.pc = "patch" /\ (run.found <=> idp.phase = "live")
        /\ run'.pc = "wait" /\ UNCHANGED lc
    BY <1>5 DEF PatchIdp, Go, cluster, TypeOK, Runs
  <2>2. CASE ~ IdpOf!Ask(EnsureClients(run.clients))
    <3>1. UNCHANGED idp /\ (run.found \/ EnsureClients(run.clients) = idp.wanted)
      BY <1>5, <2>2 DEF PatchIdp
    <3>2. idp.phase = "live"
      BY <2>1, <3>1, OrganizationAssumption DEF EnsureClients
    <3> QED
      BY <2>1, <3>1, <3>2
  <2>3. CASE IdpOf!Ask(EnsureClients(run.clients))
    <3>1. /\ EnsureClients(run.clients) \in SUBSET Clients
          /\ Base \subseteq EnsureClients(run.clients)
      BY DEF EnsureClients, TypeOK, Runs, Clients
    <3>2. /\ idp'.phase = "live" /\ Base \subseteq idp'.wanted
          /\ idp'.recorded = idp.recorded /\ idp'.granted = idp.granted
          /\ idp'.bound => idp.bound /\ (idp.phase = "live" => idp.recorded = idp.wanted)
      BY <2>3, <3>1, AskIdp DEF TypeOK
    <3>3. CASE idp.phase = "live"
      BY <2>1, <3>2, <3>3
    <3>4. CASE idp.phase = "absent"
      BY <2>1, <3>2, <3>4
    <3> QED
      BY <3>3, <3>4
  <2> QED
    BY <2>2, <2>3
<1>6. CASE WaitForIdp
  <2>1. CASE Requeue
    BY <1>6, <2>1, Requeues DEF WaitForIdp, Idle
  <2>2. CASE ~ Requeue
    <3>1. /\ run.pc = "wait" /\ idp.wanted \subseteq idp.recorded
          /\ run' = [run EXCEPT !.pc = "info", !.clients = idp.recorded]
          /\ UNCHANGED <<lc, idp>>
      BY <1>6, <2>2 DEF WaitForIdp, Go, cluster
    <3> QED
      BY <3>1 DEF TypeOK, Runs
  <2> QED
    BY <2>1, <2>2
<1>7. CASE PatchAccountInfo
  BY <1>7 DEF TypeOK, Runs, PatchAccountInfo, Go, cluster, count, invited, desk, auth
<1>8. CASE WriteInvite
  BY <1>8 DEF TypeOK, Runs, WriteInvite, Go, cluster, count, invited, desk, auth
<1>9. CASE WaitForInvite
  <2>1. CASE Requeue
    BY <1>9, <2>1, Requeues DEF WaitForInvite, Idle, cluster, count, invited, desk, auth
  <2>2. CASE ~ Requeue
    BY <1>9, <2>2 DEF TypeOK, Runs, WaitForInvite, Go, cluster, count, invited, desk, auth
  <2> QED
    BY <2>1, <2>2
<1>10. CASE WriteAuthConfig
  <2>1. CASE Requeue
    BY <1>10, <2>1, Requeues DEF WriteAuthConfig, Idle, cluster, count, invited, desk, auth
  <2>2. CASE ~ Requeue
    BY <1>10, <2>2 DEF TypeOK, Runs, WriteAuthConfig, Go, cluster, count, invited, desk, auth
  <2> QED
    BY <2>1, <2>2
<1>11. ASSUME NEW t \in Types, PatchType(t)
      PROVE  IdpInv'
  BY <1>11 DEF TypeOK, Runs, PatchType, Go, cluster, count, invited, desk, auth
<1>12. CASE TypesPatched
  BY <1>12 DEF TypeOK, Runs, TypesPatched, Go, cluster, count, invited, desk, auth
<1>13. CASE Finish
  BY <1>13 DEF TypeOK, Finish, Go, Idle, cluster, count, invited, desk, auth
<1>14. ASSUME NEW recorded \in SUBSET Tuples, NEW granted \in SUBSET Tuples, ServeStore(recorded, granted)
      PROVE  IdpInv'
  BY <1>14 DEF ServeStore, cluster, count, invited, desk, auth
<1>15. ASSUME NEW recorded \in SUBSET Clients, NEW granted \in SUBSET Clients, ServeIdp(recorded, granted)
      PROVE  IdpInv'
  <2>1. idp.phase # "absent" /\ UNCHANGED <<lc, run>>
    BY <1>15 DEF ServeIdp, IdpOf!Serve, cluster
  <2> QED
    BY <1>15, <2>1, IdpReports DEF TypeOK, ServeIdp
<1>16. CASE InviteStep
  BY <1>16 DEF InviteStep, cluster, count, invited, desk, auth
<1>17. CASE SignUp
  BY <1>17 DEF SignUp, cluster, count, invited, desk, auth
<1>18. ASSUME NEW p \in Processes, Deliver(p)
      PROVE  IdpInv'
  BY <1>18 DEF Deliver, cluster, count, invited, desk, auth
<1>19. CASE CreateAccountInfo
  BY <1>19 DEF CreateAccountInfo, cluster, count, invited, desk, auth
<1>20. CASE SetCreator
  BY <1>20 DEF SetCreator, cluster, count, invited, desk, auth
<1>21. ASSUME NEW own \in SUBSET UserClients, EditClients(own)
      PROVE  IdpInv'
  <2> DEFINE wanted == (idp.wanted \ UserClients) \cup own
  <2>1. wanted \in SUBSET Clients /\ idp.phase = "live" /\ Base \subseteq wanted
    BY <1>21, OrganizationAssumption DEF EditClients, TypeOK, IdpOf!Objects, Clients
  <2>2. IdpOf!Ask(wanted) /\ UNCHANGED <<lc, run>>
    BY <1>21 DEF EditClients, cluster
  <2> HIDE DEF wanted
  <2> QED
    BY <2>1, <2>2, AskIdp DEF TypeOK
<1>22. CASE Restart
  BY <1>22 DEF TypeOK, Restart, Idle, cluster, count, invited, desk, auth
<1>23. CASE Fault
  BY <1>23 DEF TypeOK, Fault, Idle, cluster, count, invited, desk, auth
<1>24. CASE UNCHANGED vars
  BY <1>24 DEF vars, cluster, count, invited, desk, auth
<1> QED
  BY <1>1, <1>2, <1>3, <1>4, <1>5, <1>6, <1>7, <1>8, <1>9, <1>10, <1>11, <1>12,
     <1>13, <1>14, <1>15, <1>16, <1>17, <1>18, <1>19, <1>20, <1>21, <1>22, <1>23, <1>24 DEF Next, Reconcile

\* The AccountInfo and its copies, through every step.
LEMMA InfoInvInductive ==
  ASSUME TypeOK, InfoInv, IdpInv, [Next]_vars
  PROVE  InfoInv'
<1> USE DEF InfoInv, Passed
<1>1. CASE Begin
  BY <1>1 DEF TypeOK, Runs, Begin, Go, cluster, count, invited, desk, auth
<1>2. CASE ReadAccount
  <2>1. CASE Requeue
    BY <1>2, <2>1, Requeues DEF ReadAccount, Idle, cluster, count, invited, desk, auth
  <2>2. CASE ~ Requeue
    BY <1>2, <2>2 DEF TypeOK, Runs, ReadAccount, Go, cluster, count, invited, desk, auth
  <2> QED
    BY <2>1, <2>2
<1>3. CASE WriteStore
  <2>1. CASE Requeue
    BY <1>3, <2>1, Requeues DEF WriteStore, Idle, cluster, count, invited, desk, auth
  <2>2. CASE ~ Requeue
    BY <1>3, <2>2 DEF TypeOK, Runs, WriteStore, Go, cluster, count, invited, desk, auth
  <2> QED
    BY <2>1, <2>2
<1>4. CASE ReadIdp
  BY <1>4 DEF TypeOK, Runs, ReadIdp, Go, cluster, count, invited, desk, auth
<1>5. CASE PatchIdp
  BY <1>5 DEF TypeOK, Runs, PatchIdp, Go, cluster, count, invited, desk, auth
<1>6. CASE WaitForIdp
  <2>1. CASE Requeue
    BY <1>6, <2>1, Requeues DEF WaitForIdp, Idle, cluster, count, invited, desk, auth
  <2>2. CASE ~ Requeue
    BY <1>6, <2>2 DEF TypeOK, Runs, WaitForIdp, Go, cluster, count, invited, desk, auth
  <2> QED
    BY <2>1, <2>2
<1>7. CASE PatchAccountInfo
  <2>1. /\ Process \in Processes /\ run.pc = "info" /\ Base \subseteq run.clients
        /\ UNCHANGED seen
    BY <1>7 DEF PatchAccountInfo, Process, Processes, IdpInv
  <2>2. info'.clients = (info.clients \ (seen[Process].clients \ run.clients))
                          \cup (run.clients \ seen[Process].clients)
    BY <1>7 DEF PatchAccountInfo, TypeOK, Infos
  <2>3. Base \subseteq info'.clients
    BY <2>1, <2>2
  <2> QED
    BY <2>1, <2>3
<1>8. CASE WriteInvite
  BY <1>8 DEF TypeOK, Runs, WriteInvite, Go, cluster, count, invited, desk, auth
<1>9. CASE WaitForInvite
  <2>1. CASE Requeue
    BY <1>9, <2>1, Requeues DEF WaitForInvite, Idle, cluster, count, invited, desk, auth
  <2>2. CASE ~ Requeue
    BY <1>9, <2>2 DEF TypeOK, Runs, WaitForInvite, Go, cluster, count, invited, desk, auth
  <2> QED
    BY <2>1, <2>2
<1>10. CASE WriteAuthConfig
  <2>1. CASE Requeue
    BY <1>10, <2>1, Requeues DEF WriteAuthConfig, Idle, cluster, count, invited, desk, auth
  <2>2. CASE ~ Requeue
    BY <1>10, <2>2 DEF TypeOK, Runs, WriteAuthConfig, Go, cluster, count, invited, desk, auth
  <2> QED
    BY <2>1, <2>2
<1>11. ASSUME NEW t \in Types, PatchType(t)
      PROVE  InfoInv'
  BY <1>11 DEF TypeOK, Runs, PatchType, Go, cluster, count, invited, desk, auth
<1>12. CASE TypesPatched
  BY <1>12 DEF TypeOK, Runs, TypesPatched, Go, cluster, count, invited, desk, auth
<1>13. CASE Finish
  BY <1>13 DEF TypeOK, Finish, Go, Idle, cluster, count, invited, desk, auth
<1>14. ASSUME NEW recorded \in SUBSET Tuples, NEW granted \in SUBSET Tuples, ServeStore(recorded, granted)
      PROVE  InfoInv'
  BY <1>14 DEF ServeStore, cluster, count, invited, desk, auth
<1>15. ASSUME NEW recorded \in SUBSET Clients, NEW granted \in SUBSET Clients, ServeIdp(recorded, granted)
      PROVE  InfoInv'
  BY <1>15 DEF ServeIdp, cluster, count, invited, desk, auth
<1>16. CASE InviteStep
  BY <1>16 DEF InviteStep, cluster, count, invited, desk, auth
<1>17. CASE SignUp
  BY <1>17 DEF SignUp, cluster, count, invited, desk, auth
<1>18. ASSUME NEW p \in Processes, Deliver(p)
      PROVE  InfoInv'
  <2>1. \A q \in Processes : seen'[q] = IF q = p THEN info ELSE seen[q]
    BY <1>18 DEF Deliver, TypeOK
  <2>2. UNCHANGED <<lc, run, info>>
    BY <1>18 DEF Deliver
  <2> QED
    BY <2>1, <2>2
<1>19. CASE CreateAccountInfo
  <2>1. info'.clients = info.clients /\ UNCHANGED <<lc, run, seen>>
    BY <1>19 DEF CreateAccountInfo, TypeOK, Infos
  <2> QED
    BY <2>1
<1>20. CASE SetCreator
  BY <1>20 DEF SetCreator, cluster, count, invited, desk, auth
<1>21. ASSUME NEW own \in SUBSET UserClients, EditClients(own)
      PROVE  InfoInv'
  BY <1>21 DEF EditClients, cluster, count, invited, desk, auth
<1>22. CASE Restart
  BY <1>22 DEF TypeOK, Restart, Idle, cluster, count, invited, desk, auth
<1>23. CASE Fault
  BY <1>23 DEF TypeOK, Fault, Idle, cluster, count, invited, desk, auth
<1>24. CASE UNCHANGED vars
  BY <1>24 DEF vars, cluster, count, invited, desk, auth
<1> QED
  BY <1>1, <1>2, <1>3, <1>4, <1>5, <1>6, <1>7, <1>8, <1>9, <1>10, <1>11, <1>12,
     <1>13, <1>14, <1>15, <1>16, <1>17, <1>18, <1>19, <1>20, <1>21, <1>22, <1>23, <1>24 DEF Next, Reconcile

\* The authentication configuration, through every step.
LEMMA AuthInvInductive ==
  ASSUME TypeOK, AuthInv, InfoInv, [Next]_vars
  PROVE  AuthInv'
<1> USE DEF AuthInv, Passed
<1>1. CASE Begin
  BY <1>1 DEF TypeOK, Runs, Begin, Go, cluster, count, invited, desk, auth
<1>2. CASE ReadAccount
  <2>1. CASE Requeue
    BY <1>2, <2>1, Requeues DEF ReadAccount, Idle, cluster, count, invited, desk, auth
  <2>2. CASE ~ Requeue
    BY <1>2, <2>2 DEF TypeOK, Runs, ReadAccount, Go, cluster, count, invited, desk, auth
  <2> QED
    BY <2>1, <2>2
<1>3. CASE WriteStore
  <2>1. CASE Requeue
    BY <1>3, <2>1, Requeues DEF WriteStore, Idle, cluster, count, invited, desk, auth
  <2>2. CASE ~ Requeue
    BY <1>3, <2>2 DEF TypeOK, Runs, WriteStore, Go, cluster, count, invited, desk, auth
  <2> QED
    BY <2>1, <2>2
<1>4. CASE ReadIdp
  BY <1>4 DEF TypeOK, Runs, ReadIdp, Go, cluster, count, invited, desk, auth
<1>5. CASE PatchIdp
  BY <1>5 DEF TypeOK, Runs, PatchIdp, Go, cluster, count, invited, desk, auth
<1>6. CASE WaitForIdp
  <2>1. CASE Requeue
    BY <1>6, <2>1, Requeues DEF WaitForIdp, Idle, cluster, count, invited, desk, auth
  <2>2. CASE ~ Requeue
    BY <1>6, <2>2 DEF TypeOK, Runs, WaitForIdp, Go, cluster, count, invited, desk, auth
  <2> QED
    BY <2>1, <2>2
<1>7. CASE PatchAccountInfo
  BY <1>7 DEF TypeOK, Runs, PatchAccountInfo, Go, cluster, count, invited, desk, auth
<1>8. CASE WriteInvite
  BY <1>8 DEF TypeOK, Runs, WriteInvite, Go, cluster, count, invited, desk, auth
<1>9. CASE WaitForInvite
  <2>1. CASE Requeue
    BY <1>9, <2>1, Requeues DEF WaitForInvite, Idle, cluster, count, invited, desk, auth
  <2>2. CASE ~ Requeue
    BY <1>9, <2>2 DEF TypeOK, Runs, WaitForInvite, Go, cluster, count, invited, desk, auth
  <2> QED
    BY <2>1, <2>2
<1>10. CASE WriteAuthConfig
  <2>1. CASE seen[Process].clients = {}
    BY <1>10, <2>1, Requeues DEF WriteAuthConfig, Idle, auth
  <2>2. CASE seen[Process].clients # {}
    <3>1. Base \subseteq seen[Process].clients
      BY <2>2 DEF InfoInv, Process, Processes
    <3>2. /\ audiences' = seen[Process].clients
          /\ run' = [run EXCEPT !.pc = "types", !.types = Types \ patched]
          /\ UNCHANGED <<lc, patched>>
      BY <1>10, <2>2 DEF WriteAuthConfig, Go, cluster
    <3>3. run'.pc = "types" /\ run'.types = Types \ patched
      BY <3>2 DEF TypeOK, Runs
    <3> QED
      BY <3>1, <3>2, <3>3
  <2> QED
    BY <2>1, <2>2
<1>11. ASSUME NEW t \in Types, PatchType(t)
      PROVE  AuthInv'
  BY <1>11 DEF TypeOK, Runs, PatchType, Go, cluster, count, invited, desk, auth
<1>12. CASE TypesPatched
  BY <1>12 DEF TypeOK, Runs, TypesPatched, Go, cluster, count, invited, desk, auth
<1>13. CASE Finish
  BY <1>13 DEF TypeOK, Finish, Go, Idle, cluster, count, invited, desk, auth
<1>14. ASSUME NEW recorded \in SUBSET Tuples, NEW granted \in SUBSET Tuples, ServeStore(recorded, granted)
      PROVE  AuthInv'
  BY <1>14 DEF ServeStore, cluster, count, invited, desk, auth
<1>15. ASSUME NEW recorded \in SUBSET Clients, NEW granted \in SUBSET Clients, ServeIdp(recorded, granted)
      PROVE  AuthInv'
  BY <1>15 DEF ServeIdp, cluster, count, invited, desk, auth
<1>16. CASE InviteStep
  BY <1>16 DEF InviteStep, cluster, count, invited, desk, auth
<1>17. CASE SignUp
  BY <1>17 DEF SignUp, cluster, count, invited, desk, auth
<1>18. ASSUME NEW p \in Processes, Deliver(p)
      PROVE  AuthInv'
  BY <1>18 DEF Deliver, cluster, count, invited, desk, auth
<1>19. CASE CreateAccountInfo
  BY <1>19 DEF CreateAccountInfo, cluster, count, invited, desk, auth
<1>20. CASE SetCreator
  BY <1>20 DEF SetCreator, cluster, count, invited, desk, auth
<1>21. ASSUME NEW own \in SUBSET UserClients, EditClients(own)
      PROVE  AuthInv'
  BY <1>21 DEF EditClients, cluster, count, invited, desk, auth
<1>22. CASE Restart
  BY <1>22 DEF TypeOK, Restart, Idle, cluster, count, invited, desk, auth
<1>23. CASE Fault
  BY <1>23 DEF TypeOK, Fault, Idle, cluster, count, invited, desk, auth
<1>24. CASE UNCHANGED vars
  BY <1>24 DEF vars, cluster, count, invited, desk, auth
<1> QED
  BY <1>1, <1>2, <1>3, <1>4, <1>5, <1>6, <1>7, <1>8, <1>9, <1>10, <1>11, <1>12,
     <1>13, <1>14, <1>15, <1>16, <1>17, <1>18, <1>19, <1>20, <1>21, <1>22, <1>23, <1>24 DEF Next, Reconcile

\* The creator's user, through every step.
LEMMA UserInvInductive ==
  ASSUME TypeOK, UserInv, [Next]_vars
  PROVE  UserInv'
<1> USE DEF UserInv, UserKnown, Passed
<1>1. CASE Begin
  BY <1>1 DEF TypeOK, Runs, Begin, Go, cluster, count, invited, desk, auth
<1>2. CASE ReadAccount
  <2>1. CASE Requeue
    BY <1>2, <2>1, Requeues DEF ReadAccount, Idle, cluster, count, invited, desk, auth
  <2>2. CASE ~ Requeue
    BY <1>2, <2>2 DEF TypeOK, Runs, ReadAccount, Go, cluster, count, invited, desk, auth
  <2> QED
    BY <2>1, <2>2
<1>3. CASE WriteStore
  <2>1. CASE Requeue
    BY <1>3, <2>1, Requeues DEF WriteStore, Idle, cluster, count, invited, desk, auth
  <2>2. CASE ~ Requeue
    BY <1>3, <2>2 DEF TypeOK, Runs, WriteStore, Go, cluster, count, invited, desk, auth
  <2> QED
    BY <2>1, <2>2
<1>4. CASE ReadIdp
  BY <1>4 DEF TypeOK, Runs, ReadIdp, Go, cluster, count, invited, desk, auth
<1>5. CASE PatchIdp
  BY <1>5 DEF TypeOK, Runs, PatchIdp, Go, cluster, count, invited, desk, auth
<1>6. CASE WaitForIdp
  <2>1. CASE Requeue
    BY <1>6, <2>1, Requeues DEF WaitForIdp, Idle, invited
  <2>2. CASE ~ Requeue
    <3>1. /\ run' = [run EXCEPT !.pc = "info", !.clients = idp.recorded]
          /\ UNCHANGED <<lc, invited>>
      BY <1>6, <2>2 DEF WaitForIdp, Go, cluster
    <3>2. run'.pc = "info"
      BY <3>1 DEF TypeOK, Runs
    <3> QED
      BY <3>1, <3>2 DEF invited
  <2> QED
    BY <2>1, <2>2
<1>7. CASE PatchAccountInfo
  BY <1>7 DEF TypeOK, Runs, PatchAccountInfo, Go, cluster, count, invited, desk, auth
<1>8. CASE WriteInvite
  <2>1. /\ user # "none" => user' # "none"
        /\ UserKnown'
    BY <1>8, InviteChanges DEF WriteInvite, InviteChange, TypeOK
  <2>2. run.pc = "invite" /\ run'.pc = "ready" /\ UNCHANGED lc
    BY <1>8 DEF WriteInvite, Go, cluster, TypeOK, Runs
  <2> QED
    BY <2>1, <2>2
<1>9. CASE WaitForInvite
  <2>0. UserKnown' /\ user' = user
    BY <1>9, InviteChanges DEF WaitForInvite, InviteChange, TypeOK, invited
  <2>1. CASE Requeue
    BY <1>9, <2>0, <2>1, Requeues DEF Idle
  <2>2. CASE ~ Requeue
    BY <1>9, <2>0, <2>2 DEF TypeOK, Runs, WaitForInvite, Go, cluster, UserKnown
  <2> QED
    BY <2>1, <2>2
<1>10. CASE WriteAuthConfig
  <2>1. CASE Requeue
    BY <1>10, <2>1, Requeues DEF WriteAuthConfig, Idle, cluster, count, invited, desk, auth
  <2>2. CASE ~ Requeue
    BY <1>10, <2>2 DEF TypeOK, Runs, WriteAuthConfig, Go, cluster, count, invited, desk, auth
  <2> QED
    BY <2>1, <2>2
<1>11. ASSUME NEW t \in Types, PatchType(t)
      PROVE  UserInv'
  BY <1>11 DEF TypeOK, Runs, PatchType, Go, cluster, count, invited, desk, auth
<1>12. CASE TypesPatched
  BY <1>12 DEF TypeOK, Runs, TypesPatched, Go, cluster, count, invited, desk, auth
<1>13. CASE Finish
  BY <1>13 DEF TypeOK, Finish, Go, Idle, cluster, count, invited, desk, auth
<1>14. ASSUME NEW recorded \in SUBSET Tuples, NEW granted \in SUBSET Tuples, ServeStore(recorded, granted)
      PROVE  UserInv'
  BY <1>14 DEF ServeStore, cluster, count, invited, desk, auth
<1>15. ASSUME NEW recorded \in SUBSET Clients, NEW granted \in SUBSET Clients, ServeIdp(recorded, granted)
      PROVE  UserInv'
  BY <1>15 DEF ServeIdp, cluster, count, invited, desk, auth
<1>16. CASE InviteStep
  <2>1. (user # "none" => user' # "none") /\ UserKnown'
    BY <1>16, InviteChanges DEF InviteStep, InviteChange, TypeOK
  <2>2. UNCHANGED <<lc, run>>
    BY <1>16 DEF InviteStep, cluster, TypeOK
  <2> QED
    BY <2>1, <2>2
<1>17. CASE SignUp
  <2>1. (user # "none" => user' # "none") /\ UserKnown'
    BY <1>17, InviteChanges DEF SignUp, InviteChange, TypeOK
  <2>2. UNCHANGED <<lc, run>>
    BY <1>17 DEF SignUp, cluster, TypeOK
  <2> QED
    BY <2>1, <2>2
<1>18. ASSUME NEW p \in Processes, Deliver(p)
      PROVE  UserInv'
  BY <1>18 DEF Deliver, cluster, count, invited, desk, auth
<1>19. CASE CreateAccountInfo
  BY <1>19 DEF CreateAccountInfo, cluster, count, invited, desk, auth
<1>20. CASE SetCreator
  BY <1>20 DEF SetCreator, cluster, count, invited, desk, auth
<1>21. ASSUME NEW own \in SUBSET UserClients, EditClients(own)
      PROVE  UserInv'
  BY <1>21 DEF EditClients, cluster, count, invited, desk, auth
<1>22. CASE Restart
  <2>1. (user # "none" => user' # "none") /\ UserKnown'
    BY <1>22, InviteChanges DEF Restart, InviteChange, TypeOK
  <2>2. run' = Idle /\ lc'.initializing = lc.initializing
    BY <1>22 DEF Restart, cluster, TypeOK
  <2> QED
    BY <2>1, <2>2 DEF Idle
<1>23. CASE Fault
  <2>1. (user # "none" => user' # "none") /\ UserKnown'
    BY <1>23, InviteChanges DEF Fault, InviteChange, TypeOK
  <2>2. \/ UNCHANGED <<lc, run>>
        \/ run' = Idle /\ lc'.initializing = lc.initializing
    BY <1>23 DEF Fault, cluster, TypeOK
  <2> QED
    BY <2>1, <2>2 DEF Idle
<1>24. CASE UNCHANGED vars
  BY <1>24 DEF vars, cluster, count, invited, desk, auth
<1> QED
  BY <1>1, <1>2, <1>3, <1>4, <1>5, <1>6, <1>7, <1>8, <1>9, <1>10, <1>11, <1>12,
     <1>13, <1>14, <1>15, <1>16, <1>17, <1>18, <1>19, <1>20, <1>21, <1>22, <1>23, <1>24 DEF Next, Reconcile

(***************************************************************************)
(* The theorem.                                                            *)
(***************************************************************************)

OrganizationInv == TypeOK /\ StoreInv /\ IdpInv /\ InfoInv /\ AuthInv /\ UserInv

LEMMA InvHoldsFirst == Init => OrganizationInv
<1> SUFFICES ASSUME Init PROVE OrganizationInv
  OBVIOUS
<1>1. TypeOK
  BY TypeHoldsFirst
<1>2. lc.initializing /\ run.pc = "idle"
  BY DEF Init, Idle
<1>3. StoreInv /\ IdpInv
  BY <1>2 DEF Init, StoreOf!Init, IdpOf!Init, StoreInv, IdpInv, Passed
<1>4. InfoInv /\ AuthInv
  BY <1>2 DEF Init, NoInfo, InfoInv, AuthInv, Passed
<1>5. UserInv
  BY <1>2 DEF Init, Inviter!InviteInit, Inviter!Waiting, UserInv, UserKnown, Passed
<1> QED
  BY <1>1, <1>3, <1>4, <1>5 DEF OrganizationInv

LEMMA InvShowsUsable == OrganizationInv => ReadyOrganizationIsUsable
<1> SUFFICES ASSUME OrganizationInv, ~ lc.initializing PROVE ReadyOrganizationIsUsable
  BY DEF ReadyOrganizationIsUsable
<1>1. store.bound => Tuples \subseteq store.granted
  BY DEF OrganizationInv, StoreInv, Passed
<1>2. idp.bound => Base \subseteq idp.granted
  BY DEF OrganizationInv, IdpInv, Passed
<1>3. /\ Base \subseteq info.clients /\ Base \subseteq audiences
      /\ patched = Types /\ user # "none"
  BY DEF OrganizationInv, TypeOK, InfoInv, AuthInv, UserInv, Passed
<1> QED
  BY <1>1, <1>2, <1>3 DEF ReadyOrganizationIsUsable

\* The initializer's mark comes off an organization that can be used, and what made
\* it so stays, whatever its tuples, clients and types, as long as nobody edits
\* behind the back of the controllers: the waiting of the four subroutines in
\* internal/subroutine is enough.
THEOREM ReadyOrganizationCorrect == Spec => []ReadyOrganizationIsUsable
<1>1. Init => OrganizationInv
  BY InvHoldsFirst
<1>2. OrganizationInv /\ [Next]_vars => OrganizationInv'
  BY TypeInductive, StoreInvInductive, IdpInvInductive, InfoInvInductive, AuthInvInductive,
     UserInvInductive DEF OrganizationInv
<1>3. OrganizationInv => ReadyOrganizationIsUsable
  BY InvShowsUsable
<1> QED
  BY <1>1, <1>2, <1>3, PTL DEF Spec

(***************************************************************************)
(* The clients of users, and the creator's invitation.                     *)
(***************************************************************************)

\* Most steps leave the IdentityProviderConfiguration and what users asked for alone.
LEMMA ClientsKept ==
  ASSUME [Next]_vars, ~ PatchIdp,
         \A own \in SUBSET UserClients : ~ EditClients(own)
  PROVE  UNCHANGED <<asked, crossed>> /\ (idp.wanted)' = idp.wanted
<1>1. ASSUME NEW recorded \in SUBSET Clients, NEW granted \in SUBSET Clients,
             ServeIdp(recorded, granted)
      PROVE  UNCHANGED <<asked, crossed>> /\ (idp.wanted)' = idp.wanted
  BY <1>1 DEF ServeIdp, IdpOf!Serve
<1>2. ASSUME UNCHANGED <<idp, asked, crossed>>
      PROVE  UNCHANGED <<asked, crossed>> /\ (idp.wanted)' = idp.wanted
  BY <1>2
<1> QED
  BY <1>1, <1>2 DEF Next, Reconcile, vars, desk, Begin, ReadAccount, WriteStore, ReadIdp,
       WaitForIdp, PatchAccountInfo, WriteInvite, WaitForInvite, WriteAuthConfig, PatchType,
       TypesPatched, Finish, ServeStore, InviteStep, SignUp, Deliver, CreateAccountInfo,
       SetCreator, Restart, Fault

\* A patch that was computed from the list as it is adds the organization's clients
\* and no others.
LEMMA PatchRespects ==
  ASSUME TypeOK, UserClientsRespected, PatchIdp
  PROVE  UserClientsRespected'
<1> DEFINE desired == EnsureClients(run.clients)
<1>1. desired \in SUBSET Clients
  BY DEF EnsureClients, TypeOK, Runs, Clients
<1>2. UNCHANGED asked /\ (crossed => crossed')
  BY DEF PatchIdp, desk
<1>3. CASE UNCHANGED idp
  BY <1>2, <1>3 DEF UserClientsRespected
<1>4. CASE ~ UNCHANGED idp
  <2>1. IdpOf!Ask(desired) /\ crossed' = (crossed \/ run.clients # idp.wanted)
    BY <1>4 DEF PatchIdp
  <2>2. (idp.wanted)' = desired
    BY <1>1, <2>1, AskIdp DEF TypeOK
  <2>3. SUFFICES ASSUME ~ crossed' PROVE desired \ Base = asked
    BY <1>2, <2>2 DEF UserClientsRespected
  <2>4. ~ crossed /\ desired = idp.wanted \cup Base
    BY <2>1, <2>3 DEF EnsureClients
  <2> QED
    BY <2>4 DEF UserClientsRespected
<1> QED
  BY <1>3, <1>4

LEMMA EditRespects ==
  ASSUME TypeOK, UserClientsRespected, NEW own \in SUBSET UserClients, EditClients(own)
  PROVE  UserClientsRespected'
<1> DEFINE wanted == (idp.wanted \ UserClients) \cup own
<1>1. wanted \in SUBSET Clients
  BY DEF TypeOK, IdpOf!Objects, Clients
<1>2. IdpOf!Ask(wanted) /\ asked' = own /\ crossed' = crossed
  BY DEF EditClients
<1>3. (idp.wanted)' = wanted
  BY <1>1, <1>2, AskIdp DEF TypeOK
<1>4. ASSUME ~ crossed PROVE wanted \ Base = own
  <2>1. idp.wanted \ Base \subseteq UserClients
    BY <1>4 DEF UserClientsRespected, TypeOK
  <2> QED
    BY <2>1, OrganizationAssumption
<1> QED
  BY <1>2, <1>3, <1>4 DEF UserClientsRespected

\* The clients of users are those they asked for, unless a change fell between the
\* read and the patch of internal/subroutine/idp.go: however often the two
\* processes repeat their patch, fail and start again.
THEOREM UserClientsCorrect == Spec => []UserClientsRespected
<1>1. Init => UserClientsRespected
  BY DEF Init, IdpOf!Init, UserClientsRespected
<1>2. ASSUME TypeOK, UserClientsRespected, [Next]_vars
      PROVE  UserClientsRespected'
  <2>1. ASSUME UNCHANGED <<asked, crossed>>, (idp.wanted)' = idp.wanted
        PROVE  UserClientsRespected'
    BY <1>2, <2>1 DEF UserClientsRespected
  <2>2. CASE PatchIdp
    BY <1>2, <2>2, PatchRespects
  <2>3. ASSUME NEW own \in SUBSET UserClients, EditClients(own)
        PROVE  UserClientsRespected'
    BY <1>2, <2>3, EditRespects
  <2>4. CASE ~ PatchIdp /\ \A own \in SUBSET UserClients : ~ EditClients(own)
    BY <1>2, <2>1, <2>4, ClientsKept
  <2> QED
    BY <2>2, <2>3, <2>4
<1> QED
  BY <1>1, <1>2, OrganizationTypeCorrect, PTL DEF Spec

\* A user that was created without an e-mail is about to get it, and not taken for
\* invited before; or the reconcile was given up between the two calls.
MailInv ==
  user = "created" => abandoned \/ (inviteRun.pc = "mail" /\ ~ invite.ready)

LEMMA EveryInviteChange == [Next]_vars => InviteChange
<1> SUFFICES ASSUME [Next]_vars PROVE InviteChange
  OBVIOUS
<1>1. ASSUME UNCHANGED invited PROVE InviteChange
  BY <1>1 DEF InviteChange
<1> QED
  BY <1>1 DEF Next, Reconcile, vars, Begin, ReadAccount, WriteStore, ReadIdp, PatchIdp,
       WaitForIdp, PatchAccountInfo, WriteInvite, WaitForInvite, WriteAuthConfig, PatchType,
       TypesPatched, Finish, ServeStore, ServeIdp, InviteStep, SignUp, Deliver,
       CreateAccountInfo, SetCreator, EditClients, Restart, Fault, InviteChange

LEMMA MailInvInductive ==
  ASSUME Inviter!InviteTypeOK, UserKnown, MailInv, InviteChange
  PROVE  MailInv'
<1> USE DEF MailInv
<1>0. /\ inviteRun \in [pc : InviteTypePcs, known : BOOLEAN]
      /\ invite \in [exists : BOOLEAN, ready : BOOLEAN, queued : BOOLEAN]
      /\ abandoned \in BOOLEAN
  BY DEF Inviter!InviteTypeOK, InviteTypePcs
<1>1. CASE Inviter!EnsureInvite
  BY <1>0, <1>1 DEF Inviter!EnsureInvite
<1>2. CASE Inviter!SignUp
  BY <1>2 DEF Inviter!SignUp
<1>3. CASE Inviter!BeginInvite
  BY <1>3 DEF Inviter!BeginInvite
<1>4. CASE Inviter!QueryUsers
  BY <1>4 DEF Inviter!QueryUsers, Inviter!GoOn, Inviter!Retry
<1>5. CASE Inviter!VerifyClient
  BY <1>5 DEF Inviter!VerifyClient, Inviter!GoOn, Inviter!Retry
<1>6. CASE Inviter!CreateUser
  <2>1. CASE user = "none" /\ Inviter!GoOn("mail")
    <3>1. ~ invite.ready
      BY <2>1 DEF UserKnown
    <3>2. inviteRun'.pc = "mail" /\ invite' = invite
      BY <2>1, GoesOn DEF InviteTypePcs
    <3> QED
      BY <3>1, <3>2
  <2>2. CASE user # "none" /\ UNCHANGED <<user, abandoned>>
    BY <1>6, <2>2 DEF Inviter!CreateUser
  <2> QED
    BY <1>6, <2>1, <2>2 DEF Inviter!CreateUser
<1>7. CASE Inviter!SendMail
  BY <1>7 DEF Inviter!SendMail
<1>8. CASE Inviter!PersistInvite
  BY <1>8 DEF Inviter!PersistInvite
<1>9. CASE Inviter!BreakInvite
  BY <1>0, <1>9 DEF Inviter!BreakInvite, Inviter!Abandon
<1>10. CASE Inviter!RestartInvite
  BY <1>0, <1>10 DEF Inviter!RestartInvite, Inviter!Abandon
<1>11. CASE UNCHANGED invited
  BY <1>11 DEF invited
<1> QED
  BY <1>1, <1>2, <1>3, <1>4, <1>5, <1>6, <1>7, <1>8, <1>9, <1>10, <1>11
     DEF InviteChange, Inviter!InviteStep

\* Whoever is taken for invited got the e-mail or registered himself, whatever fails
\* or starts again, but for a reconcile that ends between the two calls of
\* internal/subroutine/invite/subroutine.go.
THEOREM InviteCorrect == Spec => []InviteReachesCreator
<1> DEFINE Inv == TypeOK /\ UserKnown /\ MailInv
<1>1. Init => Inv
  BY TypeHoldsFirst
     DEF Init, Inviter!InviteInit, Inviter!Waiting, UserKnown, MailInv
<1>2. Inv /\ [Next]_vars => Inv'
  BY TypeInductive, EveryInviteChange, InviteChanges, MailInvInductive DEF TypeOK
<1>3. Inv => InviteReachesCreator
  BY DEF TypeOK, Inviter!InviteTypeOK, UserKnown, MailInv, InviteReachesCreator
<1> HIDE DEF Inv
<1> QED
  BY <1>1, <1>2, <1>3, PTL DEF Spec
=============================================================================
