----------------------- MODULE IdentityProvider_proofs ----------------------
(* Proofs about IdentityProvider, for every value of its constants. *)
EXTENDS IdentityProvider_refines, TLAPS

LEMMA InitialValues ==
  /\ NoClients \in AllSpecs /\ NoManaged \in Managed
  /\ Absent \in IdpObjects /\ Idle \in Runs /\ NoData \in SecretData
<1>1. NoClients \in AllSpecs
  BY DEF NoClients, AllSpecs
<1>2. NoManaged \in Managed
  BY DEF NoManaged, Managed, Unmanaged
<1>3. QED
  BY <1>1, <1>2 DEF Absent, IdpObjects, Idle, Runs, PCs, NoData, SecretData

LEMMA InitTypeOK == Init => TypeOK
<1> SUFFICES ASSUME Init PROVE TypeOK
  OBVIOUS
<1>1. kc \in [Ids -> KcClients] /\ secret \in [Secrets -> SecretData]
  BY InitialValues DEF Init, KcClients
<1>2. idp \in IdpObjects /\ run \in Runs
  BY InitialValues DEF Init
<1>3. /\ realm \in BOOLEAN /\ queued \in BOOLEAN
      /\ patient \in BOOLEAN /\ moved \in SUBSET Secrets
  BY ConstantsAssumption DEF Init
<1>4. edits \in 0 .. MaxEdits /\ faults \in 0 .. MaxFaults
  BY ConstantsAssumption DEF Init
<1>5. QED
  BY <1>1, <1>2, <1>3, <1>4 DEF TypeOK

\* The users: they count as an edit, and leave Keycloak and the reconcile alone.
LEMMA UsersTypeOK == ASSUME TypeOK, Users PROVE TypeOK'
<1>1. MayEdit
  BY DEF Users, CreateIdp, EditIdp, DeleteIdp, LoseSecret
<1>2. edits' \in 0 .. MaxEdits /\ UNCHANGED <<kc, realm, run, patient, faults>>
  BY <1>1, ConstantsAssumption DEF TypeOK, MayEdit
<1>3. ASSUME NEW spec \in Specs, CreateIdp(spec) \/ EditIdp(spec)
      PROVE  idp' \in IdpObjects /\ secret' = secret /\ queued' = TRUE /\ moved' \in SUBSET Secrets
  <2>1. spec \in AllSpecs
    BY ConstantsAssumption DEF AllSpecs
  <2>2. CASE CreateIdp(spec)
    BY <2>1, <2>2, InitialValues DEF TypeOK, CreateIdp, IdpObjects, Absent
  <2>3. CASE EditIdp(spec)
    <3>1. \A n \in Declared(idp.spec) : idp.spec[n] \in Secrets
      BY DEF TypeOK, IdpObjects, AllSpecs, Declared
    <3>2. moved' \in SUBSET Secrets
      BY <2>3, <3>1 DEF TypeOK, EditIdp
    <3>3. idp' \in IdpObjects
      BY <2>3, <2>1 DEF TypeOK, EditIdp, IdpObjects
    <3>4. QED
      BY <2>3, <3>2, <3>3 DEF EditIdp
  <2>4. QED
    BY <1>3, <2>2, <2>3
<1>4. CASE DeleteIdp
  <2>1. idp' \in IdpObjects
    BY <1>4 DEF TypeOK, DeleteIdp, IdpObjects
  <2>2. secret' = secret /\ queued' = TRUE /\ moved' = moved
    BY <1>4 DEF DeleteIdp
  <2>3. QED
    BY <1>2, <2>1, <2>2 DEF TypeOK
<1>5. ASSUME NEW s \in Secrets, LoseSecret(s) PROVE TypeOK'
  <2>1. secret' \in [Secrets -> SecretData] /\ UNCHANGED <<idp, queued, moved>>
    BY <1>5, InitialValues DEF TypeOK, LoseSecret
  <2>2. QED
    BY <1>2, <2>1 DEF TypeOK
<1>6. QED
  <2>1. CASE \E spec \in Specs : CreateIdp(spec) \/ EditIdp(spec)
    BY <2>1, <1>2, <1>3 DEF TypeOK
  <2>2. QED
    BY <2>1, <1>4, <1>5 DEF Users

\* What the calls do to Keycloak and to the secrets.
LEMMA CallsTypeOK ==
  ASSUME TypeOK, NEW i \in Ids \cup {NoId}
  PROVE  /\ Gone(i) \in [Ids -> KcClients]
         /\ Rotated(i) \in [Secrets -> SecretData]
<1>1. Gone(i) \in [Ids -> KcClients]
  BY DEF TypeOK, Gone, Live, KcClients
<1>2. Rotated(i) \in [Secrets -> SecretData]
  BY DEF TypeOK, Rotated, SecretData
<1>3. QED
  BY <1>1, <1>2

LEMMA StepTypeOK ==
  ASSUME TypeOK, run' \in Runs, idp' \in IdpObjects, kc' \in [Ids -> KcClients],
         secret' \in [Secrets -> SecretData], realm' \in BOOLEAN, queued' \in BOOLEAN,
         UNCHANGED <<user, edits, faults>>
  PROVE  TypeOK'
  BY DEF TypeOK, user

LEMMA ControllerTypeOK == ASSUME TypeOK, Controller PROVE TypeOK'
<1>1. CASE Begin
  <2>1. run' \in Runs
    BY <1>1, InitialValues DEF Begin, TypeOK, Runs, PCs, IdpObjects, Declared, Idle
  <2>2. QED
    BY <1>1, <2>1, StepTypeOK DEF Begin, TypeOK
<1>2. CASE EnsureRealm
  <2>1. run' \in Runs
    BY <1>2 DEF EnsureRealm, Advance, TypeOK, Runs, PCs, Recorded, Declared
  <2>2. QED
    BY <1>2, <2>1, StepTypeOK DEF EnsureRealm, Advance, TypeOK
<1>3. ASSUME NEW n \in Names, DeleteRemovedClient(n) PROVE TypeOK'
  <2>1. run' \in Runs
    BY <1>3 DEF DeleteRemovedClient, Advance, TypeOK, Runs, PCs
  <2>2. run.status[n].id \in Ids \cup {NoId}
    BY DEF TypeOK, Runs, Managed
  <2>3. kc' \in [Ids -> KcClients]
    BY <1>3, <2>2, CallsTypeOK DEF DeleteRemovedClient, TypeOK
  <2>4. UNCHANGED <<idp, realm, secret, queued, user, edits, faults>>
    BY <1>3 DEF DeleteRemovedClient, Advance
  <2>5. QED
    BY <2>1, <2>3, <2>4, StepTypeOK DEF TypeOK
<1>4. CASE DeleteRemovedSecret
  <2>1. run' \in Runs
    BY <1>4 DEF DeleteRemovedSecret, Advance, TypeOK, Runs, PCs
  <2>2. secret' \in [Secrets -> SecretData]
    BY <1>4, InitialValues DEF DeleteRemovedSecret, TypeOK
  <2>3. UNCHANGED <<idp, realm, kc, queued, user, edits, faults>>
    BY <1>4 DEF DeleteRemovedSecret, Advance
  <2>4. QED
    BY <2>1, <2>2, <2>3, StepTypeOK DEF TypeOK
<1>5. CASE RemovalDone
  <2>1. run' \in Runs
    BY <1>5 DEF RemovalDone, Advance, TypeOK, Runs, PCs, Declared
  <2>2. QED
    BY <1>5, <2>1, StepTypeOK DEF RemovalDone, Advance, TypeOK
<1>6. ASSUME NEW n \in Names, GetClientByName(n) PROVE TypeOK'
  <2>1. run' \in Runs
    BY <1>6 DEF GetClientByName, Advance, TypeOK, Runs, PCs
  <2>2. UNCHANGED <<idp, realm, kc, secret, queued, user, edits, faults>>
    BY <1>6 DEF GetClientByName, Advance
  <2>3. QED
    BY <2>1, <2>2, StepTypeOK DEF TypeOK
<1>7. CASE Register
  <2>1. PICK i \in Ids :
          /\ kc' = [kc EXCEPT ![i] = [state |-> "live", name |-> run.at]]
          /\ Advance([run EXCEPT !.pc = "secret", !.id = i])
    BY <1>7 DEF Register
  <2>2. run' \in Runs
    BY <2>1 DEF Advance, TypeOK, Runs, PCs
  <2>3. kc' \in [Ids -> KcClients]
    BY <2>1 DEF TypeOK, KcClients, Runs
  <2>4. UNCHANGED <<idp, realm, secret, queued, user, edits, faults>>
    BY <1>7, <2>1 DEF Register, Advance
  <2>5. QED
    BY <2>2, <2>3, <2>4, StepTypeOK DEF TypeOK
<1>8. CASE UpdateClient
  <2>1. UpdateTarget \in Ids
    BY <1>8 DEF UpdateClient, Live
  <2>2. run' \in Runs
    BY <1>8, <2>1 DEF UpdateClient, Advance, TypeOK, Runs, PCs
  <2>3. kc' \in [Ids -> KcClients]
    BY <1>8, <2>1 DEF UpdateClient, TypeOK, KcClients, Runs
  <2>4. secret' \in [Secrets -> SecretData]
    BY <1>8, <2>1, CallsTypeOK DEF UpdateClient
  <2>5. UNCHANGED <<idp, realm, queued, user, edits, faults>>
    BY <1>8 DEF UpdateClient, Advance
  <2>6. QED
    BY <2>2, <2>3, <2>4, <2>5, StepTypeOK DEF TypeOK
<1>9. CASE CreateOrUpdateSecret
  <2>1. ClientDone \in Runs
    <3>1. CASE run.at \in Names
      <4>1. run.spec[run.at] \in Secrets \cup {NoSecret}
        BY <3>1 DEF TypeOK, Runs, AllSpecs
      <4>2. [run.managed EXCEPT ![run.at] = [id |-> run.id, secret |-> run.spec[run.at]]] \in Managed
        BY <4>1 DEF TypeOK, Runs, Managed
      <4>3. QED
        BY <4>2 DEF ClientDone, TypeOK, Runs, PCs
    <3>2. CASE run.at \notin Names
      <4>1. [run.managed EXCEPT ![run.at] = [id |-> run.id, secret |-> run.spec[run.at]]] \in Managed
        BY <3>2 DEF TypeOK, Runs, Managed
      <4>2. QED
        BY <4>1 DEF ClientDone, TypeOK, Runs, PCs
    <3>3. QED
      BY <3>1, <3>2
  <2>2. secret' \in [Secrets -> SecretData]
    BY <1>9 DEF CreateOrUpdateSecret, TypeOK, SecretData, Runs
  <2>3. QED
    BY <1>9, <2>1, <2>2, StepTypeOK DEF CreateOrUpdateSecret, Advance, TypeOK
<1>10. CASE PatchStatus
  <2>1. run' \in Runs /\ idp' \in IdpObjects
    BY <1>10, InitialValues DEF PatchStatus, Advance, TypeOK, IdpObjects, Runs
  <2>2. queued' \in BOOLEAN
    BY <1>10 DEF PatchStatus, TypeOK
  <2>3. QED
    BY <1>10, <2>1, <2>2, StepTypeOK DEF PatchStatus, Advance, TypeOK
<1>11. ASSUME NEW n \in Names, PassOver(n) PROVE TypeOK'
  <2>1. run' \in Runs
    BY <1>11 DEF PassOver, Advance, TypeOK, Runs
  <2>2. QED
    BY <1>11, <2>1, StepTypeOK DEF PassOver, Advance, TypeOK
<1>12. ASSUME NEW n \in Names, FinalizeClient(n) PROVE TypeOK'
  <2>1. run' \in Runs
    BY <1>12 DEF FinalizeClient, Advance, TypeOK, Runs, PCs
  <2>2. run.status[n].id \in Ids \cup {NoId}
    BY DEF TypeOK, Runs, Managed
  <2>3. kc' \in [Ids -> KcClients]
    BY <1>12, <2>2, CallsTypeOK DEF FinalizeClient
  <2>4. UNCHANGED <<idp, realm, secret, queued, user, edits, faults>>
    BY <1>12 DEF FinalizeClient, Advance
  <2>5. QED
    BY <2>1, <2>3, <2>4, StepTypeOK DEF TypeOK
<1>13. CASE FinalizeSecret
  <2>1. run' \in Runs
    BY <1>13 DEF FinalizeSecret, Advance, TypeOK, Runs, PCs
  <2>2. secret' \in [Secrets -> SecretData]
    BY <1>13, InitialValues DEF FinalizeSecret, TypeOK
  <2>3. UNCHANGED <<idp, realm, kc, queued, user, edits, faults>>
    BY <1>13 DEF FinalizeSecret, Advance
  <2>4. QED
    BY <2>1, <2>2, <2>3, StepTypeOK DEF TypeOK
<1>14. CASE DeleteRealm
  <2>1. run' \in Runs
    BY <1>14 DEF DeleteRealm, Advance, TypeOK, Runs, PCs
  <2>2. kc' \in [Ids -> KcClients]
    BY <1>14 DEF DeleteRealm, TypeOK, KcClients
  <2>3. QED
    BY <1>14, <2>1, <2>2, StepTypeOK DEF DeleteRealm, Advance, TypeOK
<1>15. CASE Release
  BY <1>15, InitialValues, StepTypeOK DEF Release, Advance, TypeOK
<1>16. CASE Refuse
  BY <1>16, InitialValues, StepTypeOK DEF Refuse, Fail, TypeOK
<1>17. QED
  BY <1>1, <1>2, <1>3, <1>4, <1>5, <1>6, <1>7, <1>8, <1>9, <1>10, <1>11, <1>12,
     <1>13, <1>14, <1>15, <1>16 DEF Controller

LEMMA NextTypeOK == ASSUME TypeOK, [Next]_vars PROVE TypeOK'
<1>1. CASE Fault
  <2>1. faults' \in 0 .. MaxFaults
    BY <1>1, ConstantsAssumption DEF Fault, TypeOK
  <2>2. QED
    BY <1>1, <2>1, InitialValues DEF Fault, Fail, TypeOK, user
<1>2. CASE UNCHANGED vars
  BY <1>2 DEF TypeOK, vars, user
<1>3. QED
  BY <1>1, <1>2, UsersTypeOK, ControllerTypeOK DEF Next

\* Every reachable state has its type, for any clients, secrets and bounds.
THEOREM IdpTypeCorrect == Spec => []TypeOK
<1>1. QED
  BY InitTypeOK, NextTypeOK, PTL DEF Spec
----------------------------------------------------------------------------
(* No two clients of one name.                                             *)

\* Id i was handed out for a client of name n.
HandedOut(i, n) == i \in Ids /\ kc[i].state # "unused" /\ kc[i].name = n

\* The ids in a status were handed out for the names they stand under.
StatusInv(status) ==
  \A n \in Names : status[n].id # NoId => HandedOut(status[n].id, n)

\* The reconcile: what it knows of the client at hand, and that behind an empty
\* lookup there is no client of that name.
RunInv ==
  /\ StatusInv(run.status) /\ StatusInv(run.managed)
  /\ run.pc \in {"update", "secret"} => run.at \in Names /\ HandedOut(run.id, run.at)
  /\ run.pc = "register" => run.at \in Names /\ \A i \in Ids : Live(i) => kc[i].name # run.at

NamesInv == TypeOK /\ StatusInv(idp.status) /\ RunInv /\ NoDuplicateClient

LEMMA NoManagedInv == StatusInv(NoManaged)
  BY DEF StatusInv, NoManaged, Unmanaged

LEMMA InitNamesInv == Init => NamesInv
<1> SUFFICES ASSUME Init PROVE NamesInv
  OBVIOUS
<1>1. idp.status = NoManaged /\ run = Idle
  BY DEF Init, Absent
<1>2. StatusInv(idp.status)
  BY <1>1, NoManagedInv
<1>3. RunInv
  BY <1>1, NoManagedInv DEF RunInv, Idle
<1>4. NoDuplicateClient
  BY DEF Init, NoDuplicateClient, Live
<1>5. QED
  BY <1>2, <1>3, <1>4, InitTypeOK DEF NamesInv

\* Clients keep their names, and only go.
Fewer ==
  \A i \in Ids : /\ kc'[i].name = kc[i].name
                 /\ kc[i].state # "unused" => kc'[i].state # "unused"
                 /\ kc'[i].state = "live" => kc[i].state = "live"

LEMMA FewerInv ==
  ASSUME Fewer
  PROVE  /\ NoDuplicateClient => NoDuplicateClient'
         /\ \A i, n : HandedOut(i, n) => HandedOut(i, n)'
  BY DEF Fewer, NoDuplicateClient, Live, HandedOut

\* The same where nobody registers or renames a client.
LEMMA QuietStep ==
  ASSUME NamesInv, TypeOK', Fewer,
         idp'.status \in {idp.status, run.managed, NoManaged},
         run'.status \in {idp.status, run.status, NoManaged},
         run'.managed \in {run.managed, NoManaged},
         run'.pc \notin {"register", "update", "secret"}
  PROVE  NamesInv'
<1>1. StatusInv(idp.status)' /\ StatusInv(run.status)' /\ StatusInv(run.managed)'
  BY FewerInv, NoManagedInv DEF NamesInv, RunInv, StatusInv, NoManaged, Unmanaged
<1>2. QED
  BY <1>1, FewerInv DEF NamesInv, RunInv

LEMMA UsersNamesInv == ASSUME NamesInv, TypeOK', Users PROVE NamesInv'
<1>1. UNCHANGED <<kc, run>>
  BY DEF Users, CreateIdp, EditIdp, DeleteIdp, LoseSecret, MayEdit
<1>2. idp'.status \in {idp.status, NoManaged}
  BY DEF Users, CreateIdp, EditIdp, DeleteIdp, LoseSecret, NamesInv, TypeOK, IdpObjects, Absent
<1>3. \A i, n : HandedOut(i, n)' <=> HandedOut(i, n)
  BY <1>1 DEF HandedOut
<1>4. StatusInv(idp.status)'
  BY <1>2, <1>3 DEF NamesInv, StatusInv, NoManaged, Unmanaged
<1>5. RunInv' /\ NoDuplicateClient'
  BY <1>1, <1>3 DEF NamesInv, RunInv, StatusInv, Live, NoDuplicateClient
<1>6. QED
  BY <1>4, <1>5 DEF NamesInv

\* The call leaves the clients of the realm alone.
LEMMA SameClients == ASSUME kc' = kc PROVE Fewer
  BY DEF Fewer

\* A delete call, or the deletion of the realm, only takes clients away.
LEMMA GoneIsFewer == ASSUME TypeOK, NEW i, kc' = Gone(i) PROVE Fewer
  BY DEF TypeOK, KcClients, Gone, Live, Fewer

LEMMA GetClientNamesInv ==
  ASSUME NamesInv, TypeOK', NEW n \in Names, GetClientByName(n)
  PROVE  NamesInv'
<1>1. /\ UNCHANGED <<idp, kc>> /\ run'.status = run.status /\ run'.managed = run.managed
      /\ run'.at = n
  BY DEF GetClientByName, Advance, NamesInv, TypeOK, Runs
<1>2. \A i, m : HandedOut(i, m)' <=> HandedOut(i, m)
  BY <1>1 DEF HandedOut
<1>3. StatusInv(idp.status)' /\ StatusInv(run.status)' /\ StatusInv(run.managed)'
  BY <1>1, <1>2 DEF NamesInv, RunInv, StatusInv
<1>4. \/ run'.pc = "register" /\ \A i \in Ids : ~ (Live(i) /\ kc[i].name = n)
      \/ run'.pc = "update" /\ HandedOut(run'.id, n)
  BY DEF GetClientByName, Advance, NamesInv, TypeOK, Runs, HandedOut, Live
<1>5. RunInv'
  BY <1>1, <1>2, <1>3, <1>4 DEF RunInv, Live
<1>6. QED
  BY <1>1, <1>3, <1>5 DEF NamesInv, NoDuplicateClient, Live

LEMMA RegisterNamesInv == ASSUME NamesInv, TypeOK', Register PROVE NamesInv'
<1>1. PICK i \in Ids :
        /\ kc[i].state = "unused"
        /\ kc' = [kc EXCEPT ![i] = [state |-> "live", name |-> run.at]]
        /\ Advance([run EXCEPT !.pc = "secret", !.id = i])
  BY DEF Register
<1>2. /\ run.pc = "register" /\ run.at \in Names /\ UNCHANGED idp
      /\ \A j \in Ids : Live(j) => kc[j].name # run.at
  BY DEF Register, NamesInv, RunInv
<1>3. /\ run'.pc = "secret" /\ run'.at = run.at /\ run'.id = i
      /\ run'.status = run.status /\ run'.managed = run.managed
  BY <1>1 DEF Advance, NamesInv, TypeOK, Runs
<1>4. /\ kc'[i] = [state |-> "live", name |-> run.at]
      /\ \A j \in Ids : j # i => kc'[j] = kc[j]
  BY <1>1 DEF NamesInv, TypeOK
<1>5. \A j, n : HandedOut(j, n) => HandedOut(j, n)'
  BY <1>1, <1>4 DEF HandedOut
<1>6. StatusInv(idp.status)' /\ StatusInv(run.status)' /\ StatusInv(run.managed)'
  BY <1>2, <1>3, <1>5 DEF NamesInv, RunInv, StatusInv
<1>7. RunInv'
  BY <1>2, <1>3, <1>4, <1>6 DEF RunInv, HandedOut
<1>8. NoDuplicateClient'
  BY <1>2, <1>4 DEF NamesInv, NoDuplicateClient, Live
<1>9. QED
  BY <1>6, <1>7, <1>8 DEF NamesInv

\* An update goes to a client of the name it is for.
LEMMA UpdateNamesInv == ASSUME NamesInv, TypeOK', UpdateClient PROVE NamesInv'
<1>1. /\ UpdateTarget \in Ids /\ UNCHANGED idp
      /\ run.pc = "update" /\ run.at \in Names /\ HandedOut(run.id, run.at)
  BY DEF UpdateClient, Live, NamesInv, RunInv
<1>2. HandedOut(UpdateTarget, run.at)
  BY <1>1 DEF UpdateTarget, NamesInv, RunInv, StatusInv
<1>3. kc' = kc
  BY <1>2 DEF UpdateClient, HandedOut, NamesInv, TypeOK, KcClients
<1>4. \A i, n : HandedOut(i, n)' <=> HandedOut(i, n)
  BY <1>3 DEF HandedOut
<1>5. /\ run'.pc = "secret" /\ run'.at = run.at /\ run'.id = UpdateTarget
      /\ run'.status = run.status /\ run'.managed = run.managed
  BY DEF UpdateClient, Advance, NamesInv, TypeOK, Runs
<1>6. StatusInv(idp.status)' /\ StatusInv(run.status)' /\ StatusInv(run.managed)'
  BY <1>1, <1>4, <1>5 DEF NamesInv, RunInv, StatusInv
<1>7. RunInv'
  BY <1>1, <1>2, <1>4, <1>5, <1>6 DEF RunInv
<1>8. QED
  BY <1>3, <1>6, <1>7 DEF NamesInv, NoDuplicateClient, Live

LEMMA SecretNamesInv == ASSUME NamesInv, TypeOK', CreateOrUpdateSecret PROVE NamesInv'
<1>1. /\ run.pc = "secret" /\ run.at \in Names /\ HandedOut(run.id, run.at)
      /\ UNCHANGED <<idp, kc>> /\ run' = ClientDone
  BY DEF CreateOrUpdateSecret, Advance, NamesInv, RunInv
<1>2. \A i, n : HandedOut(i, n)' <=> HandedOut(i, n)
  BY <1>1 DEF HandedOut
<1>3. /\ run'.pc = "next" /\ run'.status = run.status
      /\ run'.managed = [run.managed EXCEPT ![run.at] = [id |-> run.id, secret |-> run.spec[run.at]]]
  BY <1>1 DEF ClientDone, NamesInv, TypeOK, Runs
<1>4. StatusInv(run.managed)'
  BY <1>1, <1>2, <1>3 DEF NamesInv, RunInv, StatusInv, TypeOK, Runs, Managed
<1>5. StatusInv(idp.status)' /\ StatusInv(run.status)'
  BY <1>1, <1>2, <1>3 DEF NamesInv, RunInv, StatusInv
<1>6. RunInv'
  BY <1>3, <1>4, <1>5 DEF RunInv
<1>7. QED
  BY <1>1, <1>5, <1>6 DEF NamesInv, NoDuplicateClient, Live

LEMMA NextNamesInv == ASSUME NamesInv, [Next]_vars PROVE NamesInv'
<1> USE DEF NamesInv
<1>0. TypeOK'
  BY NextTypeOK
<1>1. CASE Users
  BY <1>0, <1>1, UsersNamesInv
<1>2. CASE Begin
  <2>1. Fewer /\ idp' = idp
    BY <1>2, SameClients DEF Begin
  <2>2. /\ run'.status \in {idp.status, run.status} /\ run'.managed \in {run.managed, NoManaged}
        /\ run'.pc \notin {"register", "update", "secret"}
    BY <1>2 DEF Begin, Idle, TypeOK, Runs
  <2>3. QED
    BY <1>0, <2>1, <2>2, QuietStep
<1>3. CASE EnsureRealm \/ DeleteRemovedSecret \/ RemovalDone \/ FinalizeSecret
  <2>1. Fewer /\ idp' = idp
    BY <1>3, SameClients DEF EnsureRealm, DeleteRemovedSecret, RemovalDone, FinalizeSecret
  <2>2. /\ run'.status = run.status /\ run'.managed = run.managed
        /\ run'.pc \notin {"register", "update", "secret"}
    BY <1>3 DEF EnsureRealm, DeleteRemovedSecret, RemovalDone, FinalizeSecret, Advance,
                TypeOK, Runs
  <2>3. QED
    BY <1>0, <2>1, <2>2, QuietStep
<1>4. ASSUME NEW n \in Names, DeleteRemovedClient(n) \/ FinalizeClient(n) \/ PassOver(n)
      PROVE  NamesInv'
  <2>1. Fewer
    BY <1>4, SameClients, GoneIsFewer DEF DeleteRemovedClient, FinalizeClient, PassOver
  <2>2. /\ idp' = idp /\ run'.status = run.status /\ run'.managed = run.managed
        /\ run'.pc \notin {"register", "update", "secret"}
    BY <1>4 DEF DeleteRemovedClient, FinalizeClient, PassOver, Advance, TypeOK, Runs
  <2>3. QED
    BY <1>0, <2>1, <2>2, QuietStep
<1>5. ASSUME NEW n \in Names, GetClientByName(n) PROVE NamesInv'
  BY <1>0, <1>5, GetClientNamesInv
<1>6. CASE Register
  BY <1>0, <1>6, RegisterNamesInv
<1>7. CASE UpdateClient
  BY <1>0, <1>7, UpdateNamesInv
<1>8. CASE CreateOrUpdateSecret
  BY <1>0, <1>8, SecretNamesInv
<1>9. CASE PatchStatus
  <2>1. Fewer
    BY <1>9, SameClients DEF PatchStatus
  <2>2. idp'.status = run.managed /\ run' = Idle
    BY <1>9 DEF PatchStatus, Advance, TypeOK, IdpObjects
  <2>3. QED
    BY <1>0, <2>1, <2>2, QuietStep DEF Idle
<1>10. CASE DeleteRealm
  <2>1. Fewer /\ idp' = idp
    BY <1>10 DEF DeleteRealm, Fewer, Live, TypeOK, KcClients
  <2>2. /\ run'.status = run.status /\ run'.managed = run.managed
        /\ run'.pc \notin {"register", "update", "secret"}
    BY <1>10 DEF DeleteRealm, Advance, TypeOK, Runs
  <2>3. QED
    BY <1>0, <2>1, <2>2, QuietStep
<1>11. CASE Release \/ Refuse \/ Fault
  <2>1. Fewer
    BY <1>11, SameClients DEF Release, Refuse, Fault, Fail
  <2>2. idp'.status \in {idp.status, NoManaged} /\ run' = Idle
    BY <1>11 DEF Release, Refuse, Fault, Fail, Advance, Absent
  <2>3. QED
    BY <1>0, <2>1, <2>2, QuietStep DEF Idle
<1>12. CASE UNCHANGED vars
  BY <1>0, <1>12 DEF vars, StatusInv, RunInv, HandedOut, Live, NoDuplicateClient
<1>13. QED
  BY <1>1, <1>2, <1>3, <1>4, <1>5, <1>6, <1>7, <1>8, <1>9, <1>10, <1>11, <1>12
  DEF Next, Controller

\* The realm never holds two clients of one name, whatever fails between the
\* registration of a client and its record in the status.
THEOREM NoDuplicateClientCorrect == Spec => []NoDuplicateClient
<1>1. NamesInv => NoDuplicateClient
  BY DEF NamesInv
<1>2. QED
  BY <1>1, InitNamesInv, NextNamesInv, PTL DEF Spec
----------------------------------------------------------------------------
(* Patient users: no client and no secret is left behind.                  *)

Removing  == {"removed", "unsecret"}
Providing == {"next", "register", "update", "secret"}
Ending    == {"finalize", "erase", "release"}
HasData(s) == secret[s] # NoData

\* The reconcile, whoever the users are.
WorkInv ==
  /\ run.pc = "idle" => run = Idle
  /\ idp.phase = "absent" => run.pc = "idle" /\ idp = Absent
  /\ run.pc \in Ending => idp.phase = "deleting"
  /\ run.pc \in Removing => run.todo \subseteq Recorded(run.status) \ Declared(run.spec)
  /\ run.pc = "unsecret" => run.at \in run.todo
  /\ run.pc \in Providing \cup {"finalize", "erase"} => run.todo \subseteq Declared(run.spec)
  /\ run.pc \in {"register", "update", "secret", "erase"} => run.at \in run.todo
  /\ run.pc \in {"realm"} \cup Removing => run.managed = NoManaged

\* What spec and status say of a client is the same, when all has been done.
Agreed ==
  \A n \in Names : /\ idp.status[n].secret = idp.spec[n]
                   /\ idp.status[n].id # NoId <=> idp.spec[n] # NoSecret

Rests == idp.phase = "live" /\ ~ queued /\ run.pc = "idle"

\* The object of patient users: what they do not see between two of their edits.
ObjectInv ==
  /\ run.pc # "idle" => run.spec = idp.spec /\ run.status = idp.status
  /\ idp.phase = "deleting" => run.pc \in {"idle"} \cup Ending
  /\ \A m, n \in Names : m # n /\ idp.spec[m] = idp.spec[n] => idp.spec[m] = NoSecret
  /\ \A m, n \in Names : m # n /\ idp.status[m].id # NoId /\ idp.status[n].id # NoId
                           => idp.status[m].secret # idp.status[n].secret
  /\ \A n \in Names : idp.status[n].id # NoId <=> idp.status[n].secret # NoSecret
  /\ idp.phase = "deleting" \/ Rests => Agreed
  /\ idp.phase = "live" => \A n \in Declared(idp.spec) \cap Recorded(idp.status) :
                              idp.status[n].secret \in moved \cup {idp.spec[n]}

\* The clients in the realm.
ClientsInv ==
  /\ idp.phase = "live" => \A n \in Declared(idp.spec) \cap Recorded(idp.status) :
                              Live(idp.status[n].id)
  /\ Rests => \A i \in Ids : Live(i) => \E n \in Names : idp.status[n].id = i
  /\ \A i \in Ids : Live(i) => \/ kc[i].name \in Declared(idp.spec)
                               \/ \E n \in Names : idp.status[n].id = i
  /\ run.pc \in Removing =>
       \A n \in Recorded(idp.status) \ Declared(idp.spec) :
          n \notin run.todo => ~ Live(idp.status[n].id)
  /\ run.pc = "unsecret" => ~ Live(idp.status[run.at].id)
  /\ run.pc \in Providing =>
       /\ \A i \in Ids : Live(i) => kc[i].name \in Declared(idp.spec)
       /\ \A n \in Names : IF n \in Declared(idp.spec) \ run.todo
                           THEN Live(run.managed[n].id) /\ run.managed[n].secret = idp.spec[n]
                           ELSE run.managed[n] = Unmanaged
  /\ run.pc = "secret" => Live(run.id)
  /\ idp.phase = "absent" \/ run.pc = "release" => \A i \in Ids : ~ Live(i)

\* The secrets.
SecretsInv ==
  /\ idp.phase = "live" => \A n \in Recorded(idp.status) :
                              Live(idp.status[n].id) => HasData(idp.status[n].secret)
  /\ run.pc \in Removing =>
       \A n \in Recorded(idp.status) \ Declared(idp.spec) :
          n \notin run.todo => ~ HasData(idp.status[n].secret)
  /\ run.pc \in Providing =>
       /\ \A n \in Declared(idp.spec) \ run.todo : HasData(idp.spec[n])
       /\ \A s \in Secrets : HasData(s) => s \in moved \/ \E n \in Names : s = idp.spec[n]
  /\ \A s \in Secrets : HasData(s) =>
       s \in moved \/ \E n \in Names : s \in {idp.spec[n], idp.status[n].secret}
  /\ run.pc \in {"finalize", "erase"} =>
       \A n \in Declared(idp.spec) \ run.todo : ~ HasData(idp.spec[n])
  /\ idp.phase = "absent" \/ run.pc = "release" => \A s \in Secrets : HasData(s) => s \in moved

LEMMA InitWork == Init => WorkInv /\ ObjectInv /\ ClientsInv /\ SecretsInv
<1> SUFFICES ASSUME Init PROVE WorkInv /\ ObjectInv /\ ClientsInv /\ SecretsInv
  OBVIOUS
<1>1. /\ idp = Absent /\ run = Idle /\ \A i \in Ids : ~ Live(i)
      /\ \A s \in Secrets : ~ HasData(s)
  BY DEF Init, Live, HasData
<1>2. /\ run.pc = "idle" /\ idp.phase = "absent"
      /\ \A n \in Names : idp.spec[n] = NoSecret /\ idp.status[n] = Unmanaged
  BY <1>1 DEF Idle, Absent, NoClients, NoManaged
<1>3. WorkInv
  BY <1>1, <1>2 DEF WorkInv, Removing, Providing, Ending
<1>4. ObjectInv
  BY <1>2 DEF ObjectInv, Rests, Unmanaged
<1>5. ClientsInv
  BY <1>1, <1>2 DEF ClientsInv, Rests, Removing, Providing
<1>6. SecretsInv
  BY <1>1, <1>2 DEF SecretsInv, Removing, Providing
<1>7. QED
  BY <1>3, <1>4, <1>5, <1>6

LEMMA WorkStep == ASSUME TypeOK, WorkInv, [Next]_vars PROVE WorkInv'
<1>0. run \in Runs /\ idp \in IdpObjects
  BY DEF TypeOK
<1> USE DEF Removing, Providing, Ending
<1>1. CASE Users
  <2>1. run' = run
    BY <1>1 DEF Users, CreateIdp, EditIdp, DeleteIdp, LoseSecret, MayEdit
  <2>2. CASE idp' = idp
    BY <2>1, <2>2 DEF WorkInv
  <2>3. CASE idp' # idp
    <3>1. idp'.phase # "absent" /\ (idp.phase = "deleting" => idp'.phase = "deleting")
      BY <1>0, <1>1, <2>3 DEF Users, CreateIdp, EditIdp, DeleteIdp, LoseSecret, Absent, IdpObjects
    <3>2. QED
      BY <2>1, <3>1 DEF WorkInv
  <2>4. QED
    BY <2>2, <2>3
<1>2. CASE Begin
  <2>1. CASE idp.phase = "absent"
    BY <1>2, <2>1 DEF Begin, WorkInv
  <2>2. CASE idp.phase = "live"
    BY <1>2, <2>2 DEF Begin, WorkInv, Idle
  <2>3. CASE idp.phase = "deleting"
    BY <1>2, <2>3 DEF Begin, WorkInv, Idle
  <2>4. QED
    BY <1>0, <2>1, <2>2, <2>3 DEF IdpObjects
<1>3. CASE EnsureRealm
  BY <1>0, <1>3 DEF EnsureRealm, Advance, WorkInv, Runs
<1>4. ASSUME NEW n \in Names, DeleteRemovedClient(n) PROVE WorkInv'
  <2>1. /\ run.pc = "removed" /\ n \in run.todo /\ UNCHANGED idp
        /\ \/ run' = [run EXCEPT !.todo = @ \ {n}]
           \/ run' = [run EXCEPT !.pc = "unsecret", !.at = n]
    BY <1>4 DEF DeleteRemovedClient, Advance
  <2>2. QED
    BY <1>0, <2>1 DEF WorkInv, Runs
<1>5. CASE DeleteRemovedSecret
  BY <1>0, <1>5 DEF DeleteRemovedSecret, Advance, WorkInv, Runs
<1>6. CASE RemovalDone
  BY <1>0, <1>6 DEF RemovalDone, Advance, WorkInv, Runs
<1>7. ASSUME NEW n \in Names, GetClientByName(n) PROVE WorkInv'
  BY <1>0, <1>7 DEF GetClientByName, Advance, WorkInv, Runs
<1>8. CASE Register
  BY <1>0, <1>8 DEF Register, Advance, WorkInv, Runs
<1>9. CASE UpdateClient
  BY <1>0, <1>9 DEF UpdateClient, Advance, WorkInv, Runs
<1>10. CASE CreateOrUpdateSecret
  BY <1>0, <1>10 DEF CreateOrUpdateSecret, ClientDone, Advance, WorkInv, Runs
<1>11. CASE PatchStatus
  <2>1. run' = Idle /\ idp'.phase = idp.phase /\ idp.phase # "absent"
    BY <1>0, <1>11 DEF PatchStatus, Advance, WorkInv, IdpObjects
  <2>2. QED
    BY <2>1 DEF WorkInv, Idle
<1>12. ASSUME NEW n \in Names, PassOver(n) PROVE WorkInv'
  BY <1>0, <1>12 DEF PassOver, Advance, WorkInv, Runs
<1>13. ASSUME NEW n \in Names, FinalizeClient(n) PROVE WorkInv'
  BY <1>0, <1>13 DEF FinalizeClient, Advance, WorkInv, Runs
<1>14. CASE FinalizeSecret
  BY <1>0, <1>14 DEF FinalizeSecret, Advance, WorkInv, Runs
<1>15. CASE DeleteRealm
  BY <1>0, <1>15 DEF DeleteRealm, Advance, WorkInv, Runs
<1>16. CASE Release
  BY <1>16 DEF Release, Advance, WorkInv, Idle
<1>17. CASE Refuse \/ Fault
  <2>1. run' = Idle /\ idp' = idp
    BY <1>17 DEF Refuse, Fault, Fail
  <2>2. QED
    BY <2>1 DEF WorkInv, Idle
<1>18. CASE UNCHANGED vars
  BY <1>18 DEF WorkInv, vars
<1>19. QED
  BY <1>1, <1>2, <1>3, <1>4, <1>5, <1>6, <1>7, <1>8, <1>9, <1>10, <1>11, <1>12, <1>13, <1>14,
     <1>15, <1>16, <1>17, <1>18 DEF Next, Controller

PatientInv == ObjectInv /\ ClientsInv /\ SecretsInv
Waited     == NamesInv /\ WorkInv /\ patient /\ PatientInv

\* A reconcile that works on a live object of patient users has it as it is.
LEMMA LiveWork ==
  ASSUME Waited, run.pc \in {"realm"} \cup Removing \cup Providing
  PROVE  /\ idp.phase = "live" /\ run.pc # "idle"
         /\ run.spec = idp.spec /\ run.status = idp.status
<1>1. run.pc # "idle" /\ run.pc \notin Ending
  BY DEF Removing, Providing, Ending
<1>2. idp.phase \in {"absent", "live", "deleting"}
  BY DEF Waited, NamesInv, TypeOK, IdpObjects
<1>3. QED
  BY <1>1, <1>2 DEF Waited, PatientInv, ObjectInv, WorkInv

LEMMA EndingWork ==
  ASSUME Waited, run.pc \in Ending
  PROVE  /\ idp.phase = "deleting" /\ run.pc # "idle"
         /\ run.spec = idp.spec /\ run.status = idp.status
  BY DEF Waited, PatientInv, ObjectInv, WorkInv, Ending

\* While a reconcile goes on, the object rests.
LEMMA ObjectRunsOn ==
  ASSUME Waited, UNCHANGED <<idp, moved>>, run.pc # "idle", run'.pc # "idle",
         run'.spec = run.spec, run'.status = run.status,
         run.pc \in Ending => run'.pc \in Ending
  PROVE  ObjectInv'
<1>1. Agreed' <=> Agreed
  BY DEF Agreed
<1>2. QED
  BY <1>1 DEF Waited, PatientInv, ObjectInv, Rests, Ending, Recorded, Declared

\* A reconcile that ends early changes nothing that it has not changed already.
LEMMA EndsEarly ==
  ASSUME Waited, run' = Idle, queued' = TRUE, UNCHANGED <<idp, kc, secret, moved>>
  PROVE  PatientInv'
<1>1. run'.pc = "idle"
  BY DEF Idle
<1>2. ObjectInv'
  <2>1. Agreed' <=> Agreed
    BY DEF Agreed
  <2>2. QED
    BY <1>1, <2>1 DEF Waited, PatientInv, ObjectInv, Rests, Recorded, Declared
<1>3. ClientsInv'
  BY <1>1 DEF Waited, PatientInv, ClientsInv, Rests, Removing, Providing, Live
<1>4. SecretsInv'
  BY <1>1 DEF Waited, PatientInv, SecretsInv, Removing, Providing, Live, HasData
<1>5. QED
  BY <1>2, <1>3, <1>4 DEF PatientInv

\* What is recorded for a client was handed out for it, and has its secret.
LEMMA Records ==
  ASSUME Waited, NEW n \in Names, idp.status[n].id # NoId
  PROVE  /\ idp.status[n].id \in Ids /\ kc[idp.status[n].id].name = n
         /\ kc[idp.status[n].id].state # "unused"
         /\ idp.status[n].secret \in Secrets
<1>1. HandedOut(idp.status[n].id, n)
  BY DEF Waited, NamesInv, StatusInv
<1>2. idp.status[n].secret \in Secrets \cup {NoSecret} /\ idp.status[n].secret # NoSecret
  BY DEF Waited, NamesInv, TypeOK, IdpObjects, Managed, PatientInv, ObjectInv
<1>3. QED
  BY <1>1, <1>2 DEF HandedOut

LEMMA DeclaredSecret ==
  ASSUME Waited, NEW n \in Names
  PROVE  /\ n \in Declared(idp.spec) <=> idp.spec[n] # NoSecret
         /\ n \in Declared(idp.spec) <=> idp.spec[n] \in Secrets
  BY ConstantsAssumption DEF Waited, NamesInv, TypeOK, IdpObjects, AllSpecs, Declared

LEMMA UsersPatient == ASSUME Waited, Users PROVE PatientInv'
<1>0. run.pc = "idle" /\ ~ queued /\ UNCHANGED <<run, kc>> /\ run' = run
  BY DEF Users, CreateIdp, EditIdp, DeleteIdp, LoseSecret, MayEdit, Waited
<1>1. ASSUME NEW spec \in Specs, CreateIdp(spec) PROVE PatientInv'
  <2>1. /\ idp.phase = "absent" /\ idp'.phase = "live" /\ idp'.spec = spec
        /\ \A n \in Names : idp'.status[n] = Unmanaged
        /\ queued' = TRUE /\ UNCHANGED <<secret, moved>>
    BY <1>1 DEF CreateIdp, Absent, NoManaged
  <2>2. ObjectInv'
    BY <1>0, <2>1, ConstantsAssumption DEF ObjectInv, Rests, Unmanaged, Recorded
  <2>3. ClientsInv'
    BY <1>0, <2>1 DEF Waited, PatientInv, ClientsInv, Rests, Unmanaged, Recorded, Removing,
                      Providing, Live
  <2>4. SecretsInv'
    BY <1>0, <2>1 DEF Waited, PatientInv, SecretsInv, Unmanaged, Recorded, Removing,
                      Providing, Live, HasData
  <2>5. QED
    BY <2>2, <2>3, <2>4 DEF PatientInv
<1>2. ASSUME NEW spec \in Specs, EditIdp(spec) PROVE PatientInv'
  <2>1. /\ Rests /\ idp'.phase = "live" /\ idp'.spec = spec /\ idp'.status = idp.status
        /\ queued' = TRUE /\ UNCHANGED secret
        /\ moved' = moved \cup {idp.spec[n] : n \in {m \in Declared(idp.spec) \cap Declared(spec) :
                                                        idp.spec[m] # spec[m]}}
    BY <1>0, <1>2 DEF EditIdp, Rests, Waited, NamesInv, TypeOK, IdpObjects
  <2>2. /\ Agreed
        /\ \A i \in Ids : Live(i) => \E n \in Names : idp.status[n].id = i
        /\ idp.phase = "live"
    BY <2>1 DEF Waited, PatientInv, ObjectInv, ClientsInv, Rests
  <2>3. \A n \in Names : n \in Declared(spec) => spec[n] # NoSecret
    BY DEF Declared
  <2>4. \A n \in Declared(spec) \cap Recorded(idp.status) :
           idp.status[n].secret \in moved' \cup {spec[n]}
    BY <2>1, <2>2 DEF Agreed, Declared, Recorded
  <2>5. ObjectInv'
    BY <1>0, <2>1, <2>4, ConstantsAssumption DEF Waited, PatientInv, ObjectInv, Rests
  <2>6. \A n \in Recorded(idp.status) : Live(idp.status[n].id)
    BY <2>2 DEF Waited, PatientInv, ClientsInv, Agreed, Recorded, Declared
  <2>7. ClientsInv'
    BY <1>0, <2>1, <2>2, <2>6 DEF ClientsInv, Rests, Removing, Providing, Live
  <2>8. \A s \in Secrets : HasData(s) =>
          s \in moved' \/ \E n \in Names : s \in {spec[n], idp.status[n].secret}
    BY <2>1, <2>2 DEF Waited, PatientInv, SecretsInv, Agreed
  <2>9. SecretsInv'
    BY <1>0, <2>1, <2>2, <2>8 DEF Waited, PatientInv, SecretsInv, Removing, Providing, Live, HasData
  <2>10. QED
    BY <2>5, <2>7, <2>9 DEF PatientInv
<1>3. CASE DeleteIdp
  <2>1. /\ Rests /\ idp'.phase = "deleting" /\ idp'.spec = idp.spec /\ idp'.status = idp.status
        /\ UNCHANGED <<secret, moved>>
    BY <1>0, <1>3 DEF DeleteIdp, Rests, Waited, NamesInv, TypeOK, IdpObjects
  <2>2. ObjectInv'
    BY <1>0, <2>1 DEF Waited, PatientInv, ObjectInv, Rests, Agreed
  <2>3. ClientsInv'
    BY <1>0, <2>1 DEF Waited, PatientInv, ClientsInv, Rests, Removing, Providing, Live
  <2>4. SecretsInv'
    BY <1>0, <2>1 DEF Waited, PatientInv, SecretsInv, Rests, Removing, Providing, Live, HasData
  <2>5. QED
    BY <2>2, <2>3, <2>4 DEF PatientInv
<1>4. \A s \in Secrets : ~ LoseSecret(s)
  BY DEF LoseSecret, Waited
<1>5. QED
  BY <1>1, <1>2, <1>3, <1>4 DEF Users

LEMMA BeginPatient == ASSUME Waited, Begin PROVE PatientInv'
<1>0. run.pc = "idle" /\ UNCHANGED <<idp, kc, secret, moved>>
  BY DEF Begin, user
<1>1. CASE idp.phase = "absent"
  <2>1. run' = run
    BY <1>1 DEF Begin
  <2>2. ObjectInv'
    BY <1>0, <1>1, <2>1 DEF Waited, PatientInv, ObjectInv, Rests, Agreed
  <2>3. ClientsInv'
    BY <1>0, <1>1, <2>1 DEF Waited, PatientInv, ClientsInv, Rests, Live
  <2>4. SecretsInv'
    BY <1>0, <1>1, <2>1 DEF Waited, PatientInv, SecretsInv, Live, HasData
  <2>5. QED
    BY <2>2, <2>3, <2>4 DEF PatientInv
<1>2. CASE idp.phase \in {"live", "deleting"}
  <2>1. /\ run'.spec = idp.spec /\ run'.status = idp.status
        /\ \/ idp.phase = "live" /\ run'.pc = "realm"
           \/ idp.phase = "deleting" /\ run'.pc = "finalize" /\ run'.todo = Declared(idp.spec)
    BY <1>2 DEF Begin, Idle
  <2>2. ObjectInv'
    BY <1>0, <2>1 DEF Waited, PatientInv, ObjectInv, Rests, Agreed, Ending
  <2>3. ClientsInv'
    BY <1>0, <1>2, <2>1 DEF Waited, PatientInv, ClientsInv, Rests, Live, Removing, Providing
  <2>4. SecretsInv'
    BY <1>0, <1>2, <2>1 DEF Waited, PatientInv, SecretsInv, Live, HasData, Removing, Providing
  <2>5. QED
    BY <2>2, <2>3, <2>4 DEF PatientInv
<1>3. QED
  BY <1>1, <1>2 DEF Waited, NamesInv, TypeOK, IdpObjects

LEMMA EnsureRealmPatient == ASSUME Waited, EnsureRealm PROVE PatientInv'
<1>0. run \in Runs
  BY DEF Waited, NamesInv, TypeOK
<1>1. /\ run.pc = "realm" /\ UNCHANGED <<idp, kc, secret, moved>>
      /\ run' = [run EXCEPT !.pc = "removed", !.todo = Recorded(run.status) \ Declared(run.spec)]
  BY DEF EnsureRealm, Advance, user
<1>2. idp.phase = "live" /\ run.spec = idp.spec /\ run.status = idp.status
  BY <1>1, LiveWork
<1>3. /\ run'.pc = "removed" /\ run'.spec = run.spec /\ run'.status = run.status
      /\ run'.todo = Recorded(idp.status) \ Declared(idp.spec)
  BY <1>0, <1>1, <1>2 DEF Runs
<1>4. ObjectInv'
  BY <1>1, <1>3, ObjectRunsOn DEF Ending
<1>5. ClientsInv'
  BY <1>1, <1>2, <1>3 DEF Waited, PatientInv, ClientsInv, Rests, Live, Providing
<1>6. SecretsInv'
  BY <1>1, <1>2, <1>3 DEF Waited, PatientInv, SecretsInv, Live, HasData, Providing
<1>7. QED
  BY <1>4, <1>5, <1>6 DEF PatientInv

\* A client that left the spec is deleted, and no other one.
LEMMA DeleteRemovedClientPatient ==
  ASSUME Waited, NEW n \in Names, DeleteRemovedClient(n) PROVE PatientInv'
<1> DEFINE id == idp.status[n].id
           s  == idp.status[n].secret
<1>0. run \in Runs
  BY DEF Waited, NamesInv, TypeOK
<1>1. /\ run.pc = "removed" /\ n \in run.todo /\ UNCHANGED <<idp, secret, queued, moved>>
  BY DEF DeleteRemovedClient, Advance, user
<1>2. /\ idp.phase = "live" /\ run.spec = idp.spec /\ run.status = idp.status /\ run.pc # "idle"
  BY <1>1, LiveWork DEF Removing
<1>3. n \in Recorded(idp.status) \ Declared(idp.spec)
  BY <1>1, <1>2 DEF Waited, WorkInv, Removing
<1>4. id \in Ids /\ s \in Secrets
  BY <1>3, Records DEF Recorded
<1>5. \A m \in Names : m # n /\ idp.status[m].id # NoId => idp.status[m].id # id
  BY <1>3, Records DEF Recorded
<1>6. run'.spec = run.spec /\ run'.status = run.status /\ run'.pc \in Removing
  BY <1>0, <1>1 DEF DeleteRemovedClient, Advance, Runs, Removing
<1>7. ObjectInv'
  BY <1>1, <1>2, <1>6, ObjectRunsOn DEF Ending, Removing
<1>8. CASE ~ HasData(s)
  <2>1. UNCHANGED kc /\ run'.pc = "removed" /\ run'.todo = run.todo \ {n}
    BY <1>0, <1>1, <1>2, <1>8 DEF DeleteRemovedClient, Advance, HasData, Runs
  <2>2. ~ Live(id)
    BY <1>2, <1>3, <1>8 DEF Waited, PatientInv, SecretsInv
  <2>3. ClientsInv'
    BY <1>1, <1>2, <2>1, <2>2 DEF Waited, PatientInv, ClientsInv, Rests, Live, Removing, Providing
  <2>4. SecretsInv'
    BY <1>1, <1>2, <1>8, <2>1 DEF Waited, PatientInv, SecretsInv, Live, HasData, Removing, Providing
  <2>5. QED
    BY <1>7, <2>3, <2>4 DEF PatientInv
<1>9. CASE HasData(s)
  <2>1. kc' = Gone(id) /\ run'.pc = "unsecret" /\ run'.todo = run.todo /\ run'.at = n
    BY <1>0, <1>1, <1>2, <1>9 DEF DeleteRemovedClient, Advance, HasData, Runs
  <2>2. \A i \in Ids : /\ kc'[i].name = kc[i].name
                       /\ kc'[i].state = "live" <=> kc[i].state = "live" /\ i # id
    BY <1>4, <2>1 DEF Gone, Live, Waited, NamesInv, TypeOK, KcClients
  <2>3. ClientsInv'
    <3>1. \A m \in Declared(idp.spec) \cap Recorded(idp.status) :
             idp.status[m].id \in Ids /\ kc'[idp.status[m].id].state = "live"
      BY <1>2, <1>3, <1>5, <2>2 DEF Waited, PatientInv, ClientsInv, Recorded, Live
    <3>2. \A i \in Ids : kc'[i].state = "live" =>
             kc'[i].name \in Declared(idp.spec) \/ \E m \in Names : idp.status[m].id = i
      BY <2>2 DEF Waited, PatientInv, ClientsInv, Live
    <3>3. \A m \in Recorded(idp.status) \ Declared(idp.spec) :
             m \notin run.todo => ~ (idp.status[m].id \in Ids /\ kc'[idp.status[m].id].state = "live")
      BY <1>1, <2>2 DEF Waited, PatientInv, ClientsInv, Live, Removing
    <3>4. ~ (idp.status[n].id \in Ids /\ kc'[idp.status[n].id].state = "live")
      BY <2>2
    <3>5. QED
      BY <1>1, <1>2, <2>1, <3>1, <3>2, <3>3, <3>4 DEF ClientsInv, Rests, Live, Removing, Providing
  <2>4. SecretsInv'
    BY <1>1, <1>2, <2>1, <2>2 DEF Waited, PatientInv, SecretsInv, Live, HasData, Removing, Providing
  <2>5. QED
    BY <1>7, <2>3, <2>4 DEF PatientInv
<1>10. QED
  BY <1>8, <1>9

\* Its secret goes: no client that the status names shares it.
LEMMA DeleteRemovedSecretPatient == ASSUME Waited, DeleteRemovedSecret PROVE PatientInv'
<1> DEFINE n == run.at
           s == idp.status[n].secret
<1>0. run \in Runs
  BY DEF Waited, NamesInv, TypeOK
<1>1. /\ run.pc = "unsecret" /\ UNCHANGED <<idp, kc, queued, moved>>
  BY DEF DeleteRemovedSecret, Advance, user
<1>2. /\ idp.phase = "live" /\ run.spec = idp.spec /\ run.status = idp.status /\ run.pc # "idle"
  BY <1>1, LiveWork DEF Removing
<1>3. n \in run.todo /\ run.todo \subseteq Recorded(idp.status) \ Declared(idp.spec)
  BY <1>1, <1>2 DEF Waited, WorkInv, Removing
<1>4. n \in Names /\ idp.status[n].id # NoId /\ s \in Secrets
  BY <1>3, Records DEF Recorded
<1>5. /\ run'.spec = run.spec /\ run'.status = run.status /\ run'.pc = "removed"
      /\ run'.todo = run.todo \ {n} /\ secret' = [secret EXCEPT ![s] = NoData]
  BY <1>0, <1>2 DEF DeleteRemovedSecret, Advance, Runs
<1>6. /\ secret'[s] = NoData
      /\ \A t \in Secrets : t # s => secret'[t] = secret[t]
  BY <1>4, <1>5 DEF Waited, NamesInv, TypeOK
<1>7. \A m \in Recorded(idp.status) : m # n => idp.status[m].secret \in Secrets \ {s}
  BY <1>4, Records DEF Waited, PatientInv, ObjectInv, Recorded
<1>8. ObjectInv'
  BY <1>1, <1>2, <1>5, ObjectRunsOn DEF Ending
<1>9. ~ Live(idp.status[n].id)
  BY <1>1 DEF Waited, PatientInv, ClientsInv
<1>10. ClientsInv'
  BY <1>1, <1>2, <1>5, <1>9 DEF Waited, PatientInv, ClientsInv, Rests, Live, Removing, Providing
<1>11. SecretsInv'
  <2>1. \A m \in Recorded(idp.status) : Live(idp.status[m].id) => secret'[idp.status[m].secret] # NoData
    BY <1>2, <1>6, <1>7, <1>9 DEF Waited, PatientInv, SecretsInv, HasData
  <2>2. \A m \in Recorded(idp.status) \ Declared(idp.spec) :
           m \notin run.todo \ {n} => secret'[idp.status[m].secret] = NoData
    BY <1>1, <1>6, <1>7 DEF Waited, PatientInv, SecretsInv, HasData, Removing
  <2>3. \A t \in Secrets : secret'[t] # NoData =>
           t \in moved \/ \E m \in Names : t \in {idp.spec[m], idp.status[m].secret}
    BY <1>6 DEF Waited, PatientInv, SecretsInv, HasData
  <2>4. QED
    BY <1>1, <1>2, <1>5, <2>1, <2>2, <2>3 DEF SecretsInv, Live, HasData, Removing, Providing
<1>12. QED
  BY <1>8, <1>10, <1>11 DEF PatientInv

\* When all that left the spec is deleted, the rest is of the spec.
LEMMA RemovalDonePatient == ASSUME Waited, RemovalDone PROVE PatientInv'
<1>0. run \in Runs
  BY DEF Waited, NamesInv, TypeOK
<1>1. /\ run.pc = "removed" /\ run.todo = {} /\ UNCHANGED <<idp, kc, secret, queued, moved>>
  BY DEF RemovalDone, Advance, user
<1>2. /\ idp.phase = "live" /\ run.spec = idp.spec /\ run.status = idp.status /\ run.pc # "idle"
  BY <1>1, LiveWork DEF Removing
<1>3. /\ run'.pc = "next" /\ run'.spec = run.spec /\ run'.status = run.status
      /\ run'.todo = Declared(idp.spec) /\ run'.managed = NoManaged
  BY <1>0, <1>1, <1>2 DEF RemovalDone, Advance, Runs, Waited, WorkInv, Removing
<1>4. ObjectInv'
  BY <1>1, <1>2, <1>3, ObjectRunsOn DEF Ending
<1>5. ClientsInv'
  <2>1. \A i \in Ids : Live(i) => kc[i].name \in Declared(idp.spec)
    <3> SUFFICES ASSUME NEW i \in Ids, Live(i), kc[i].name \notin Declared(idp.spec)
                 PROVE  FALSE
      OBVIOUS
    <3>1. PICK n \in Names : idp.status[n].id = i
      BY DEF Waited, PatientInv, ClientsInv
    <3>2. idp.status[n].id # NoId
      BY <3>1 DEF Ids, NoId
    <3>3. kc[i].name = n
      BY <3>1, <3>2, Records
    <3>4. QED
      BY <1>1, <3>1, <3>2, <3>3 DEF Waited, PatientInv, ClientsInv, Removing, Recorded
  <2>2. \A n \in Names : run'.managed[n] = Unmanaged
    BY <1>3 DEF NoManaged
  <2>3. QED
    BY <1>1, <1>2, <1>3, <2>1, <2>2 DEF Waited, PatientInv, ClientsInv, Rests, Live, Removing,
                                        Providing
<1>6. SecretsInv'
  <2>1. \A s \in Secrets : HasData(s) => s \in moved \/ \E n \in Names : s = idp.spec[n]
    <3> SUFFICES ASSUME NEW s \in Secrets, HasData(s), ~ \E n \in Names : s = idp.spec[n]
                 PROVE  s \in moved
      OBVIOUS
    <3>1. CASE s \in moved
      BY <3>1
    <3>2. CASE s \notin moved
      <4>1. PICK n \in Names : s = idp.status[n].secret
        BY <3>2 DEF Waited, PatientInv, SecretsInv
      <4>2. idp.status[n].id # NoId
        BY <4>1, ConstantsAssumption DEF Waited, PatientInv, ObjectInv
      <4>3. n \notin Declared(idp.spec)
        BY <1>2, <3>2, <4>1, <4>2 DEF Waited, PatientInv, ObjectInv, Recorded
      <4>4. QED
        BY <1>1, <4>1, <4>2, <4>3 DEF Waited, PatientInv, SecretsInv, Removing, Recorded
    <3>3. QED
      BY <3>1, <3>2
  <2>2. QED
    BY <1>1, <1>2, <1>3, <2>1 DEF Waited, PatientInv, SecretsInv, Live, HasData, Removing, Providing
<1>7. QED
  BY <1>4, <1>5, <1>6 DEF PatientInv

LEMMA GetClientPatient == ASSUME Waited, NEW n \in Names, GetClientByName(n) PROVE PatientInv'
<1>0. run \in Runs
  BY DEF Waited, NamesInv, TypeOK
<1>1. /\ run.pc = "next" /\ UNCHANGED <<idp, kc, secret, queued, moved>>
  BY DEF GetClientByName, Advance, user
<1>2. /\ idp.phase = "live" /\ run.spec = idp.spec /\ run.status = idp.status /\ run.pc # "idle"
  BY <1>1, LiveWork DEF Providing
<1>3. /\ run'.pc \in {"register", "update"} /\ run'.spec = run.spec /\ run'.status = run.status
      /\ run'.todo = run.todo /\ run'.managed = run.managed
  BY <1>0 DEF GetClientByName, Advance, Runs
<1>4. ObjectInv'
  BY <1>1, <1>2, <1>3, ObjectRunsOn DEF Ending
<1>5. ClientsInv'
  BY <1>1, <1>2, <1>3 DEF Waited, PatientInv, ClientsInv, Rests, Live, Removing, Providing
<1>6. SecretsInv'
  BY <1>1, <1>2, <1>3 DEF Waited, PatientInv, SecretsInv, Live, HasData, Removing, Providing
<1>7. QED
  BY <1>4, <1>5, <1>6 DEF PatientInv

\* What is registered has a name of the spec.
LEMMA RegisterPatient == ASSUME Waited, Register PROVE PatientInv'
<1>0. run \in Runs
  BY DEF Waited, NamesInv, TypeOK
<1>1. PICK i \in Ids :
        /\ kc[i].state = "unused"
        /\ kc' = [kc EXCEPT ![i] = [state |-> "live", name |-> run.at]]
        /\ Advance([run EXCEPT !.pc = "secret", !.id = i])
  BY DEF Register
<1>2. run.pc = "register" /\ UNCHANGED <<idp, secret, queued, moved>>
  BY <1>1 DEF Register, Advance, user
<1>3. /\ idp.phase = "live" /\ run.spec = idp.spec /\ run.status = idp.status /\ run.pc # "idle"
  BY <1>2, LiveWork DEF Providing
<1>4. /\ run'.pc = "secret" /\ run'.spec = run.spec /\ run'.status = run.status
      /\ run'.todo = run.todo /\ run'.managed = run.managed /\ run'.id = i
  BY <1>0, <1>1 DEF Advance, Runs
<1>5. run.at \in Declared(idp.spec)
  BY <1>2, <1>3 DEF Waited, WorkInv, Providing
<1>6. /\ kc'[i].state = "live" /\ kc'[i].name = run.at
      /\ \A j \in Ids : j # i => kc'[j] = kc[j]
  BY <1>1 DEF Waited, NamesInv, TypeOK
<1>7. \A n \in Names : idp.status[n].id # NoId => idp.status[n].id # i
  BY <1>1, Records
<1>8. ObjectInv'
  BY <1>2, <1>3, <1>4, ObjectRunsOn DEF Ending
<1>9. ClientsInv'
  <2>1. \A n \in Declared(idp.spec) \cap Recorded(idp.status) :
           idp.status[n].id \in Ids /\ kc'[idp.status[n].id].state = "live"
    BY <1>3, <1>6 DEF Waited, PatientInv, ClientsInv, Live
  <2>2. \A j \in Ids : kc'[j].state = "live" => kc'[j].name \in Declared(idp.spec)
    BY <1>2, <1>5, <1>6 DEF Waited, PatientInv, ClientsInv, Live, Providing
  <2>3. \A n \in Names :
           IF n \in Declared(idp.spec) \ run.todo
           THEN /\ run.managed[n].id \in Ids /\ kc'[run.managed[n].id].state = "live"
                /\ run.managed[n].secret = idp.spec[n]
           ELSE run.managed[n] = Unmanaged
    BY <1>2, <1>6 DEF Waited, PatientInv, ClientsInv, Live, Providing
  <2>4. QED
    BY <1>2, <1>3, <1>4, <1>6, <2>1, <2>2, <2>3 DEF ClientsInv, Rests, Live, Removing, Providing
<1>10. SecretsInv'
  <2>1. \A n \in Recorded(idp.status) :
           kc'[idp.status[n].id].state = "live" => kc[idp.status[n].id].state = "live"
    BY <1>6, <1>7, Records DEF Recorded
  <2>2. QED
    BY <1>2, <1>3, <1>4, <2>1 DEF Waited, PatientInv, SecretsInv, Live, HasData, Removing, Providing
<1>11. QED
  BY <1>8, <1>9, <1>10 DEF PatientInv

\* An update gives another token, not another client.
LEMMA UpdatePatient == ASSUME Waited, UpdateClient PROVE PatientInv'
<1>0. run \in Runs
  BY DEF Waited, NamesInv, TypeOK
<1>1. /\ run.pc = "update" /\ Live(UpdateTarget) /\ UNCHANGED <<idp, queued, moved>>
      /\ secret' = Rotated(UpdateTarget)
  BY DEF UpdateClient, Advance, user
<1>2. /\ idp.phase = "live" /\ run.spec = idp.spec /\ run.status = idp.status /\ run.pc # "idle"
  BY <1>1, LiveWork DEF Providing
<1>3. /\ run'.pc = "secret" /\ run'.spec = run.spec /\ run'.status = run.status
      /\ run'.todo = run.todo /\ run'.managed = run.managed /\ run'.id = UpdateTarget
  BY <1>0 DEF UpdateClient, Advance, Runs
<1>4. kc' = kc
  <2>1. run.at \in Names /\ HandedOut(run.id, run.at)
    BY <1>1 DEF Waited, NamesInv, RunInv
  <2>2. HandedOut(UpdateTarget, run.at)
    BY <2>1 DEF UpdateTarget, Waited, NamesInv, RunInv, StatusInv
  <2>3. QED
    BY <2>2 DEF UpdateClient, HandedOut, Waited, NamesInv, TypeOK, KcClients
<1>5. \A s \in Secrets : secret'[s] = NoData <=> secret[s] = NoData
  <2>1. UpdateTarget # NoId
    BY <1>1 DEF Live, Ids, NoId
  <2>2. NoData.id = NoId
    BY DEF NoData
  <2>3. ASSUME NEW s \in Secrets, secret[s].id = UpdateTarget
        PROVE  secret'[s].id = UpdateTarget
    BY <1>1, <2>3 DEF Rotated, Waited, NamesInv, TypeOK, SecretData
  <2>4. ASSUME NEW s \in Secrets, secret[s].id # UpdateTarget
        PROVE  secret'[s] = secret[s]
    BY <1>1, <2>4 DEF Rotated
  <2>5. QED
    BY <2>1, <2>2, <2>3, <2>4
<1>6. ObjectInv'
  BY <1>1, <1>2, <1>3, ObjectRunsOn DEF Ending
<1>7. ClientsInv'
  BY <1>1, <1>2, <1>3, <1>4 DEF Waited, PatientInv, ClientsInv, Rests, Live, Removing, Providing
<1>8. SecretsInv'
  <2>1. \A n \in Recorded(idp.status) : idp.status[n].secret \in Secrets
    BY Records DEF Recorded
  <2>2. \A n \in Declared(idp.spec) : idp.spec[n] \in Secrets
    BY DeclaredSecret DEF Declared
  <2>3. QED
    BY <1>1, <1>2, <1>3, <1>4, <1>5, <2>1, <2>2
    DEF Waited, PatientInv, SecretsInv, Live, HasData, Removing, Providing
<1>9. QED
  BY <1>6, <1>7, <1>8 DEF PatientInv

LEMMA SecretPatient == ASSUME Waited, CreateOrUpdateSecret PROVE PatientInv'
<1> DEFINE n == run.at
           s == idp.spec[n]
<1>0. run \in Runs
  BY DEF Waited, NamesInv, TypeOK
<1>1. /\ run.pc = "secret" /\ UNCHANGED <<idp, kc, queued, moved>> /\ run' = ClientDone
  BY DEF CreateOrUpdateSecret, Advance, user
<1>2. /\ idp.phase = "live" /\ run.spec = idp.spec /\ run.status = idp.status /\ run.pc # "idle"
  BY <1>1, LiveWork DEF Providing
<1>3. n \in run.todo /\ run.todo \subseteq Declared(idp.spec) /\ n \in Names
  BY <1>0, <1>1, <1>2 DEF Waited, WorkInv, Providing, Runs
<1>4. s \in Secrets
  BY <1>3, DeclaredSecret
<1>5. /\ run'.pc = "next" /\ run'.spec = run.spec /\ run'.status = run.status
      /\ run'.todo = run.todo \ {n}
      /\ run'.managed = [run.managed EXCEPT ![n] = [id |-> run.id, secret |-> s]]
  BY <1>0, <1>1, <1>2 DEF ClientDone, Runs
<1>6. /\ run'.managed[n].id = run.id /\ run'.managed[n].secret = s
      /\ \A m \in Names : m # n => run'.managed[m] = run.managed[m]
  BY <1>0, <1>3, <1>5 DEF Runs, Managed
<1>7. /\ secret'[s] # NoData
      /\ \A t \in Secrets : t # s => secret'[t] = secret[t]
  BY <1>2, <1>4 DEF CreateOrUpdateSecret, NoData, Waited, NamesInv, TypeOK
<1>8. ObjectInv'
  BY <1>1, <1>2, <1>5, ObjectRunsOn DEF Ending
<1>9. ClientsInv'
  <2>1. Live(run.id)
    BY <1>1 DEF Waited, PatientInv, ClientsInv
  <2>2. \A m \in Names : IF m \in Declared(idp.spec) \ (run.todo \ {n})
                         THEN Live(run'.managed[m].id) /\ run'.managed[m].secret = idp.spec[m]
                         ELSE run'.managed[m] = Unmanaged
    BY <1>1, <1>3, <1>6, <2>1 DEF Waited, PatientInv, ClientsInv, Providing
  <2>3. QED
    BY <1>1, <1>2, <1>5, <2>2 DEF Waited, PatientInv, ClientsInv, Rests, Live, Removing, Providing
<1>10. SecretsInv'
  <2>1. \A t \in Secrets : secret[t] # NoData => secret'[t] # NoData
    BY <1>7
  <2>2. \A m \in Recorded(idp.status) : idp.status[m].secret \in Secrets
    BY Records DEF Recorded
  <2>3. \A m \in Declared(idp.spec) \ (run.todo \ {n}) : secret'[idp.spec[m]] # NoData
    BY <1>1, <1>3, <1>7, <2>1, DeclaredSecret DEF Waited, PatientInv, SecretsInv, HasData, Providing,
       Declared
  <2>4. \A t \in Secrets : secret'[t] # NoData => t \in moved \/ \E m \in Names : t = idp.spec[m]
    BY <1>1, <1>3, <1>7 DEF Waited, PatientInv, SecretsInv, HasData, Providing
  <2>5. QED
    BY <1>1, <1>2, <1>5, <2>1, <2>2, <2>3, <2>4
    DEF Waited, PatientInv, SecretsInv, Live, HasData, Removing, Providing
<1>11. QED
  BY <1>8, <1>9, <1>10 DEF PatientInv

\* With the status, spec and realm agree.
LEMMA PatchPatient == ASSUME Waited, PatchStatus PROVE PatientInv'
<1>0. run \in Runs /\ idp \in IdpObjects
  BY DEF Waited, NamesInv, TypeOK
<1>1. /\ run.pc = "next" /\ run.todo = {} /\ UNCHANGED <<kc, secret, moved>> /\ run' = Idle
      /\ idp'.phase = idp.phase /\ idp'.spec = idp.spec /\ idp'.status = run.managed
  BY <1>0 DEF PatchStatus, Advance, user, IdpObjects
<1>2. idp.phase = "live" /\ run.spec = idp.spec /\ run'.pc = "idle"
  BY <1>1, LiveWork DEF Providing, Idle
<1>3. /\ \A n \in Names : n \in Declared(idp.spec) =>
            Live(run.managed[n].id) /\ run.managed[n].secret = idp.spec[n]
      /\ \A n \in Names : n \notin Declared(idp.spec) =>
            run.managed[n].id = NoId /\ run.managed[n].secret = NoSecret
  BY <1>1 DEF Waited, PatientInv, ClientsInv, Providing, Unmanaged
<1>4. \A i : Live(i) => i # NoId
  BY DEF Live, Ids, NoId
<1>5. \A n \in Names : n \in Declared(idp.spec) <=> idp.spec[n] # NoSecret
  BY DEF Declared
<1>6. /\ \A n \in Names : idp'.status[n].secret = idp.spec[n]
      /\ \A n \in Names : idp'.status[n].id # NoId <=> idp.spec[n] # NoSecret
      /\ \A n \in Names : idp'.status[n].id # NoId => Live(idp'.status[n].id)
  BY <1>1, <1>3, <1>4, <1>5
<1>7. ObjectInv'
  <2>1. \A m, o \in Names : m # o /\ idp.spec[m] = idp.spec[o] => idp.spec[m] = NoSecret
    BY DEF Waited, PatientInv, ObjectInv
  <2>2. Agreed'
    BY <1>1, <1>6 DEF Agreed
  <2>3. \A m, o \in Names : m # o /\ idp'.status[m].id # NoId /\ idp'.status[o].id # NoId
                             => idp'.status[m].secret # idp'.status[o].secret
    BY <1>6, <2>1
  <2>4. \A n \in Declared(idp.spec) : idp'.status[n].secret = idp.spec[n]
    BY <1>6 DEF Declared
  <2>5. QED
    BY <1>1, <1>2, <1>6, <2>1, <2>2, <2>3, <2>4 DEF ObjectInv, Declared, Recorded
<1>8. ClientsInv'
  <2>1. \A i \in Ids : Live(i) => kc[i].name \in Declared(idp.spec)
    BY <1>1 DEF Waited, PatientInv, ClientsInv, Providing
  <2>2. ASSUME NEW i \in Ids, Live(i) PROVE \E n \in Names : idp'.status[n].id = i
    <3>1. PICK n \in Declared(idp.spec) : n = kc[i].name
      BY <2>1, <2>2
    <3>2. n \in Names
      BY DEF Declared
    <3>3. HandedOut(run.managed[n].id, n) /\ Live(run.managed[n].id)
      BY <1>3, <1>4, <3>2 DEF Waited, NamesInv, RunInv, StatusInv
    <3>4. run.managed[n].id = i
      BY <2>2, <3>1, <3>3 DEF HandedOut, Waited, NamesInv, NoDuplicateClient
    <3>5. QED
      BY <1>1, <3>2, <3>4
  <2>3. QED
    BY <1>1, <1>2, <1>6, <2>1, <2>2 DEF ClientsInv, Rests, Live, Removing, Providing, Declared, Recorded
<1>9. SecretsInv'
  <2>1. \A n \in Names : idp'.status[n].id # NoId => HasData(idp'.status[n].secret)
    BY <1>1, <1>5, <1>6 DEF Waited, PatientInv, SecretsInv, Providing
  <2>2. \A s \in Secrets : HasData(s) => s \in moved \/ \E n \in Names : s = idp.spec[n]
    BY <1>1 DEF Waited, PatientInv, SecretsInv, Providing
  <2>3. QED
    BY <1>1, <1>2, <2>1, <2>2 DEF SecretsInv, HasData, Removing, Providing, Declared, Recorded
<1>10. QED
  BY <1>7, <1>8, <1>9 DEF PatientInv

LEMMA PassOverPatient == ASSUME Waited, NEW n \in Names, PassOver(n) PROVE PatientInv'
<1>0. run \in Runs
  BY DEF Waited, NamesInv, TypeOK
<1>1. /\ run.pc = "finalize" /\ n \in run.todo /\ UNCHANGED <<idp, kc, secret, queued, moved>>
      /\ run'.pc = "finalize" /\ run'.spec = run.spec /\ run'.status = run.status
      /\ run'.todo = run.todo \ {n}
  BY <1>0 DEF PassOver, Advance, user, Runs
<1>2. /\ idp.phase = "deleting" /\ run.pc # "idle" /\ run.spec = idp.spec /\ run.status = idp.status
  BY <1>1, EndingWork DEF Ending
<1>3. ~ HasData(idp.spec[n])
  <2>1. n \in Declared(idp.spec)
    BY <1>1, <1>2 DEF Waited, WorkInv
  <2>2. idp.status[n].id # NoId
    BY <1>2, <2>1 DEF Waited, PatientInv, ObjectInv, Agreed, Declared
  <2>3. QED
    BY <1>2, <2>2 DEF PassOver, HasData
<1>4. ObjectInv'
  BY <1>1, <1>2, ObjectRunsOn DEF Ending
<1>5. ClientsInv'
  BY <1>1, <1>2 DEF Waited, PatientInv, ClientsInv, Rests, Live, Removing, Providing
<1>6. SecretsInv'
  BY <1>1, <1>2, <1>3 DEF Waited, PatientInv, SecretsInv, Live, HasData, Removing, Providing
<1>7. QED
  BY <1>4, <1>5, <1>6 DEF PatientInv

LEMMA FinalizeClientPatient == ASSUME Waited, NEW n \in Names, FinalizeClient(n) PROVE PatientInv'
<1>0. run \in Runs
  BY DEF Waited, NamesInv, TypeOK
<1>1. /\ run.pc = "finalize" /\ UNCHANGED <<idp, secret, queued, moved>>
      /\ kc' = Gone(run.status[n].id)
      /\ run'.pc = "erase" /\ run'.spec = run.spec /\ run'.status = run.status
      /\ run'.todo = run.todo
  BY <1>0 DEF FinalizeClient, Advance, user, Runs
<1>2. /\ idp.phase = "deleting" /\ run.pc # "idle" /\ run.spec = idp.spec /\ run.status = idp.status
  BY <1>1, EndingWork DEF Ending
<1>3. \A i \in Ids : /\ kc'[i].name = kc[i].name
                     /\ kc'[i].state = "live" => kc[i].state = "live"
  BY <1>1 DEF Gone, Live, Waited, NamesInv, TypeOK, KcClients
<1>4. ObjectInv'
  BY <1>1, <1>2, ObjectRunsOn DEF Ending
<1>5. ClientsInv'
  BY <1>1, <1>2, <1>3 DEF Waited, PatientInv, ClientsInv, Rests, Live, Removing, Providing
<1>6. SecretsInv'
  BY <1>1, <1>2, <1>3 DEF Waited, PatientInv, SecretsInv, Live, HasData, Removing, Providing
<1>7. QED
  BY <1>4, <1>5, <1>6 DEF PatientInv

LEMMA FinalizeSecretPatient == ASSUME Waited, FinalizeSecret PROVE PatientInv'
<1> DEFINE n == run.at
<1>0. run \in Runs
  BY DEF Waited, NamesInv, TypeOK
<1>1. /\ run.pc = "erase" /\ UNCHANGED <<idp, kc, queued, moved>>
      /\ run'.pc = "finalize" /\ run'.spec = run.spec /\ run'.status = run.status
      /\ run'.todo = run.todo \ {n}
      /\ secret' = [secret EXCEPT ![run.spec[n]] = NoData]
  BY <1>0 DEF FinalizeSecret, Advance, user, Runs
<1>2. /\ idp.phase = "deleting" /\ run.pc # "idle" /\ run.spec = idp.spec /\ run.status = idp.status
  BY <1>1, EndingWork DEF Ending
<1>3. n \in Declared(idp.spec) /\ n \in Names
  BY <1>1, <1>2 DEF Waited, WorkInv, Declared
<1>4. idp.spec[n] \in Secrets
  BY <1>3, DeclaredSecret
<1>5. /\ secret'[idp.spec[n]] = NoData
      /\ \A t \in Secrets : secret'[t] # NoData => secret[t] # NoData
  BY <1>1, <1>2, <1>4 DEF Waited, NamesInv, TypeOK
<1>6. ObjectInv'
  BY <1>1, <1>2, ObjectRunsOn DEF Ending
<1>7. ClientsInv'
  BY <1>1, <1>2 DEF Waited, PatientInv, ClientsInv, Rests, Live, Removing, Providing
<1>8. SecretsInv'
  <2>1. \A m \in Declared(idp.spec) \ (run.todo \ {n}) : secret'[idp.spec[m]] = NoData
    BY <1>1, <1>5, DeclaredSecret DEF Waited, PatientInv, SecretsInv, HasData, Declared
  <2>2. QED
    BY <1>1, <1>2, <1>5, <2>1 DEF Waited, PatientInv, SecretsInv, Live, HasData, Removing, Providing
<1>9. QED
  BY <1>6, <1>7, <1>8 DEF PatientInv

LEMMA DeleteRealmPatient == ASSUME Waited, DeleteRealm PROVE PatientInv'
<1>0. run \in Runs
  BY DEF Waited, NamesInv, TypeOK
<1>1. /\ run.pc = "finalize" /\ run.todo = {} /\ UNCHANGED <<idp, secret, queued, moved>>
      /\ run'.pc = "release" /\ run'.spec = run.spec /\ run'.status = run.status
  BY <1>0 DEF DeleteRealm, Advance, user, Runs
<1>2. /\ idp.phase = "deleting" /\ run.pc # "idle" /\ run.spec = idp.spec /\ run.status = idp.status
  BY <1>1, EndingWork DEF Ending
<1>3. \A i \in Ids : kc'[i].state # "live"
  BY DEF DeleteRealm, Live, Waited, NamesInv, TypeOK, KcClients
<1>4. ASSUME NEW s \in Secrets, HasData(s) PROVE s \in moved
  <2>1. \A n \in Names : n \in Declared(idp.spec) => ~ HasData(idp.spec[n])
    BY <1>1 DEF Waited, PatientInv, SecretsInv
  <2>2. \A n \in Names : idp.status[n].secret = idp.spec[n]
    BY <1>2 DEF Waited, PatientInv, ObjectInv, Agreed
  <2>3. \A n \in Names : s # idp.spec[n]
    BY <1>4, <2>1, DeclaredSecret
  <2>4. QED
    BY <1>4, <2>2, <2>3 DEF Waited, PatientInv, SecretsInv
<1>5. ObjectInv'
  BY <1>1, <1>2, ObjectRunsOn DEF Ending
<1>6. ClientsInv'
  BY <1>1, <1>2, <1>3 DEF ClientsInv, Rests, Live, Removing, Providing
<1>7. SecretsInv'
  BY <1>1, <1>2, <1>4 DEF SecretsInv, HasData, Removing, Providing
<1>8. QED
  BY <1>5, <1>6, <1>7 DEF PatientInv

LEMMA ReleasePatient == ASSUME Waited, Release PROVE PatientInv'
<1>1. /\ run.pc = "release" /\ UNCHANGED <<kc, secret, moved>> /\ run'.pc = "idle"
      /\ idp'.phase = "absent"
      /\ \A n \in Names : idp'.spec[n] = NoSecret /\ idp'.status[n] = Unmanaged
  BY DEF Release, Advance, user, Idle, Absent, NoClients, NoManaged
<1>2. ObjectInv'
  BY <1>1 DEF ObjectInv, Rests, Unmanaged
<1>3. ClientsInv'
  BY <1>1 DEF Waited, PatientInv, ClientsInv, Rests, Live, Removing, Providing
<1>4. SecretsInv'
  BY <1>1 DEF Waited, PatientInv, SecretsInv, HasData, Removing, Providing
<1>5. QED
  BY <1>2, <1>3, <1>4 DEF PatientInv

LEMMA PatientStep == ASSUME Waited, [Next]_vars PROVE PatientInv'
<1>1. CASE Users
  BY <1>1, UsersPatient
<1>2. CASE Begin
  BY <1>2, BeginPatient
<1>3. CASE EnsureRealm
  BY <1>3, EnsureRealmPatient
<1>4. CASE DeleteRemovedSecret
  BY <1>4, DeleteRemovedSecretPatient
<1>5. CASE RemovalDone
  BY <1>5, RemovalDonePatient
<1>6. CASE Register
  BY <1>6, RegisterPatient
<1>7. CASE UpdateClient
  BY <1>7, UpdatePatient
<1>8. CASE CreateOrUpdateSecret
  BY <1>8, SecretPatient
<1>9. CASE PatchStatus
  BY <1>9, PatchPatient
<1>10. CASE FinalizeSecret
  BY <1>10, FinalizeSecretPatient
<1>11. CASE DeleteRealm
  BY <1>11, DeleteRealmPatient
<1>12. CASE Release
  BY <1>12, ReleasePatient
<1>13. CASE Refuse \/ Fault
  BY <1>13, EndsEarly DEF Refuse, Fault, Fail, user
<1>14. ASSUME NEW n \in Names,
              DeleteRemovedClient(n) \/ GetClientByName(n) \/ PassOver(n) \/ FinalizeClient(n)
       PROVE  PatientInv'
  BY <1>14, DeleteRemovedClientPatient, GetClientPatient, PassOverPatient, FinalizeClientPatient
<1>15. CASE UNCHANGED vars
  <2>1. UNCHANGED <<idp, kc, secret, queued, run, moved>>
    BY <1>15 DEF vars, user
  <2>2. (Agreed' <=> Agreed) /\ (Rests' <=> Rests)
    BY <2>1 DEF Agreed, Rests
  <2>3. ObjectInv'
    BY <2>1, <2>2 DEF Waited, PatientInv, ObjectInv, Recorded, Declared
  <2>4. ClientsInv'
    BY <2>1, <2>2 DEF Waited, PatientInv, ClientsInv, Live, Recorded, Declared
  <2>5. SecretsInv'
    BY <2>1 DEF Waited, PatientInv, SecretsInv, Live, HasData, Recorded, Declared
  <2>6. QED
    BY <2>3, <2>4, <2>5 DEF PatientInv
<1>16. QED
  BY <1>1, <1>2, <1>3, <1>4, <1>5, <1>6, <1>7, <1>8, <1>9, <1>10, <1>11, <1>12, <1>13, <1>14,
     <1>15 DEF Next, Controller

LEMMA PatienceStays == [Next]_vars => patient' = patient
  BY DEF Next, Users, Controller, vars, user, MayEdit, CreateIdp, EditIdp, DeleteIdp, LoseSecret,
         Begin, Advance, EnsureRealm, DeleteRemovedClient, DeleteRemovedSecret, RemovalDone,
         GetClientByName, Register, UpdateClient, CreateOrUpdateSecret, PatchStatus, PassOver,
         FinalizeClient, FinalizeSecret, DeleteRealm, Release, Refuse, Fault, Fail

\* All of it together, for use in temporal steps.
IdpInv == NamesInv /\ WorkInv /\ (patient => PatientInv)

LEMMA IdpInvCorrect == Spec => []IdpInv
<1>1. Init => IdpInv
  BY InitNamesInv, InitWork DEF IdpInv, PatientInv
<1>2. ASSUME IdpInv, [Next]_vars PROVE IdpInv'
  <2>1. NamesInv'
    BY <1>2, NextNamesInv DEF IdpInv
  <2>2. WorkInv'
    BY <1>2, WorkStep DEF IdpInv, NamesInv
  <2>3. patient' => PatientInv'
    BY <1>2, PatienceStays, PatientStep DEF IdpInv, Waited
  <2>4. QED
    BY <2>1, <2>2, <2>3 DEF IdpInv
<1>3. QED
  BY <1>1, <1>2, PTL DEF Spec

\* When users wait for the controller, no client stays in the realm that neither
\* the spec nor the status knows, wherever a reconcile between registration, record
\* and removal fails (deleteRemovedClients, Finalize).
THEOREM NoOrphanedClientCorrect == Spec => []NoOrphanedClient
<1>1. IdpInv => NoOrphanedClient
  BY DEF IdpInv, PatientInv, ClientsInv, NoOrphanedClient
<1>2. QED
  BY <1>1, IdpInvCorrect, PTL

\* When users wait for the controller, no secret keeps credentials that neither the
\* spec nor the status names, but for those a client of the spec was moved away from
\* (deleteRemovedClients, Finalize).
THEOREM NoLeakedSecretCorrect == Spec => []NoLeakedSecret
<1>1. IdpInv => NoLeakedSecret
  BY DEF IdpInv, PatientInv, SecretsInv, HasData, NoLeakedSecret
<1>2. QED
  BY <1>1, IdpInvCorrect, PTL

----------------------------------------------------------------------------
(* The steps of the identity provider are steps of Provisioning.           *)

Wanted == Declared(idp.spec)
Noted  == Recorded(idp.status)

LEMMA Fields ==
  /\ Provided.phase = idp.phase /\ Provided.wanted = Wanted /\ Provided.recorded = Noted
  /\ Provided.granted = GrantedClients /\ Provided.bound = patient
  BY DEF Provided, Wanted, Noted

LEMMA FieldsNext ==
  /\ Provided'.phase = idp'.phase /\ Provided'.wanted = Wanted' /\ Provided'.recorded = Noted'
  /\ Provided'.granted = GrantedClients' /\ Provided'.bound = patient'
  BY DEF Provided, Wanted, Noted

LEMMA ProvidedType == TypeOK => Provided \in Promise!Objects
  BY DEF TypeOK, IdpObjects, Provided, Promise!Objects, Declared, Recorded, GrantedClients

LEMMA ProvidedTypeNext == TypeOK' => Provided' \in Promise!Objects
  BY DEF TypeOK, IdpObjects, Provided, Promise!Objects, Declared, Recorded, GrantedClients

\* The same for any two objects, to be used without looking into Provided.
LEMMA SameObject ==
  ASSUME NEW o \in Promise!Objects, NEW q \in Promise!Objects,
         q.phase = o.phase, q.wanted = o.wanted, q.recorded = o.recorded,
         q.granted = o.granted, q.bound = o.bound
  PROVE  q = o
  BY DEF Promise!Objects

LEMMA Served ==
  ASSUME NEW o \in Promise!Objects, NEW q \in Promise!Objects,
         q.phase = o.phase, q.wanted = o.wanted, q.bound = o.bound
  PROVE  q = [o EXCEPT !.recorded = q.recorded, !.granted = q.granted]
  BY DEF Promise!Objects

LEMMA Asked ==
  ASSUME NEW o \in Promise!Objects, NEW q \in Promise!Objects,
         q.recorded = o.recorded, q.granted = o.granted
  PROVE  q = [o EXCEPT !.phase = q.phase, !.wanted = q.wanted, !.bound = q.bound]
  BY DEF Promise!Objects

LEMMA Deleted ==
  ASSUME NEW o \in Promise!Objects, NEW q \in Promise!Objects,
         q.wanted = o.wanted, q.recorded = o.recorded, q.granted = o.granted
  PROVE  q = [o EXCEPT !.phase = q.phase, !.bound = q.bound]
  BY DEF Promise!Objects

LEMMA Vanished ==
  ASSUME NEW q \in Promise!Objects, q.wanted = {}, q.recorded = {}, q.granted = {}
  PROVE  q = [phase |-> q.phase, wanted |-> {}, recorded |-> {}, granted |-> {},
              bound |-> q.bound]
  BY DEF Promise!Objects

\* A client that is granted is recorded, and nothing is for an absent object.
LEMMA GrantedIsNoted ==
  /\ GrantedClients \subseteq Noted
  /\ GrantedClients' \subseteq Noted'
<1>1. \A i \in Ids : i # NoId
  BY DEF Ids, NoId
<1>2. QED
  BY <1>1 DEF GrantedClients, Noted, Recorded, Live

LEMMA AbsentFields ==
  /\ idp = Absent => Wanted = {} /\ Noted = {} /\ GrantedClients = {}
  /\ idp' = Absent => Wanted' = {} /\ Noted' = {} /\ GrantedClients' = {}
<1>1. idp = Absent => Wanted = {} /\ Noted = {}
  BY DEF Absent, NoClients, NoManaged, Unmanaged, Wanted, Noted, Declared, Recorded
<1>2. idp' = Absent => Wanted' = {} /\ Noted' = {}
  BY DEF Absent, NoClients, NoManaged, Unmanaged, Wanted, Noted, Declared, Recorded
<1>3. QED
  BY <1>1, <1>2, GrantedIsNoted

\* What status and spec of a live object agree on is in the realm.
LEMMA NotedIsGranted ==
  ASSUME IdpInv', patient', idp'.phase = "live"
  PROVE  Wanted' \cap Noted' \subseteq GrantedClients'
<1> SUFFICES ASSUME NEW n \in Wanted' \cap Noted'
             PROVE  n \in GrantedClients'
  OBVIOUS
<1>1. n \in Names /\ idp'.status[n].id # NoId
  BY DEF Wanted, Noted, Declared, Recorded
<1>2. kc'[idp'.status[n].id].name = n
  BY <1>1 DEF IdpInv, NamesInv, StatusInv, HandedOut
<1>3. idp'.status[n].id \in Ids /\ kc'[idp'.status[n].id].state = "live"
  BY DEF IdpInv, PatientInv, ClientsInv, Wanted, Noted, Live
<1>4. QED
  BY <1>1, <1>2, <1>3 DEF GrantedClients, Live

\* A step that leaves phase and spec alone, if it respects what patient users asked
\* for and were told.
LEMMA ServeStep ==
  ASSUME IdpInv, IdpInv', UNCHANGED patient,
         idp.phase # "absent", idp'.phase = idp.phase, Wanted' = Wanted,
         patient /\ idp.phase = "live" => Wanted \cap Noted \subseteq Noted',
         patient => Noted' \subseteq Noted \cup Wanted
  PROVE  Promise!Next
<1>1. Provided \in Promise!Objects /\ Provided' \in Promise!Objects
  BY ProvidedType, ProvidedTypeNext DEF IdpInv, NamesInv
<1>2. Provided' = [Provided EXCEPT !.recorded = Noted', !.granted = GrantedClients']
  BY <1>1, Fields, FieldsNext, Served
<1>3. patient => GrantedClients' \subseteq GrantedClients \cup Noted \cup Wanted
  BY GrantedIsNoted
<1>4. patient /\ idp.phase = "live" => Wanted \cap Noted' \subseteq GrantedClients'
  BY NotedIsGranted
<1>5. Promise!Serve(Noted', GrantedClients')
  BY <1>2, <1>3, <1>4, Fields DEF Promise!Serve, Promise!Kept
<1>6. Noted' \in SUBSET Names /\ GrantedClients' \in SUBSET Names
  BY DEF Noted, Recorded, GrantedClients
<1>7. QED
  BY <1>5, <1>6 DEF Promise!Next

\* An edit of patient users comes when the status is up to date.
LEMMA AskStep ==
  ASSUME IdpInv, IdpInv', UNCHANGED <<Noted, GrantedClients, patient>>,
         idp.phase = "absent" \/ (idp.phase = "live" /\ (patient => Noted = Wanted)),
         idp'.phase = "live"
  PROVE  Promise!Next
<1>1. Provided \in Promise!Objects /\ Provided' \in Promise!Objects
  BY ProvidedType, ProvidedTypeNext DEF IdpInv, NamesInv
<1>2. patient \in BOOLEAN
  BY DEF IdpInv, NamesInv, TypeOK
<1>3. patient' = (patient /\ (idp.phase = "live" => Noted = Wanted))
  BY <1>2
<1>4. Provided' = [Provided EXCEPT !.phase = "live", !.wanted = Wanted', !.bound = patient']
  <2>1. Provided'.recorded = Provided.recorded /\ Provided'.granted = Provided.granted
    BY Fields, FieldsNext
  <2>2. Provided' = [Provided EXCEPT !.phase = Provided'.phase, !.wanted = Provided'.wanted,
                                     !.bound = Provided'.bound]
    BY <1>1, <2>1, Asked
  <2>3. /\ Provided'.phase = "live" /\ Provided'.wanted = Wanted'
        /\ Provided'.bound = patient'
    BY FieldsNext
  <2>4. QED
    BY <2>2, <2>3, Zenon
<1>5. Promise!Ask(Wanted')
  BY <1>3, <1>4, Fields DEF Promise!Ask, Promise!Settled
<1>6. Wanted' \in SUBSET Names
  BY DEF Wanted, Declared
<1>7. QED
  BY <1>5, <1>6 DEF Promise!Next

LEMMA UsersKeepPromise ==
  ASSUME IdpInv, IdpInv', UNCHANGED patient, Users, idp' # idp
  PROVE  Promise!Next
<1>0. /\ patient => ~ queued /\ run.pc = "idle"
      /\ kc' = kc /\ idp \in IdpObjects
  BY DEF Users, CreateIdp, EditIdp, DeleteIdp, LoseSecret, MayEdit, IdpInv, NamesInv, TypeOK
<1>1. patient /\ idp.phase = "live" => Noted = Wanted
  <2> SUFFICES ASSUME patient, idp.phase = "live" PROVE Noted = Wanted
    OBVIOUS
  <2>1. Agreed
    BY <1>0 DEF IdpInv, PatientInv, ObjectInv, Rests
  <2>2. QED
    BY <2>1 DEF Agreed, Noted, Wanted, Recorded, Declared
<1>2. idp'.status = idp.status => Noted' = Noted /\ GrantedClients' = GrantedClients
  BY <1>0 DEF Noted, GrantedClients, Recorded, Live
<1>3. ASSUME NEW spec \in Specs, CreateIdp(spec) PROVE Promise!Next
  <2>1. idp = Absent /\ idp.phase = "absent" /\ idp'.phase = "live" /\ idp'.status = idp.status
    BY <1>3 DEF CreateIdp, IdpInv, WorkInv, Absent
  <2>2. QED
    BY <1>2, <2>1, AskStep
<1>4. ASSUME NEW spec \in Specs, EditIdp(spec) PROVE Promise!Next
  <2>1. idp.phase = "live" /\ idp'.phase = "live" /\ idp'.status = idp.status
    BY <1>0, <1>4 DEF EditIdp, IdpObjects
  <2>2. QED
    BY <1>1, <1>2, <2>1, AskStep
<1>5. CASE DeleteIdp
  <2>1. /\ idp.phase = "live" /\ idp'.phase = "deleting" /\ idp'.status = idp.status
        /\ idp'.spec = idp.spec
    BY <1>0, <1>5 DEF DeleteIdp, IdpObjects
  <2>2. Wanted' = Wanted
    BY <2>1 DEF Wanted, Declared
  <2>3. Provided \in Promise!Objects /\ Provided' \in Promise!Objects
    BY ProvidedType, ProvidedTypeNext DEF IdpInv, NamesInv
  <2>4. Provided' = [Provided EXCEPT !.phase = "deleting", !.bound = patient']
    BY <1>2, <2>1, <2>2, <2>3, Fields, FieldsNext, Deleted
  <2>5. patient \in BOOLEAN
    BY DEF IdpInv, NamesInv, TypeOK
  <2>6. patient' = (patient /\ Noted = Wanted)
    BY <1>1, <2>1, <2>5
  <2>7. Promise!Delete
    BY <2>1, <2>4, <2>6, Fields DEF Promise!Delete, Promise!Settled
  <2>8. QED
    BY <2>7 DEF Promise!Next
<1>6. \A s \in Secrets : ~ LoseSecret(s)
  BY DEF LoseSecret
<1>7. QED
  BY <1>3, <1>4, <1>5, <1>6 DEF Users

LEMMA ReleaseKeepsPromise ==
  ASSUME IdpInv, IdpInv', UNCHANGED patient, Release
  PROVE  Promise!Next
<1>1. idp.phase = "deleting" /\ idp' = Absent /\ idp'.phase = "absent"
  BY DEF Release, IdpInv, WorkInv, Ending, Absent
<1>2. Provided' \in Promise!Objects
  BY ProvidedTypeNext DEF IdpInv, NamesInv
<1>3. Wanted' = {} /\ Noted' = {} /\ GrantedClients' = {}
  BY <1>1, AbsentFields
<1>4. Provided' = [phase |-> "absent", wanted |-> {}, recorded |-> {}, granted |-> {},
                   bound |-> patient']
  BY <1>1, <1>2, <1>3, FieldsNext, Vanished
<1>5. patient \in BOOLEAN /\ patient' = (patient /\ TRUE)
  BY DEF IdpInv, NamesInv, TypeOK
<1>6. Promise!Vanish
  BY <1>1, <1>4, <1>5, Fields DEF Promise!Vanish
<1>7. QED
  BY <1>6 DEF Promise!Next

LEMMA PatchKeepsPromise ==
  ASSUME IdpInv, IdpInv', UNCHANGED patient, PatchStatus
  PROVE  Promise!Next
<1>1. /\ run.pc = "next" /\ run.todo = {} /\ idp'.phase = idp.phase /\ idp'.spec = idp.spec
      /\ idp'.status = run.managed
  BY DEF PatchStatus, IdpInv, NamesInv, TypeOK, IdpObjects
<1>2. idp.phase # "absent"
  BY <1>1 DEF IdpInv, WorkInv
<1>3. Wanted' = Wanted
  BY <1>1 DEF Wanted, Declared
<1>4. patient => Noted' = Wanted
  <2> SUFFICES ASSUME patient PROVE Noted' = Wanted
    OBVIOUS
  <2>1. \A n \in Names : IF n \in Declared(idp.spec) THEN Live(run.managed[n].id)
                         ELSE run.managed[n] = Unmanaged
    BY <1>1 DEF IdpInv, PatientInv, ClientsInv, Providing
  <2>2. \A n \in Names : run.managed[n].id # NoId <=> n \in Declared(idp.spec)
    BY <2>1 DEF Live, Ids, NoId, Unmanaged
  <2>3. QED
    BY <1>1, <2>2 DEF Noted, Wanted, Recorded, Declared
<1>5. QED
  BY <1>1, <1>2, <1>3, <1>4, ServeStep

LEMMA StepKeepsPromise ==
  ASSUME IdpInv, IdpInv', [Next]_vars
  PROVE  [Promise!Next]_Provided
<1>1. UNCHANGED patient
  BY PatienceStays
<1>2. CASE idp' = idp
  <2>1. idp'.phase = idp.phase /\ Wanted' = Wanted /\ Noted' = Noted
    BY <1>2 DEF Wanted, Noted, Declared, Recorded
  <2>2. CASE idp.phase = "absent"
    <3>1. GrantedClients = {} /\ GrantedClients' = {}
      BY <1>2, <2>2, AbsentFields DEF IdpInv, WorkInv
    <3>2. Provided \in Promise!Objects /\ Provided' \in Promise!Objects
      BY ProvidedType, ProvidedTypeNext DEF IdpInv, NamesInv
    <3>3. Provided' = Provided
      BY <1>1, <2>1, <3>1, <3>2, Fields, FieldsNext, SameObject
    <3>4. QED
      BY <3>3
  <2>3. CASE idp.phase # "absent"
    BY <1>1, <2>1, <2>3, ServeStep
  <2>4. QED
    BY <2>2, <2>3
<1>3. CASE idp' # idp
  <2>1. Users \/ PatchStatus \/ Release
    BY <1>3 DEF Next, Controller, Begin, Advance, EnsureRealm, DeleteRemovedClient,
       DeleteRemovedSecret, RemovalDone, GetClientByName, Register, UpdateClient,
       CreateOrUpdateSecret, PassOver, FinalizeClient, FinalizeSecret, DeleteRealm,
       Refuse, Fault, Fail, vars
  <2>2. QED
    BY <1>1, <1>3, <2>1, UsersKeepPromise, PatchKeepsPromise, ReleaseKeepsPromise
<1>4. QED
  BY <1>2, <1>3

LEMMA PromiseInit == Init => Promise!Init
<1> SUFFICES ASSUME Init PROVE Promise!Init
  OBVIOUS
<1>1. TypeOK /\ idp = Absent /\ idp.phase = "absent"
  BY InitTypeOK DEF Init, Absent
<1>2. Provided \in Promise!Objects
  BY <1>1, ProvidedType
<1>3. QED
  BY <1>1, <1>2, AbsentFields, Fields DEF Promise!Init

\* To patient users the controller of identity providers keeps the promise of
\* Provisioning, for all clients, secrets, specs and bounds: every step is one of
\* Provisioning or changes nothing there.
THEOREM IdpProvidesCorrect == Spec => IdpProvides
<1>1. IdpInv /\ IdpInv' /\ [Next]_vars => [Promise!Next]_Provided
  BY StepKeepsPromise
<1>2. QED
  BY <1>1, PromiseInit, IdpInvCorrect, PTL DEF Spec, IdpProvides, Promise!Spec
=============================================================================
