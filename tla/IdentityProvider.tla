-------------------------- MODULE IdentityProvider --------------------------
(***************************************************************************)
(* One IdentityProviderConfiguration: its controller keeps a Keycloak      *)
(* realm, the OIDC clients in it, and a secret for each client with the    *)
(* registration access token that Keycloak hands out when the client is    *)
(* registered and replaces whenever it is updated.                         *)
(*                                                                         *)
(* Every call that changes something is a step; users edit and delete the  *)
(* object in between.  Keycloak is external: it answers 404 for a client   *)
(* it does not have and 401 for a token that is not the current one.       *)
(***************************************************************************)
EXTENDS Integers, FiniteSets

CONSTANTS
  Names,        \* client names
  Secrets,      \* names of secrets
  NoSecret,
  Specs,        \* contents of spec.clients: the secretRef of each client
  MaxId,        \* bound: client ids Keycloak hands out
  MaxEdits,     \* bound: edits by users
  MaxFaults,    \* bound: calls that fail, processes that are lost
  Patience      \* whether users wait for the controller: the values to consider

NoId == 0
Ids  == 1 .. MaxId

\* No two clients of one spec share a secret.
ASSUME ConstantsAssumption ==
  /\ NoSecret \notin Secrets
  /\ Specs \subseteq [Names -> Secrets \cup {NoSecret}]
  /\ \A spec \in Specs : \A m, n \in Names :
        m # n /\ spec[m] = spec[n] => spec[m] = NoSecret
  /\ MaxId \in Nat /\ MaxEdits \in Nat /\ MaxFaults \in Nat
  /\ Patience \subseteq BOOLEAN

VARIABLES
  idp,      \* the object: phase, spec.clients, status.managedClients
  realm,    \* the realm exists
  kc,       \* clients registered in Keycloak, by client id
  secret,   \* the client a secret is of, and whether its token is the current one
  queued, run,
  patient,  \* users wait until the controller is done before they edit
  moved,    \* secrets a client of the spec was moved away from (only observed)
  edits, faults

user  == <<patient, moved>>
vars  == <<idp, realm, kc, secret, queued, run, user, edits, faults>>

----------------------------------------------------------------------------
NoClients == [n \in Names |-> NoSecret]
Unmanaged == [id |-> NoId, secret |-> NoSecret]
Managed   == [Names -> [id : Ids \cup {NoId}, secret : Secrets \cup {NoSecret}]]
NoManaged == [n \in Names |-> Unmanaged]
AllSpecs  == [Names -> Secrets \cup {NoSecret}]

PCs == {"idle", "realm", "removed", "unsecret", "next", "lookup", "register", "update",
        "secret", "finalize", "erase", "drop", "release"}

Idle == [pc |-> "idle", spec |-> NoClients, status |-> NoManaged, managed |-> NoManaged,
         todo |-> {}, at |-> NoSecret, id |-> NoId]

IdpObjects == [phase : {"absent", "live", "deleting"}, spec : AllSpecs, status : Managed]
KcClients  == [state : {"unused", "live", "gone"}, name : Names \cup {NoSecret}]
SecretData == [id : Ids \cup {NoId}, fresh : BOOLEAN]
Runs       == [pc : PCs, spec : AllSpecs, status : Managed, managed : Managed,
               todo : SUBSET Names, at : Names \cup {NoSecret}, id : Ids \cup {NoId}]

TypeOK ==
  /\ idp \in IdpObjects
  /\ realm \in BOOLEAN
  /\ kc \in [Ids -> KcClients]
  /\ secret \in [Secrets -> SecretData]
  /\ queued \in BOOLEAN
  /\ run \in Runs
  /\ patient \in BOOLEAN /\ moved \in SUBSET Secrets
  /\ edits \in 0 .. MaxEdits
  /\ faults \in 0 .. MaxFaults

Absent   == [phase |-> "absent", spec |-> NoClients, status |-> NoManaged]
NoData   == [id |-> NoId, fresh |-> FALSE]
Declared(spec) == {n \in Names : spec[n] # NoSecret}
Recorded(status) == {n \in Names : status[n].id # NoId}

Init ==
  /\ idp = Absent
  /\ realm = FALSE
  /\ kc = [i \in Ids |-> [state |-> "unused", name |-> NoSecret]]
  /\ secret = [s \in Secrets |-> NoData]
  /\ queued = FALSE /\ run = Idle
  /\ patient \in Patience /\ moved = {}
  /\ edits = 0 /\ faults = 0

----------------------------------------------------------------------------
(* Users.                                                                  *)

MayEdit ==
  /\ edits < MaxEdits /\ edits' = edits + 1
  /\ patient => ~ queued /\ run.pc = "idle"
  /\ UNCHANGED <<kc, realm, run, patient, faults>>

\* The webhook refuses the name of a realm that exists.
CreateIdp(spec) ==
  /\ MayEdit
  /\ idp.phase = "absent"
  /\ ~ realm
  /\ idp' = [Absent EXCEPT !.phase = "live", !.spec = spec]
  /\ queued' = TRUE
  /\ UNCHANGED <<secret, moved>>

EditIdp(spec) ==
  /\ MayEdit
  /\ idp.phase = "live" /\ idp.spec # spec
  /\ idp' = [idp EXCEPT !.spec = spec]
  /\ queued' = TRUE
  /\ moved' = moved \cup {idp.spec[n] : n \in {m \in Declared(idp.spec) \cap Declared(spec) :
                                                  idp.spec[m] # spec[m]}}
  /\ UNCHANGED secret

DeleteIdp ==
  /\ MayEdit
  /\ idp.phase = "live"
  /\ idp' = [idp EXCEPT !.phase = "deleting"]
  /\ queued' = TRUE
  /\ UNCHANGED <<secret, moved>>

\* Somebody deletes a secret by hand.
LoseSecret(s) ==
  /\ MayEdit
  /\ ~ patient
  /\ secret[s] # NoData
  /\ secret' = [secret EXCEPT ![s] = NoData]
  /\ UNCHANGED <<idp, queued, moved>>

----------------------------------------------------------------------------
(* Keycloak, seen through RetryTransport.                                  *)

Live(i) == i \in Ids /\ kc[i].state = "live"

\* The token in secret s is the one Keycloak expects for client i.
TokenAccepted(i, s) == s \in Secrets /\ secret[s] = [id |-> i, fresh |-> TRUE]

\* Mutant: the transport gives the 401 back.
NeverRefreshed(i) == i = NoId

\* On a 401 the transport asks for a new token, for which the client must be
\* among those of the realm, and repeats the call with it.
Refreshed(i) == Live(i)

Authorized(i, s) == TokenAccepted(i, s) \/ Refreshed(i)

\* Tokens of client i that are stored anywhere are out of date.
Rotated(i) ==
  [s \in Secrets |-> IF secret[s].id = i THEN [secret[s] EXCEPT !.fresh = FALSE]
                                         ELSE secret[s]]

Gone(i) == IF Live(i) THEN [kc EXCEPT ![i].state = "gone"] ELSE kc

----------------------------------------------------------------------------
(* The controller: Process.                                                *)

Begin ==
  /\ queued
  /\ run.pc = "idle"
  /\ queued' = FALSE
  /\ run' = CASE idp.phase = "live" ->
                   [Idle EXCEPT !.pc = "realm", !.spec = idp.spec, !.status = idp.status]
              [] idp.phase = "deleting" ->
                   [Idle EXCEPT !.pc = "finalize", !.spec = idp.spec,
                                !.status = idp.status, !.todo = Declared(idp.spec)]
              [] OTHER -> run
  /\ UNCHANGED <<idp, realm, kc, secret, user, edits, faults>>

Advance(next) ==
  /\ run' = next
  /\ UNCHANGED <<user, edits, faults>>

\* Mutant: every client is registered anew.
EnsureRealmAnew ==
  /\ run.pc = "realm"
  /\ Advance([run EXCEPT !.pc = "removed", !.todo = Recorded(run.status)])
  /\ realm' = TRUE
  /\ UNCHANGED <<idp, kc, secret, queued>>

EnsureRealm ==
  /\ run.pc = "realm"
  /\ Advance([run EXCEPT !.pc = "removed",
                          !.todo = Recorded(run.status) \ Declared(run.spec)])
  /\ realm' = TRUE
  /\ UNCHANGED <<idp, kc, secret, queued>>

\* Mutant: a client that left the spec is only forgotten.
ForgetRemovedClient(n) ==
  /\ run.pc = "removed"
  /\ n \in run.todo
  /\ Advance([run EXCEPT !.todo = @ \ {n}])
  /\ UNCHANGED <<idp, realm, kc, secret, queued>>

\* deleteRemovedClients, in the order of a Go map. A client whose secret does
\* not exist is taken for deleted; one that Keycloak does not know is.
DeleteRemovedClient(n) ==
  LET id == run.status[n].id
      s  == run.status[n].secret
  IN
  /\ run.pc = "removed"
  /\ n \in run.todo
  /\ IF secret[s] = NoData
     THEN Advance([run EXCEPT !.todo = @ \ {n}]) /\ UNCHANGED kc
     ELSE /\ Live(id) => Authorized(id, s)
          /\ Advance([run EXCEPT !.pc = "unsecret", !.at = n])
          /\ kc' = Gone(id)
  /\ UNCHANGED <<idp, realm, secret, queued>>

DeleteRemovedSecret ==
  LET s == run.status[run.at].secret IN
  /\ run.pc = "unsecret" /\ secret[s] # NoData
  /\ secret' = [secret EXCEPT ![s] = NoData]
  /\ Advance([run EXCEPT !.pc = "removed", !.todo = @ \ {run.at}, !.at = NoSecret])
  /\ UNCHANGED <<idp, realm, kc, queued>>

RemovalDone ==
  /\ run.pc = "removed"
  /\ run.todo = {}
  /\ Advance([run EXCEPT !.pc = "next", !.todo = Declared(run.spec)])
  /\ UNCHANGED <<idp, realm, kc, secret, queued>>

\* Mutant: a client is looked up in the status.
LookupInStatus(n) ==
  /\ run.pc = "next"
  /\ n \in run.todo
  /\ Advance([run EXCEPT !.at = n, !.id = run.status[n].id,
                      !.pc = IF run.status[n].id = NoId THEN "register" ELSE "update"])
  /\ UNCHANGED <<idp, realm, kc, secret, queued>>

\* GetClientByName: the first client of this name, if there is one.
GetClientByName(n) ==
  /\ run.pc = "next"
  /\ n \in run.todo
  /\ \/ /\ \A i \in Ids : ~ (Live(i) /\ kc[i].name = n)
        /\ Advance([run EXCEPT !.pc = "register", !.at = n])
     \/ \E i \in Ids :
           /\ Live(i) /\ kc[i].name = n
           /\ Advance([run EXCEPT !.pc = "update", !.at = n, !.id = i])
  /\ UNCHANGED <<idp, realm, kc, secret, queued>>

Register ==
  /\ run.pc = "register"
  /\ \E i \in Ids :
        /\ kc[i].state = "unused"
        /\ \A j \in Ids : j < i => kc[j].state # "unused"
        /\ kc' = [kc EXCEPT ![i] = [state |-> "live", name |-> run.at]]
        /\ Advance([run EXCEPT !.pc = "secret", !.id = i])
  /\ UNCHANGED <<idp, realm, secret, queued>>

\* The id in the status goes before the one that was just looked up.
UpdateTarget ==
  IF run.status[run.at].id # NoId THEN run.status[run.at].id ELSE run.id

UpdateClient ==
  /\ run.pc = "update"
  /\ Live(UpdateTarget)
  /\ Authorized(UpdateTarget, run.spec[run.at])
  /\ kc' = [kc EXCEPT ![UpdateTarget].name = run.at]
  /\ secret' = Rotated(UpdateTarget)
  /\ Advance([run EXCEPT !.pc = "secret", !.id = UpdateTarget])
  /\ UNCHANGED <<idp, realm, queued>>

\* Mutant: the secretRef is not recorded.
ClientDoneWithoutRef ==
  [run EXCEPT !.pc = "next", !.todo = @ \ {run.at}, !.at = NoSecret, !.id = NoId,
              !.managed[run.at] = [id |-> run.id]]

\* What the reconcile knows of a client once its secret is written.
ClientDone ==
  [run EXCEPT !.pc = "next", !.todo = @ \ {run.at}, !.at = NoSecret, !.id = NoId,
              !.managed[run.at] = [id |-> run.id, secret |-> run.spec[run.at]]]

CreateOrUpdateSecret ==
  /\ run.pc = "secret"
  /\ secret' = [secret EXCEPT ![run.spec[run.at]] = [id |-> run.id, fresh |-> TRUE]]
  /\ Advance(ClientDone)
  /\ UNCHANGED <<idp, realm, kc, queued>>

\* The watch sees the change of the status and enqueues the object again.
PatchStatus ==
  /\ run.pc = "next" /\ run.todo = {}
  /\ idp' = [idp EXCEPT !.status = run.managed]
  /\ queued' = (queued \/ idp' # idp)
  /\ Advance(Idle)
  /\ UNCHANGED <<realm, kc, secret>>

----------------------------------------------------------------------------
(* The controller: Finalize.                                               *)

\* A client without a secret, or without an id in the status, is passed over.
PassOver(n) ==
  /\ run.pc = "finalize"
  /\ n \in run.todo
  /\ secret[run.spec[n]] = NoData \/ run.status[n].id = NoId
  /\ Advance([run EXCEPT !.todo = @ \ {n}])
  /\ UNCHANGED <<idp, realm, kc, secret, queued>>

\* Mutant: a client that Keycloak does not know stops the deletion.
FinalizeLiveClient(n) ==
  LET id == run.status[n].id IN
  /\ run.pc = "finalize"
  /\ n \in run.todo /\ secret[run.spec[n]] # NoData /\ Live(id)
  /\ Authorized(id, run.spec[n])
  /\ kc' = Gone(id)
  /\ Advance([run EXCEPT !.pc = "erase", !.at = n])
  /\ UNCHANGED <<idp, realm, secret, queued>>

FinalizeClient(n) ==
  LET id == run.status[n].id IN
  /\ run.pc = "finalize"
  /\ n \in run.todo /\ secret[run.spec[n]] # NoData /\ id # NoId
  /\ Live(id) => Authorized(id, run.spec[n])
  /\ kc' = Gone(id)
  /\ Advance([run EXCEPT !.pc = "erase", !.at = n])
  /\ UNCHANGED <<idp, realm, secret, queued>>

\* Mutant: the secret is kept.
KeepSecret ==
  /\ run.pc = "erase"
  /\ Advance([run EXCEPT !.pc = "finalize", !.todo = @ \ {run.at}, !.at = NoSecret])
  /\ UNCHANGED <<idp, realm, kc, secret, queued>>

FinalizeSecret ==
  LET s == run.spec[run.at] IN
  /\ run.pc = "erase" /\ secret[s] # NoData
  /\ secret' = [secret EXCEPT ![s] = NoData]
  /\ Advance([run EXCEPT !.pc = "finalize", !.todo = @ \ {run.at}, !.at = NoSecret])
  /\ UNCHANGED <<idp, realm, kc, queued>>

\* A realm goes with its clients.
DeleteRealm ==
  /\ run.pc = "finalize"
  /\ run.todo = {}
  /\ realm' = FALSE
  /\ kc' = [i \in Ids |-> IF Live(i) THEN [kc[i] EXCEPT !.state = "gone"] ELSE kc[i]]
  /\ Advance([run EXCEPT !.pc = "release"])
  /\ UNCHANGED <<idp, secret, queued>>

Release ==
  /\ run.pc = "release"
  /\ Advance(Idle)
  /\ idp' = Absent
  /\ UNCHANGED <<realm, kc, secret, queued>>

----------------------------------------------------------------------------
Fail ==
  /\ run' = Idle
  /\ queued' = TRUE
  /\ UNCHANGED <<idp, realm, kc, secret, user, edits>>

\* The client to update is not known to Keycloak; the secret is gone before it
\* could be deleted.
Refuse ==
  /\ \/ run.pc = "update" /\ ~ (Live(UpdateTarget) /\ Authorized(UpdateTarget, run.spec[run.at]))
     \/ run.pc = "unsecret" /\ secret[run.status[run.at].secret] = NoData
     \/ run.pc = "erase" /\ secret[run.spec[run.at]] = NoData
  /\ UNCHANGED faults
  /\ Fail

Fault ==
  /\ run.pc # "idle"
  /\ faults < MaxFaults /\ faults' = faults + 1
  /\ Fail

Controller ==
  \/ Begin \/ EnsureRealm \/ DeleteRemovedSecret \/ RemovalDone \/ Register
  \/ UpdateClient \/ CreateOrUpdateSecret \/ PatchStatus
  \/ FinalizeSecret \/ DeleteRealm \/ Release \/ Refuse
  \/ \E n \in Names : \/ DeleteRemovedClient(n) \/ GetClientByName(n)
                      \/ PassOver(n) \/ FinalizeClient(n)

Users ==
  \/ \E spec \in Specs : CreateIdp(spec) \/ EditIdp(spec)
  \/ DeleteIdp
  \/ \E s \in Secrets : LoseSecret(s)

Next == Users \/ Controller \/ Fault

Spec == Init /\ [][Next]_vars

\* The worker of the queue runs.
FairSpec == Spec /\ WF_vars(Controller)

----------------------------------------------------------------------------
(* Properties.                                                             *)

\* The realm never holds two clients of one name: a client whose registration
\* was not recorded is found by its name and adopted (registerOrUpdateClient).
NoDuplicateClient ==
  \A i, j \in Ids : Live(i) /\ Live(j) /\ kc[i].name = kc[j].name => i = j

\* If users wait for the controller, a client in the realm is one of the spec or
\* one that the status names, so that it is deleted when it leaves the spec
\* (deleteRemovedClients).
NoOrphanedClient ==
  patient => \A i \in Ids : Live(i) =>
                \/ kc[i].name \in Declared(idp.spec)
                \/ \E n \in Names : idp.status[n].id = i

\* If users wait for the controller, a secret with credentials is named by the
\* spec or the status, hence gone with the object; but for a secret that a
\* client of the spec was moved away from, which the code forgets.
NoLeakedSecret ==
  patient => \A s \in Secrets : secret[s] # NoData =>
                s \in moved \/ \E n \in Names : s \in {idp.spec[n], idp.status[n].secret}

\* Once patient users stop, the realm holds the clients of the spec and no
\* other, the status has their ids and no other, and each secret has a token that
\* Keycloak accepts, whatever was lost on the way.
ClientsConverge ==
  patient => <>[](idp.phase = "live" =>
    /\ Recorded(idp.status) = Declared(idp.spec)
    /\ \A n \in Names :
          idp.spec[n] # NoSecret => /\ Live(idp.status[n].id)
                                    /\ TokenAccepted(idp.status[n].id, idp.spec[n])
    /\ \A i \in Ids : Live(i) => \E n \in Declared(idp.spec) : idp.status[n].id = i)

\* The deletion of an IdentityProviderConfiguration completes, with clients
\* that are gone already, tokens that are out of date and secrets that were
\* deleted by somebody else.
IdpDeletionCompletes == idp.phase = "deleting" ~> idp.phase = "absent"

\* "Client exists, update it" (internal/subroutine/idp/subroutine.go): the
\* client that is updated exists.
ClientToUpdateExists == run.pc = "update" => Live(UpdateTarget)
=============================================================================
