# Formal models of the Platform Mesh security operator

TLA+ specifications of the controllers in this repository, TLC configurations that check them on
small instances, and TLAPS proofs that hold for every instance. File and line references are
relative to the root of the repository.

To check a model: `tlc -config MCStore.cfg MCStoreReconciler` (and likewise for the other
configurations below); to check the proofs of a module: `tlapm StoreReconciler_proofs.tla`.

## 1. The system

The operator keeps three outside systems in step with objects in kcp (a Kubernetes API server with
many workspaces): OpenFGA (stores, authorization models, relationship tuples), Keycloak (realms,
OIDC clients, users) and kcp itself (workspace initializers and terminators). It is a set of
controllers. Each has a work queue; a reconcile reads one object, runs a chain of *subroutines* over
it, and writes the status back. A failed reconcile is queued again. Nothing is shared between
reconciles but the store-id cache; everything else goes through the API server, OpenFGA and
Keycloak, call by call, and any call can fail.

| Component | Source | State it keeps | Operations | Talks to |
|---|---|---|---|---|
| Store controller | `internal/controller/store_controller.go`, `internal/subroutine/{store,authorization_model,tuples}.go` | `Store` spec and status (`storeId`, `authorizationModelId`, `managedTuples`), two finalizers | find or create the store, merge and write the authorization model, apply and prune tuples; delete tuples, refuse or delete the store | OpenFGA; watches AuthorizationModels |
| AuthorizationModel controller | `internal/controller/authorization_model_controller.go`, `internal/subroutine/tuples.go` | `status.managedTuples`, one finalizer | apply, prune, delete tuples | reads the Store's status; OpenFGA |
| TupleManager | `internal/fga/tuple_manager.go` | none | Apply, Delete (one transaction each, idempotent), list | OpenFGA |
| APIBinding controller | `internal/controller/apibinding_controller.go`, `internal/subroutine/authorization_model_generation.go` | a finalizer on the binding | create or update one AuthorizationModel per schema and organization; delete them with the last binding | AccountInfo, APIExport, AuthorizationModels of other workspaces |
| AccountInfo controller | `internal/controller/accountinfo_controller.go`, `internal/subroutine/accountinfo_finalizer.go` | a finalizer on the AccountInfo | let go when no binding carries its finalizer | APIBindings of the workspace |
| Store id cache | `internal/fga/storeid_getter.go` | cache name → id, the last load error | Get, Load | OpenFGA; called by the two below from many goroutines |
| APIExportPolicy controller | `internal/controller/apiexportpolicy_controller.go`, `internal/subroutine/apiexportpolicy.go` | `status.managedAllowExpressions`, a finalizer | delete tuples of dropped expressions, write those of the spec | AccountInfos, store id cache, OpenFGA; watches Accounts |
| Account initializer / terminator | `internal/subroutine/account_tuples.go`, `internal/fga/tuples.go`, `internal/controller/accountlogicalcluster_controller.go` | none | write the tuples of an account (initializer, and again the operator), list and delete them (terminator, and the initializer of a workspace that never got ready) | the Account in the parent workspace, store id cache, OpenFGA |
| Organization initializer | `internal/subroutine/{workspace_initializer,idp,invite,workspace_authorization}.go` | two rate limiters | create Store, IdentityProviderConfiguration, Invite, authentication configuration; wait for each | Store controller, IDP controller, Invite controller |
| IdentityProviderConfiguration controller | `internal/subroutine/idp/subroutine.go`, `pkg/clientreg` | `status.managedClients`, secrets with registration tokens, a finalizer | realm, clients and secrets: create, update, delete | Keycloak through a transport that refreshes the token on 401 |
| Invite controller | `internal/subroutine/invite/subroutine.go` | a rate limiter | create a user, send the e-mail | Keycloak |
| Admission webhook | `internal/webhook` | none | refuse realms that exist or are reserved | Keycloak |
| Group name capping | `internal/util/util.go` and `authorization_model_generation.go:258` | none | cut a group to the length OpenFGA allows | |
| Processes | `cmd/` | none | wiring: operator, system, initializer, terminator, model generator | |

What makes the parts hard, and what correctness means for each:

* *Store and AuthorizationModel controllers.* Two controllers write one OpenFGA store through ids
  kept in a status that is written at the end of a chain. Correct: no second store, nothing in the
  status that does not exist, no tuple and no store left behind, no store deleted under an
  AuthorizationModel, convergence, deletions that complete.
* *APIBinding and AccountInfo controllers.* Reconciles of different workspaces count each other's
  bindings and create and delete shared models. Correct: models exist while a binding needs them and
  no longer; the AccountInfo, which every finalizer reads, goes last.
* *Store id cache.* Concurrent paged loads into one map. Correct: ids belong to names, "not found"
  is true, an error is the caller's own.
* *APIExportPolicy controller.* Derived tuples, recorded after they were written. Correct: no bind
  permission without an expression for it, convergence also for later organizations, deletion.
* *IdentityProviderConfiguration controller.* Registering a client is not idempotent, its token is handed out
  once and replaced with every update, and what was registered is recorded at the end. Correct: no client twice, no client and no
  secret left behind, a token that works for every client, deletions that complete.
* *Account initializer, operator and terminator.* Three processes work on one workspace and know nothing of
  each other; tuples are keyed by the account's name, which can be used again. Correct: a ready account is owned, a deleted
  one leaves nothing that a later one of its name would inherit, no account takes another's tuples, all settle.
* *Invite controller.* Two calls to Keycloak, neither idempotent, and a lookup that takes the outcome of the
  first for that of both. Correct: whoever is taken for invited got the e-mail.
* *Organization initializer.* A chain of four subroutines, repeated by two processes, that writes objects of other controllers and
  draws conclusions from their statuses and from caches. Correct: an organization that is no longer initializing is usable, it
  gets there, and what users change meanwhile is respected.
* *Group name capping.* The same computation twice, with a slice that can be out of range. Correct: both agree.

`PROJECT.json` lists the hazards line by line.

## 2. Modules

`X` is the specification, `MCX` an instance for TLC, `X_proofs` the theorems. Operators whose comment
says *Mutant* are faulty versions of the definition that follows them; no specification uses them.
They show that a property can fail: with the faulty version in its place TLC finds it violated.

Conventions shared by all modules:

* A call to OpenFGA, the API server or the cache is one step, and so is the final write of the
  status. Other controllers, users and the watches run between any two steps.
* What an object held when the reconcile began is a copy in `run` (`mrun`, `call`), with a program
  counter `pc` named after the next call.
* `Fault` ends a reconcile at any point: a call that failed, a write that was refused, a process that
  was lost. *Refused* is the code's own error return. Both put the object back in its queue.
* The lifecycle library (`github.com/platform-mesh/subroutines`) is external. It is modelled from how
  the code uses it: finalizers are added before the first subroutine runs; subroutines run in order
  and an error stops the chain; the status is written at the end, also after an error, and that write
  may be lost (both outcomes are possible after every error); under deletion the finalizing
  subroutines run in reverse order, the finalizer of each removed as it is done; one object is never
  reconciled twice at the same time.
* `MaxEdits`, `MaxFaults`, `MaxBinds`, `MaxStoreId`, `MaxId`, `PageSize`, `Workers` are the bounds. All but the last two bound
  what users do, what fails and which ids are handed out; nothing in the code depends on them.
* `patient` says that users wait until the controllers have caught up before they edit, bind or
  delete. It separates what the code promises to everybody from what it promises to patient users. It is chosen at the start
  and stays, so that one run has both kinds of users.

### StoreReconciler

One `Store`, the AuthorizationModels that refer to it, OpenFGA.

| TLA+ | Code |
|---|---|
| `store`, `model` | spec, status, deletion timestamp and finalizers of the objects |
| `seen` | the informer cache behind `getRelatedAuthorizationModels`; `DeliverModelEvent` updates it and enqueues the Store (the watch in `store_controller.go`) |
| `fga` | stores by id: state, whether the name is this Store's, tuples, models written |
| `FindStoreByName`, `CreateFgaStore`, `CheckStoreName`, `UpdateStoreName` | `storeSubroutine.Process` |
| `ListRelatedModels`, `WriteModelIfChanged` | `authorizationModelSubroutine.Process` |
| `ApplyStoreTuples`, `PruneStoreTuples`, `PersistStoreStatus` | `tupleSubroutine.Process`, end of the reconcile |
| `FinalizeStoreTuples`, `ReleaseTuplesFinalizer`, `CheckRelatedModels`, `DeleteFgaStore`, `RemoveStoreObject` | the finalizers, last subroutine first |
| `GetStoreOfModel`, `ApplyModelTuples`, `PruneModelTuples`, `PersistModelStatus`, `FinalizeModelTuples`, `RemoveModelObject` | the reconcile of an AuthorizationModel |

An authorization model in OpenFGA is represented by what was merged into it: the core module's
version and the content of each AuthorizationModel. That is all the code compares. Parsing, templates
and discovery are left out. With `Patience = {TRUE, FALSE}` both kinds of users are considered; the bounds on edits and faults are functions of
`patient`, so that impatient users meet one more fault and make one edit less.

### Provisioning, StoreReconciler_refines, IdentityProvider_refines

`Provisioning` is what the Store and the IdentityProviderConfiguration controller promise to whoever creates their
object and watches its status. It has one variable: the phase of the object, the things the spec asks for (`wanted`), those the
status records (`recorded`), those the outside system has (`granted`), and `bound`: whether its users have waited so far, without
which nothing is promised. `Ask` and `Delete` are the users', `Serve` is any step of the controller: it does not take away or forget what is
both wanted and recorded, and records or grants nothing that was not asked for. `Progress` is the liveness half.

| | Things | `wanted` | `recorded` | `granted` |
|---|---|---|---|---|
| `StoreReconciler_refines` | relationship tuples | `spec.tuples` | `status.managedTuples` | the Store's tuples in the OpenFGA store that `status.storeId` names |
| `IdentityProvider_refines` | OIDC clients | the names in `spec.clients` | those with an id in `status.managedClients` | the clients Keycloak has under that name and that id |

`StoreProvides` and `IdpProvides` say that the detailed modules implement it; `StoreSettles` is `Progress` of the Store, and `ClientsConverge` contains that of the identity provider.

### ModelGeneration

APIBindings in several workspaces and organizations, the AuthorizationModels generated for them, and
the AccountInfo of each workspace. `run[b]` is the reconcile of binding `b`, at most `Workers` at a time
(`MaxConcurrentReconciles`). `ReadForProcess` and `WriteModel` are `Process`; `ListBindings`,
`CountBindings`, `DeleteModel` and `Release` are `Finalize` and the removal of the finalizer;
`CheckBindings` and `ReleaseAccountInfo` are the AccountInfo finalizer and the removal of its own.
`Exempt` bindings get no finalizer because of their own name, `Internal` exports generate nothing because
of theirs: the code looks at different names in the two places, and so does the model. A model under
deletion is left alone by `CreateOrUpdate` (its spec is already equal) and goes in `ModelGone`, which stands
for the AuthorizationModel controller of the module above. Bindings are listed as they are: the lag
of the cache behind the lister is not modelled. `crossed` observes the models that a finalizer
kept although it had counted, besides its own binding, only bindings under deletion: the race of `models_leak`.
`DeletionsComplete` is stated for each workspace: a workspace whose bindings and AccountInfo are deleted is emptied, whatever the others do.
`OnlyCrossingLeaks` says that no other order of steps leaves a model behind. With users who unbind what was
not reconciled yet, who bind again what is being deleted, or who delete a workspace before its bindings have their finalizer, the
properties that begin with `patient` fail; `ModelsFallWithTheirBindings` holds for them too. The bound on faults depends on
`patient`, to keep the second half of the run small.

### StoreIDCache

`call[c]` is one call of `Get` by goroutine `c`: the continuation token, the rest of the page received, the
item found so far. `Begin` is the lookup, `ListStores` one page, `SetItem` one store of the page put into
the cache, `Return` the tail of `Get`, which reads the shared `loadErrer` and the item it shares with the
cache. Stores are created and deleted at any time, entries expire at any time. `existed`, `failed` and
`answer` only observe. Stores are not renamed in this module.

### ExportPolicy

One policy. An expression is a path and whether it ends in `:*`; `Stand` says for which accounts it
stands, which differs between writing and deleting for `root:orgs:*`, as in the code. `Begin`, `TakeExpression`,
`DeleteTuple`, `ApplyTuple`, `NextStage` and `PatchStatus` are `Process`; the same with `pc = "finalize"` and
`Release` are `Finalize`. `OrgReady` is the Account watch, which looks for `root:orgs:*` only. The store id cache answers with the store that exists or
with an error; the cluster of the provider is always found. Users who do not wait may name what does not exist, edit and delete in the middle of a reconcile,
and take away organizations that the policy names; `lost` observes the last.

### IdentityProvider

One IdentityProviderConfiguration and its realm. `kc` has the clients Keycloak handed an id out for; `secret[s]`
is the client whose credentials are in secret `s` and whether its registration access token is the current one.
A spec is a function from client names to the secrets they refer to, so that a client can be added, dropped,
renamed with its secret, or moved to another secret.

| TLA+ | Code |
|---|---|
| `CreateIdp` | a user, past `ValidateCreate` of the webhook |
| `EnsureRealm` | `ensureRealm`, `CreateOrUpdateRealm` |
| `DeleteRemovedClient`, `DeleteRemovedSecret`, `RemovalDone` | `deleteRemovedClients` |
| `GetClientByName`, `Register`, `UpdateClient` | `registerOrUpdateClient` |
| `Authorized`, `Refreshed` | `RetryTransport.RoundTrip`, `RefreshToken` |
| `CreateOrUpdateSecret`, `PatchStatus` | `createOrUpdateSecret`, end of `Process` |
| `PassOver`, `FinalizeClient`, `FinalizeSecret`, `DeleteRealm`, `Release` | `Finalize` |

Reading a token and the call that uses it are one step: if a secret is deleted in between, the call still has
the token, as if the secret had been deleted after it. Keycloak is taken to answer 404 for a client it does not have (the code
treats exactly this answer as "deleted"), and to replace the token with every update. `patient`
is chosen at the start: users who wait until the controller is done, or users who edit at any time and delete
secrets by hand.

### AccountTuples

The accounts of one organization, over the lives of their workspaces, and the tuples about them in the
organization's store. `lc[i]` is the `i`-th LogicalCluster: its phase, its account, the creator its Account names, and whether it still has
the initializer. `run[p, i]` is the reconcile of process `p` on it, for `p` the initializer, the operator and the
terminator: the three are different programs (`cmd/`), each with its own queue, and may be at work on one
LogicalCluster at once.

| TLA+ | Code |
|---|---|
| `Begin` | which method the lifecycle calls: `Initialize` (initializer), `Process` (operator), `Terminate` |
| `ReadAccount`, `Refuse`, `Apply` | `reconcile`, with `AccountForLogicalCluster` and `InitialTuplesForAccount` |
| `RemoveInitializer`, `RemoveTerminator` | what the lifecycle does after `Initialize` and `Terminate` succeeded |
| `ListAccount`, `ListRole`, `Delete` | `Terminate`, with `ListWithKey` and `TuplesForAccount` |
| `CreateAccount`, `DeleteAccount`, `Share` | users, kcp, and the services that give a user a role in an account |

The Account is read in the parent workspace by name, hence `Creators`: the account at work may be the one of a later
workspace. Two facts carry the properties: one transaction deletes all that was listed, so that a lost reconcile leaves
either everything or nothing; and only the roles of the account itself are followed, not the parent, which has
a relation to the account too.

`NothingInherited` and `ReadyAccountsAreOwned` are about patient users. For others they do not hold: the operator
can apply the initial tuples after the terminator has listed what to delete, and an account created again
under that name then has two owners. The type invariant, the first part of `TuplesFallWithTheirAccount` and
`AccountsSettle` are about all users.

### Invite and Organization

`Organization` is the logical cluster of one new organization. It composes three things: the chain of four subroutines
(`run`), call by call, in the process that has the cluster (`Process`: the initializer while its mark is on, then the operator); the Store
and the IdentityProviderConfiguration, of which it knows no more than `Provisioning` (`StoreOf`, `IdpOf`); and the reconcile of the
Invite, which is the module `Invite` (`Inviter`), over the AccountInfo and the clients of this one.

| TLA+ | Code |
|---|---|
| `Begin`, `ReadAccount` | the lifecycle; Account and AccountInfo in `workspace_initializer.go` and `idp.go` |
| `WriteStore` | `workspaceInitializer.reconcile`: the Store, then its status |
| `ReadIdp`, `PatchIdp`, `WaitForIdp`, `PatchAccountInfo` | `IDPSubroutine.reconcile` with `ensureClient`: the read and the patch of `CreateOrPatch` are two steps |
| `WriteInvite`, `WaitForInvite` | `inviteSubroutine.reconcile` |
| `WriteAuthConfig`, `PatchType`, `TypesPatched` | `workspaceAuthSubroutine.reconcile`, `patchWorkspaceTypes` |
| `Finish` | the lifecycle takes the initializer off |
| `Deliver` | the AccountInfo gets into a process's cache |
| `Restart` | both processes restart, with other redirect URLs in their configuration |
| `BeginInvite`, `QueryUsers`, `VerifyClient`, `CreateUser`, `SendMail`, `PersistInvite` | `Process` of the Invite |

`crossed` and `abandoned` observe two weaknesses of the code, and the properties exempt them by name. `CreateOrPatch` sends the
list of clients as a whole and no resource version, so a client that a user adds between its read and its patch is lost
(`crossed`, `internal/subroutine/idp.go:129`); no later step brings it back, and none other loses one. And a reconcile of the Invite that fails
after the user was created finds the user when it is retried and never sends the e-mail (`abandoned`,
`internal/subroutine/invite/subroutine.go:146`). A Ready condition can be older than the spec it is read with, an
AccountInfo older than the patch that was just sent: `WaitForIdp` compares the status with the spec, and the guard in `WriteAuthConfig`
only asks for some client. That this suffices is `ReadyOrganizationIsUsable`.

### CapGroup

`CapGroupToRelationLength` (`internal/util/util.go`, used for discovered resources) and the copy in
`authorization_model_generation.go`, as functions on sequences of letters. `CapsAgreeAndFit` is evaluated on small names with every
run of `models` and proved for all. If the plural has more than 42 letters the slice is out of range and the code panics; the
definitions say so (`InRange`). Two groups that end alike can get one name; nothing in the code excludes it.

## 3. Runs

| Run | Instance | Shows |
|---|---|---|
| `store` | 1 model, 1 tuple each; patient users with 4 edits and 1 fault, others with 3 and 2 | `NoDuplicateStore`, `StatusNamesWhatExists`, `NoUntrackedTuple`, `NoOrphanedStore`, `DeletionDeniedWhileReferenced`, `LiveStoreConverges`, `StoreDeletionsComplete`, `StoreProvides`, `StoreSettles` |
| `store_untracked` | users who do not wait, 1 fault | *violated:* `NoTupleLeftBehind` |
| `store_paged` | a page of one store, one foreign store | *violated:* `NoDuplicateStore` |
| `models` | 4 bindings, 2 schemas, 2 organizations, 2 workers, patient users and 1 fault, others and none | `OnlyCrossingLeaks`, `BoundModelsExist`, `AccountInfoOutlivesBindings`, `ModelsFallWithTheirBindings`, `DeletionsComplete` |
| `models_leak` | 2 workers, no fault, patient users | *violated:* `NoLeakedModel` |
| `store_id_cache` | 2 callers, 2 names, 3 stores, pages of 2, symmetry | `IdsBelongToNames`, `NotFoundIsTrue` |
| `store_id_sticky` | pages of 1, 1 failing listing | *violated:* `ErrorIsOwn` |
| `export_policy` | 3 accounts, 2 organizations, 6 specs, 1 fault; patient users with 5 edits, others with 4 | `NoUnfoundedGrant`, `GrantsConverge`, `PolicyDeletionCompletes` |
| `idp` | 2 clients, 2 secrets, 4 specs, 4 edits, 2 faults, patient users and others | `NoDuplicateClient`, `NoOrphanedClient`, `NoLeakedSecret`, `ClientsConverge`, `IdpDeletionCompletes`, `IdpProvides` |
| `idp_stale_id` | 2 specs, 3 edits, 2 faults, users who do not wait | *violated:* `ClientToUpdateExists` |
| `account_tuples` | 2 accounts, 2 workspaces, 1 user, 2 roles, 1 share, 1 fault, patient users and others | `NothingInherited`, `ReadyAccountsAreOwned`, `TuplesFallWithTheirAccount`, `AccountsSettle` |
| `organization` | 2 tuples, 1 client of the organization and 1 of users, 2 types, 2 edits, 1 fault | `ReadyOrganizationIsUsable`, `UserClientsRespected`, `InviteReachesCreator`, `OrganizationsBecomeReady` |

One passing run of each module also checks its type invariant. Deadlock is not checked anywhere: once
the edits are used up and the queues are empty, the system rests.

Why the bounds are enough to be interesting. *Store:* four edits are create the Store, create the
AuthorizationModel, and edit or delete both; a fault falls between any two calls of any of these
reconciles. Ids do not run out: four are enough for the foreign store and one store per
re-creation. *Bindings:* two bindings are in one workspace, one in another organization, one is exempt;
two binds, every unbind, workspace deletion and two schemas reach every mix of "last", "not last" and "half
deleted"; two workers are enough for two finalizers to cross. *Cache:* three stores are two pages, and a store deleted while the second page is fetched; two
callers load at once. *Policy:* the specs overlap (`root:orgs:*` and `org1:*` stand for one tuple), name a nested
account, and contain an expression that does not parse; five edits reach create, edit, two organizations
and delete.
 *Identity provider:* the specs add and drop a client, rename one that keeps its secret and move one to another
secret; two faults lose two reconciles in a row, for instance one behind a deletion and one behind a registration. Six ids are one
more than the clients four edits and two faults can register. *Accounts:* two workspaces are an account next to another one, or an
account and its next life; one user is enough, as a tuple that is left when its account is gone violates `NothingInherited`
whoever it is for; a fault falls between any two calls of any of the three processes. *Organization:* two tuples are a status that has
one of them and lacks the other; two edits are a client added and taken away, or one of them and a restart; the one fault is a
reconcile of the cluster or of the Invite that stops anywhere, or a Ready condition that becomes false. What the identity provider reports
once its users have not waited is counted as a fault, since otherwise it could report for ever. More than one client of the organization
(the code has a second one for the command line, which goes the same way) adds states and no case.

What the violated runs say of the code:

* `store_untracked` — a tuple is applied, the reconcile fails or its status write is lost, the user drops
  the tuple before the retry: nothing knows of it any more (`internal/subroutine/tuples.go:135`).
* `store_paged` — the store is looked up in the first page of `ListStores` only (`internal/subroutine/store.go:76`); after
  a crash behind `CreateStore` it is created again.
* `models_leak` — two bindings finalized at once each count the other as the one that stays
  (`internal/subroutine/authorization_model_generation.go:157`).
* `store_id_sticky` — the load error is never reset (`internal/fga/storeid_getter.go:94`), and comes before the cached
  item.
* `idp_stale_id` — a client that was deleted by a reconcile that failed, added to the spec again and registered by another
  that failed, is from then on updated under the id in the status, which Keycloak does not know
  (`internal/subroutine/idp/subroutine.go:307`). The reconcile fails on every retry, until the object is deleted.

Properties of IdentityProvider that begin with `patient` fail without it, for the reason of `store_untracked`: a client registered by a
reconcile that failed and dropped before the retry stays in the realm. And a secret that a client of the spec is moved
away from is never deleted, even if users wait (`moved` in `NoLeakedSecret`).

`ExportPolicy` has the same weakness as the tuples of a Store: without `patient`, `NoUnfoundedGrant` is violated
when a reconcile that wrote tuples fails and the expression is dropped, or the policy deleted, before the
retry. What the expressions of the spec stand for is granted to everybody in the end (`GrantsConverge`), unless an expression of the spec or of the status cannot
be carried out: it fails the reconcile, and the finalizer for ever (`PolicyDeletionCompletes` says so). An organization that is named, deleted and
created again gets no tuple until something else changes, since the watch enqueues policies with `root:orgs:*` only.

## 4. Fairness

Liveness is checked under `FairSpec` only. Weak fairness of `StoreWorker`, `ModelWorker`, `Controller` (twice) and `Step` says
that a controller with work does some: the queue hands out every item and a reconcile that has begun
goes on; failed items are requeued with a back-off, which is finite. `DeliverModelEvent`: an informer delivers every change. In
ModelGeneration a binding may find all workers busy again and again, so `Begin` is strongly fair: the
queue is first in, first out. The AccountInfo finalizer asks to be run again after five seconds, hence
fairness of `CheckBindings`. A workspace under deletion deletes what is in it: fairness of `Unbind` once the
AccountInfo is under deletion. In AccountTuples `Begin` and `Step` are fair for each process and each LogicalCluster: each program
has its own queue, and one LogicalCluster does not wait for another. In Organization `Reconcile` and `InviteStep` are controllers as
above and `Deliver` is the watch; that the Store and the IdentityProviderConfiguration get served (`ServeStore`, `ServeIdp`) is what `StoreSettles` and `ClientsConverge`
show of the detailed modules. Users owe nothing, and faults are bounded: an operator whose calls fail for
ever promises nothing.

## 5. Proofs

All theorems hold for every value of the constants that satisfies the assumptions in the module.

**StoreReconciler_proofs.** `TypeCorrect`: the type invariant is inductive. `StatusNamesCorrect`
(`StatusNamesWhatExists`) needs two more layers. `ChainInv` relates the copy in the reconcile to the object: a
reconcile behind the first subroutine has a store id; it is the object's if the object has one; no model id without a store id; the
finalizing program counters occur only for an object under deletion. `NamesInv` then says of both copies that
what they name exists. It is inductive because only `DeleteFgaStore` takes a store away, and it runs for an object under
deletion whose reconcile is the only one. `NoDuplicateCorrect` (`NoDuplicateStore`) assumes `MaxStoreId <= PageSize`, that is, that
one page holds all stores; without it the property is false (`store_paged`). `OwnInv` says that the store named
by either copy is the only one of this name, and that behind an empty lookup there is none.

**StoreReconciler_refines_proofs.** `StoreProvidesCorrect`: `Spec => StoreProvides`, the refinement, and `NoOrphanedStoreCorrect`
(`NoOrphanedStore`), both with `MaxStoreId <= PageSize` for the reason above. Four invariants are added to those on ids. `OwnersInv`: before there is
a store nothing is managed, a finalizer manages no more than the object says, and the AuthorizationModels deal in their own tuples only (this is where
`TuplesAreDisjoint` is used). `ForwardInv`, of patient users: a reconcile has the tuples of the spec as it is, and manages what the object says until all
are applied, then those. `KeptInv`: what spec and status agree on is in the store the status names. `FreshInv`: a store that the status does not name yet
holds tuples of the spec only, and is gone before the object is; here the lookup by name is needed, hence the page. Then each step is matched: edits with `Ask` and
`Delete` (a patient edit finds the status up to date), `RemoveStoreObject` with `Vanish`, every other step of the
controller with `Serve`, and steps of the AuthorizationModels with a stutter.

The second half of the module is about all tuples, those of the AuthorizationModels too: `NoUntrackedTupleCorrect` (`NoUntrackedTuple`), with
`MaxStoreId <= PageSize`, and `DeletionDeniedCorrect` (`DeletionDeniedWhileReferenced`), with no such condition. `CopyInv`, of an AuthorizationModel's
reconcile, says that its copy is as good as the object, and that an object is deleted only after its status has caught up. `ReferredInv` says why the
stale cache does no harm: a Store of patient users is deleted only when the watch has delivered every AuthorizationModel there is, so its
finalizer sees more than there is and never less, and goes no further while it sees one; hence the store id that an AuthorizationModel was given stays the
right one. The action property is this invariant read at the step `DeleteFgaStore`. `HomeInv` says that tuples are in one store only: the one the
status names or, before it names one, the one of the Store's name. `TrackInv` then follows the tuples of each owner: they are in its
spec or its `managedTuples`, and once the stale ones are pruned the spec has them all. What is deleted has to be known at every point where
a reconcile may end, which is why the two sets are united and neither alone is enough.

**Organization_proofs.** `OrganizationTypeCorrect` and `ReadyOrganizationCorrect` (`ReadyOrganizationIsUsable`), for any tuples, clients, types and bounds. The
invariant has one part for each thing the chain provides, of the form "behind this point of the chain, or once the mark is off, it is there": `StoreInv` (the
Store asks for the creator's tuples and its status had them), `IdpInv`, `InfoInv` (an AccountInfo that has clients, and every cached one,
has those of the organization), `AuthInv` and `UserInv`. They hold in spite of stale reads because what is read can only be older, and an
older status or AccountInfo that passes the guard had the organization's clients already. Of the Store and the identity provider nothing is used but
`Provisioning`: with `StoreProvidesCorrect` and `IdpProvidesCorrect` the proof reaches down to the single calls of both controllers.
`UserClientsCorrect` (`UserClientsRespected`) needs no more than the types: every write to the spec of the identity provider is either made by users or keeps
what is not the organization's own, up to the patch that `crossed` observes. `InviteCorrect` (`InviteReachesCreator`) rests on `MailInv`: a user without an
e-mail is about to get it, in a reconcile that has not marked the Invite ready, or `abandoned` has recorded that such a reconcile ended.

**ModelGeneration_proofs.** `ModelGenerationTypeCorrect`; `AccountInfoCorrect` (`AccountInfoOutlivesBindings`), which speaks of patient users, with
`AccountInv`: once the finalizer of the AccountInfo is about to go, no binding of the workspace carries one or can
still get one; `ModelsFallCorrect` (`ModelsFallWithTheirBindings`), for any number of workers and
impatient users, with `FinalizingInv`: a reconcile that deletes belongs to a binding under deletion; `CapsCorrect` (`CapsAgreeAndFit` of CapGroup), on the lengths of sequences.
`OnlyCrossingLeaksCorrect` and `BoundModelsCorrect` (`OnlyCrossingLeaks`, `BoundModelsExist`) speak of patient users and of any number of workers. `HeldInv`: a live model that no
crossing of finalizers has kept is held by a binding, which calls for it and whose finalizer has still to take it away; when that binding lets go, it has counted
another, which then holds it, or `crossed` records the model. `GuardInv` says that a reconcile which writes works on a binding that
cannot go before its finalizer ran. For `BoundModelsExist` the same steps are looked at from the other side: no binding comes to life behind the
back of a finalizer that counts, so one that deletes is the last of its kind (`LastInv`); no live binding calls for a model under deletion (`FallenInv`), which
`CreateOrUpdate` would take for a good one; and what a reconcile has written, or left behind written, is live (`WrittenInv`).
Two conditions on what is bound are stated in the module, and the instance for TLC asserts that it meets them. `ExemptAreInternal`: a binding
without finalizer binds an internal export; otherwise nothing takes its models away (the code compares two different names,
`authorization_model_generation.go:207` and `:224`). `SchemasApart`: no two exports share a schema. A model is named after group, plural and organization, whereas
`Finalize` counts the bindings of its own export only (line 128); with a shared schema the last binding of one export takes away what the other needs.
The code ensures neither and works as if both held.

**StoreIDCache_proofs.** `StoreIDCacheTypeCorrect`, `IdsBelongCorrect` (`IdsBelongToNames`) and `NotFoundCorrect` (`NotFoundIsTrue`). `CacheInv`
relates every call to what it has seen: a store of the wanted name that existed all along is behind the token, in the
rest of the page, or was found (`Progress`); the step over a page rests on a lemma on
cardinalities: if a page is not full, it is all there is.

**IdentityProvider_proofs.** `IdpTypeCorrect` and `NoDuplicateClientCorrect` (`NoDuplicateClient`), for patient users and others; `NoOrphanedClientCorrect`,
`NoLeakedSecretCorrect` and the refinement `IdpProvidesCorrect` (`Spec => IdpProvides`), of what patient users see. That a
client is registered only behind an empty lookup is not enough: `UpdateClient` writes a name too, to the id in the status. `NamesInv` says that
every id in the object's status, and in both copies the reconcile has, was handed out for the name it stands
under, so that an update never renames a client; and that no client of the name at hand exists between an empty lookup and
the registration. Behind the other three stand `WorkInv`, of every user, which says what a reconcile may hold at each of its points (its copy, the
clients still to do, where it resumes); and, of patient users, `ObjectInv` (a reconcile has the object as it is; when it
rests, or works under deletion, status and spec agree; no two recorded clients share a secret), `ClientsInv` (behind the removal
stage every live client has a name of the spec, and what spec and status agree on is live) and `SecretsInv` (a live recorded client has its
secret, which is why the removal is never skipped, and data is only in secrets that spec or status name, or did before an edit moved the reference). For
the refinement the steps are matched with `Ask`, `Delete`, `Serve` and `Vanish` as for the Store.

**AccountTuples_proofs.** `AccountTuplesTypeCorrect`, with `WriteInv`: who is about to write tuples has read a creator, so the
type of the tuples depends on `Refuse`. `TuplesFallCorrect` (`TuplesFallWithTheirAccount`): `WorkInv` says that what a
reconcile has found, and the roles it still has to follow, are of the account at work, which `LcInv` says is never the organization;
and that with patient users only the terminator terminates, since `DeleteAccount` waits for the initializer and for every
reconcile, so that nobody else ends the deletion before it does.
`NothingInheritedCorrect` and `ReadyAccountsCorrect` (`NothingInherited`, `ReadyAccountsAreOwned`) share one invariant for patient users: an account has one
workspace at a time (`UniqueInv`); a workspace without initializer has its creator's initial tuples (`OwnedInv`); every tuple is owed to a workspace that
exists, or to the organization (`CoverInv`); who holds a role in an account holds one that relates to the account, which is the only way the
terminator finds it (`RolesInv`); and `TaskInv` says of the terminator that every tuple of its account is in what it found, or belongs to a role it still
has to follow, until there are none. `RolesInv` is what lets `TaskInv` pass from roles to tuples.

**ExportPolicy_proofs.** `ExportPolicyTypeCorrect` and `NoUnfoundedGrantCorrect` (`NoUnfoundedGrant`). `StoresInv`, of all users: tuples are in stores that
exist, and an organization with a store has an AccountInfo. For patient users `RunInv` says that a reconcile works on the policy as it is, and that one under deletion was
settled before; `GrantsInv` follows the tuples that no expression of the spec stands for through the stages: they are stood for by the status, then by
the expressions still to be removed, then on the list of tuples to delete, and behind that there are none. `Meant` leaves out whether account and organization
still exist, which is what makes it inductive.

Every invariant and every action property of the passing runs has a theorem. Only model-checked is what needs fairness: `LiveStoreConverges`,
`StoreDeletionsComplete` and `StoreSettles` of the Store, `DeletionsComplete` of the bindings, `GrantsConverge` and `PolicyDeletionCompletes` of the policy,
`ClientsConverge` and `IdpDeletionCompletes` of the identity provider, `AccountsSettle` and `OrganizationsBecomeReady`. Liveness under
fairness, and the ENABLED in it, are out of the prover's reach. Not proved either is what the runs refute: the five properties whose violation is expected.

## 6. What the models leave out

Texts of models and names (DSL, templates, discovery, hashes of names); metrics, conditions and logging; the back-off
between retries; renaming of stores in the cache; an OpenFGA that refuses a tuple because the store has no
model yet; the lag of the list of bindings; a watch of Accounts that fails to list the policies; APIExports and schemas that change; two policies for one
export; two Stores; APIExports and schemas deleted before their bindings; two exports that share a schema; how long the store id cache keeps an id (an entry that is used never
expires, and the code promises nothing about it); in Organization: configurations that switch one of the four subroutines off, the
branch for an Account without creator that the guard before it excludes, WorkspaceTypes that come and go, the deletion of the Store or of the IdentityProviderConfiguration, the
rate limiter that is keyed by a pointer, and `append` to a shared slice of redirect URLs (`internal/subroutine/idp.go:110`), whose
outcome depends on spare capacity; the configuration of a realm and the metadata of clients; a realm that somebody else
creates after the webhook has looked; accounts in accounts, the deletion of an organization with its accounts, a cached LogicalCluster that is behind, and
a role with two relations to one account (it would be listed twice for the deletion); two clients of one spec that share a name or a secret. Several objects of one kind are independent in the code except where the model has
them together.

Not modelled at all: the clients for kcp workspaces, flags, metrics and the wiring in `cmd/`, which hold no state between two calls; `cmd/initContainer.go`, a script that
runs once before the operator; generated code (`api/v1alpha1/zz_generated.deepcopy.go`).

## 7. What could follow

1. Two policies for one export, whose finalizers take each other's tuples away; the deletion of a provider's workspace with its exports and
   schemas under the bindings of others.
2. The store id cache composed with its two users over stores that are deleted and created again.
