--------------------------- MODULE AccountTuples ---------------------------
(***************************************************************************)
(* The tuples of the accounts of one organization, over the lives of their *)
(* workspaces.  Three processes work on the LogicalCluster of a workspace: *)
(* the initializer writes the initial tuples and lets the workspace become *)
(* ready, the operator writes them again whenever it looks at the          *)
(* workspace, the terminator takes away all there are when it is deleted.  *)
(* Other services share an account with users by tuples of their own.      *)
(*                                                                         *)
(* A tuple is about the account's name and its parent's cluster, not about *)
(* the cluster of the account itself: an account that is created again     *)
(* under the same name has the same tuples.                                *)
(***************************************************************************)
EXTENDS Integers, FiniteSets

CONSTANTS
  Accounts, Users, Roles, NoUser,
  Org,          \* the organization, parent of all the accounts
  MaxClusters,  \* bound: workspaces created
  MaxShares,    \* bound: tuples written by others
  MaxFaults,    \* bound: reconciles that fail or are lost half-way
  Patience      \* whether users wait for the processes: the values to consider

Clusters == 1 .. MaxClusters

ASSUME ConstantsAssumption ==
  /\ Org \notin Accounts /\ NoUser \notin Users
  /\ "owner" \in Roles
  /\ MaxClusters \in Nat /\ MaxShares \in Nat /\ MaxFaults \in Nat
  /\ Patience \subseteq BOOLEAN

VARIABLES
  lc,       \* the LogicalClusters, by cluster
  tuples,   \* the tuples in the organization's store
  run,      \* the reconcile of each process on each cluster
  shared,   \* roles users were given by others in the account's present life (only observed)
  patient,  \* users wait until no process is at work on the account
  shares, faults

user == <<shared, patient, shares>>
vars == <<lc, tuples, run, user, faults>>

----------------------------------------------------------------------------
(* Entities and tuples.  The relation of a tuple follows from its ends.    *)

AccountEntity(a) == [kind |-> "account", account |-> a, name |-> "self"]
RoleEntity(a, r) == [kind |-> "role", account |-> a, name |-> r]
UserEntity(u)    == [kind |-> "user", account |-> "none", name |-> u]
Tuple(u, o)      == [user |-> u, object |-> o]

Objects == {AccountEntity(a) : a \in Accounts \cup {Org}}
             \cup {RoleEntity(a, r) : a \in Accounts \cup {Org}, r \in Roles}
Tuples  == [user : Objects \cup {UserEntity(u) : u \in Users}, object : Objects]

BaseTuples(a, creator) ==
  {Tuple(UserEntity(creator), RoleEntity(a, "owner")),
   Tuple(RoleEntity(a, "owner"), AccountEntity(a))}

InitialTuples(a, creator) ==
  BaseTuples(a, creator) \cup {Tuple(AccountEntity(Org), AccountEntity(a))}

\* What another service writes to give a user a role in an account.
SharedTuples(a, r, u) ==
  {Tuple(UserEntity(u), RoleEntity(a, r)), Tuple(RoleEntity(a, r), AccountEntity(a))}

OrgTuples == UNION {BaseTuples(Org, u) : u \in Users}

----------------------------------------------------------------------------
Procs == {"init", "op", "term"}
PCs   == {"idle", "read", "write", "clear", "list", "roles", "delete", "drop"}
Idle  == [pc |-> "idle", creator |-> NoUser, found |-> {}, todo |-> {}]

LogicalClusters == [phase : {"unused", "live", "deleting", "gone"}, account : Accounts \cup {Org},
                    initializing : BOOLEAN, creator : Users \cup {NoUser}]
Runs == [pc : PCs, creator : Users \cup {NoUser}, found : SUBSET Tuples, todo : SUBSET Objects]

TypeOK ==
  /\ lc \in [Clusters -> LogicalClusters]
  /\ tuples \in SUBSET Tuples
  /\ run \in [Procs \X Clusters -> Runs]
  /\ shared \in [Accounts -> SUBSET (Roles \X Users)]
  /\ patient \in BOOLEAN
  /\ shares \in 0 .. MaxShares
  /\ faults \in 0 .. MaxFaults

Init ==
  /\ lc = [i \in Clusters |-> [phase |-> "unused", account |-> Org,
                               initializing |-> FALSE, creator |-> NoUser]]
  /\ tuples = OrgTuples
  /\ run = [w \in Procs \X Clusters |-> Idle]
  /\ shared = [a \in Accounts |-> {}]
  /\ patient \in Patience
  /\ shares = 0 /\ faults = 0

Exists(i)  == lc[i].phase \in {"live", "deleting"}
Current(a) == {i \in Clusters : Exists(i) /\ lc[i].account = a}

----------------------------------------------------------------------------
(* Users, and the services through which they share.                       *)

\* The workspace comes with the initializer and the terminator. An account may
\* lack a creator.
CreateAccount(i, a, creator) ==
  /\ lc[i].phase = "unused" /\ \A j \in Clusters : j < i => lc[j].phase # "unused"
  /\ Current(a) = {}
  /\ lc' = [lc EXCEPT ![i] = [phase |-> "live", account |-> a,
                              initializing |-> TRUE, creator |-> creator]]
  /\ shared' = [shared EXCEPT ![a] = {}]
  /\ UNCHANGED <<tuples, run, patient, shares, faults>>

DeleteAccount(i) ==
  /\ lc[i].phase = "live"
  /\ patient => ~ lc[i].initializing /\ \A p \in Procs : run[p, i].pc = "idle"
  /\ lc' = [lc EXCEPT ![i].phase = "deleting"]
  /\ UNCHANGED <<tuples, run, user, faults>>

Share(i, r, u) ==
  /\ Exists(i) /\ ~ lc[i].initializing
  /\ patient => lc[i].phase = "live"
  /\ shares < MaxShares /\ shares' = shares + 1
  /\ tuples' = tuples \cup SharedTuples(lc[i].account, r, u)
  /\ shared' = [shared EXCEPT ![lc[i].account] = @ \cup {<<r, u>>}]
  /\ UNCHANGED <<lc, run, patient, faults>>

----------------------------------------------------------------------------
(* Reconciles.  The lifecycle looks at the LogicalCluster and decides which *)
(* method runs.                                                            *)

Goto(p, i, from, to) == run[p, i].pc = from /\ run' = [run EXCEPT ![<<p, i>>].pc = to]
Finish(p, i)         == run' = [run EXCEPT ![<<p, i>>] = Idle]

Reconciles(p, i) ==
  /\ lc[i].phase = "live"
  /\ \/ p = "init" /\ lc[i].initializing
     \/ p = "op" /\ ~ lc[i].initializing

\* The initializer terminates the workspaces that it still has to initialize.
Terminates(p, i) ==
  /\ lc[i].phase = "deleting"
  /\ p # "op"
  /\ p = "init" => lc[i].initializing

Begin(p, i) ==
  /\ \/ Reconciles(p, i) /\ Goto(p, i, "idle", "read")
     \/ Terminates(p, i) /\ Goto(p, i, "idle", "list")
  /\ UNCHANGED <<lc, tuples, user, faults>>

----------------------------------------------------------------------------
(* reconcile: of Initialize and of Process.                                *)

\* The creators named by the Account of this name in the parent's workspace.
\* It may be a later one than that of the cluster at work.
Creators(i) == {lc[j].creator : j \in Current(lc[i].account)}

\* Mutant: an Account without creator is not refused.
ReadAnyAccount(p, i) ==
  /\ run[p, i].pc = "read"
  /\ \E c \in Creators(i) :
        run' = [run EXCEPT ![<<p, i>>].pc = "write", ![<<p, i>>].creator = c]
  /\ UNCHANGED <<lc, tuples, user, faults>>

ReadAccount(p, i) ==
  /\ run[p, i].pc = "read"
  /\ \E c \in Creators(i) \ {NoUser} :
        run' = [run EXCEPT ![<<p, i>>].pc = "write", ![<<p, i>>].creator = c]
  /\ UNCHANGED <<lc, tuples, user, faults>>

\* Mutant: an Account without creator needs no tuples.
PassOver(p, i) ==
  /\ run[p, i].pc = "read"
  /\ Creators(i) \subseteq {NoUser}
  /\ run' = [run EXCEPT ![<<p, i>>].pc = "clear"]
  /\ UNCHANGED <<lc, tuples, user, faults>>

\* No Account, or one without creator: an error, and a retry.
Refuse(p, i) ==
  /\ run[p, i].pc = "read"
  /\ Creators(i) \subseteq {NoUser}
  /\ Finish(p, i)
  /\ UNCHANGED <<lc, tuples, user, faults>>

\* The initializer goes on to remove itself, the operator is done.
Applied(p, i) ==
  run' = [run EXCEPT ![<<p, i>>] = IF p = "init" THEN [Idle EXCEPT !.pc = "clear"] ELSE Idle]

\* Mutant: tuples that are there already are an error.
ApplyNew(p, i) ==
  LET new == InitialTuples(lc[i].account, run[p, i].creator) IN
  /\ run[p, i].pc = "write"
  /\ tuples \cap new = {}
  /\ tuples' = tuples \cup new
  /\ Applied(p, i)
  /\ UNCHANGED <<lc, user, faults>>

\* One transaction; tuples that are there already are passed over.
Apply(p, i) ==
  /\ run[p, i].pc = "write"
  /\ tuples' = tuples \cup InitialTuples(lc[i].account, run[p, i].creator)
  /\ Applied(p, i)
  /\ UNCHANGED <<lc, user, faults>>

RemoveInitializer(p, i) ==
  /\ run[p, i].pc = "clear"
  /\ lc' = [lc EXCEPT ![i].initializing = @ /\ ~ Exists(i)]
  /\ Finish(p, i)
  /\ UNCHANGED <<tuples, user, faults>>

----------------------------------------------------------------------------
(* Terminate.                                                              *)

ListWithKey(object) == {t \in tuples : t.object = object}

\* Mutant: whoever has a relation to the account is taken for one of its roles.
UsersIn(a, found) == {t.user : t \in found}

\* The roles of the account among those that have a relation to it.
RolesIn(a, found) ==
  {t.user : t \in {s \in found : s.user.kind = "role" /\ s.user.account = a}}

NextList(todo) == IF todo = {} THEN "delete" ELSE "roles"

ListAccount(p, i) ==
  LET found == ListWithKey(AccountEntity(lc[i].account))
      roles == RolesIn(lc[i].account, found) IN
  /\ run[p, i].pc = "list"
  /\ run' = [run EXCEPT ![<<p, i>>].pc = NextList(roles), ![<<p, i>>].found = found,
                        ![<<p, i>>].todo = roles]
  /\ UNCHANGED <<lc, tuples, user, faults>>

ListRole(p, i) ==
  /\ run[p, i].pc = "roles"
  /\ \E role \in run[p, i].todo :
        run' = [run EXCEPT ![<<p, i>>].pc = NextList(run[p, i].todo \ {role}),
                           ![<<p, i>>].found = @ \cup ListWithKey(role),
                           ![<<p, i>>].todo = @ \ {role}]
  /\ UNCHANGED <<lc, tuples, user, faults>>

\* Mutant: one transaction for each tuple.
DeleteOneByOne(p, i) ==
  /\ run[p, i].pc = "delete"
  /\ \/ \E t \in run[p, i].found :
          /\ tuples' = tuples \ {t}
          /\ run' = [run EXCEPT ![<<p, i>>].found = @ \ {t}]
     \/ run[p, i].found = {} /\ Goto(p, i, "delete", "drop") /\ UNCHANGED tuples
  /\ UNCHANGED <<lc, user, faults>>

\* One transaction; tuples that are gone already are passed over.
Delete(p, i) ==
  /\ run[p, i].pc = "delete"
  /\ tuples' = tuples \ run[p, i].found
  /\ run' = [run EXCEPT ![<<p, i>>] = [Idle EXCEPT !.pc = "drop"]]
  /\ UNCHANGED <<lc, user, faults>>

RemoveTerminator(p, i) ==
  /\ run[p, i].pc = "drop"
  /\ lc' = [lc EXCEPT ![i].phase = "gone"]
  /\ Finish(p, i)
  /\ UNCHANGED <<tuples, user, faults>>

----------------------------------------------------------------------------
Fault(p, i) ==
  /\ run[p, i].pc # "idle"
  /\ faults < MaxFaults /\ faults' = faults + 1
  /\ Finish(p, i)
  /\ UNCHANGED <<lc, tuples, user>>

Step(p, i) ==
  \/ ReadAccount(p, i) \/ Refuse(p, i) \/ Apply(p, i) \/ RemoveInitializer(p, i)
  \/ ListAccount(p, i) \/ ListRole(p, i) \/ Delete(p, i) \/ RemoveTerminator(p, i)

Next ==
  \E i \in Clusters :
    \/ \E a \in Accounts, creator \in Users \cup {NoUser} : CreateAccount(i, a, creator)
    \/ DeleteAccount(i)
    \/ \E r \in Roles, u \in Users : Share(i, r, u)
    \/ \E p \in Procs : Begin(p, i) \/ Step(p, i) \/ Fault(p, i)

Spec == Init /\ [][Next]_vars

\* Each process works through its queue, and tries again what has failed.
FairSpec ==
  /\ Spec
  /\ \A i \in Clusters, p \in Procs : WF_vars(Begin(p, i)) /\ WF_vars(Step(p, i))

----------------------------------------------------------------------------
(* Properties.                                                             *)

Owed(i) ==
  InitialTuples(lc[i].account, lc[i].creator)
    \cup UNION {SharedTuples(lc[i].account, g[1], g[2]) : g \in shared[lc[i].account]}

\* An account that was deleted leaves nothing behind, and one that is created
\* again under its name starts with its own tuples only: whatever the faults and
\* retries, nobody inherits a role in it.
NothingInherited ==
  patient => tuples \subseteq OrgTuples \cup UNION {Owed(i) : i \in {j \in Clusters : Exists(j)}}

\* No account is ready before its creator owns it, and the owner is not lost
\* while it is in use.
ReadyAccountsAreOwned ==
  patient => \A i \in Clusters : lc[i].phase = "live" /\ ~ lc[i].initializing =>
                /\ lc[i].creator # NoUser
                /\ InitialTuples(lc[i].account, lc[i].creator) \subseteq tuples

\* The terminator of one account takes nothing away from the others, nor from
\* the organization, to which all accounts relate.
TuplesFallWithTheirAccount ==
  [][\A t \in tuples \ tuples' :
        /\ t.object.account # Org
        /\ patient => \E i \in Current(t.object.account) : lc[i].phase = "deleting"]_vars

\* An account with a creator becomes ready, a deleted one goes.
AccountsSettle ==
  \A i \in Clusters :
    /\ lc[i].initializing /\ lc[i].creator # NoUser
          ~> ~ lc[i].initializing \/ lc[i].phase # "live"
    /\ lc[i].phase = "deleting" ~> lc[i].phase = "gone"
=============================================================================
