------------------------ MODULE AccountTuples_proofs ------------------------
(***************************************************************************)
(* Proofs about AccountTuples, for any accounts, users and roles, and any  *)
(* number of workspaces, shares and faults.                                *)
(***************************************************************************)
EXTENDS AccountTuples, TLAPS

RunKeys == Procs \X Clusters

LEMMA InitialTuplesType ==
  ASSUME NEW a \in Accounts \cup {Org}, NEW u \in Users
  PROVE  InitialTuples(a, u) \in SUBSET Tuples
<1>1. "owner" \in Roles
  BY ConstantsAssumption DEF ConstantsAssumption
<1>2. /\ AccountEntity(a) \in Objects /\ AccountEntity(Org) \in Objects
      /\ RoleEntity(a, "owner") \in Objects
  BY <1>1 DEF Objects
<1> QED BY <1>2 DEF InitialTuples, BaseTuples, Tuple, Tuples

LEMMA OrgTuplesType == OrgTuples \in SUBSET Tuples
<1>1. \A u \in Users : BaseTuples(Org, u) \in SUBSET Tuples
  BY InitialTuplesType DEF InitialTuples
<1> QED BY <1>1 DEF OrgTuples

LEMMA SharedTuplesType ==
  ASSUME NEW a \in Accounts \cup {Org}, NEW r \in Roles, NEW u \in Users
  PROVE  SharedTuples(a, r, u) \in SUBSET Tuples
<1>1. AccountEntity(a) \in Objects /\ RoleEntity(a, r) \in Objects
  BY DEF Objects
<1> QED BY <1>1 DEF SharedTuples, Tuple, Tuples

\* The users among tuples that are roles are objects.
LEMMA RolesInType ==
  ASSUME NEW a, NEW found \in SUBSET Tuples
  PROVE  RolesIn(a, found) \in SUBSET Objects
<1>1. \A u \in Users : UserEntity(u).kind # "role"
  BY DEF UserEntity
<1> QED BY <1>1 DEF RolesIn, Tuples

LEMMA RunUpdate ==
  ASSUME TypeOK, NEW w \in RunKeys, NEW pc \in PCs
  PROVE  /\ Idle \in Runs /\ [Idle EXCEPT !.pc = pc] \in Runs
         /\ run[w] \in Runs
         /\ \A r \in Runs : [run EXCEPT ![w] = r] \in [RunKeys -> Runs]
         /\ [run EXCEPT ![w].pc = pc] \in [RunKeys -> Runs]
<1>1. Idle \in Runs /\ [Idle EXCEPT !.pc = pc] \in Runs
  BY DEF Idle, Runs, PCs
<1>2. run \in [RunKeys -> Runs]
  BY DEF TypeOK, RunKeys
<1>3. [run[w] EXCEPT !.pc = pc] \in Runs
  BY <1>2 DEF Runs
<1> QED BY <1>1, <1>2, <1>3

\* Inductive with TypeOK: tuples are written for a creator that was read.
WriteInv == \A w \in RunKeys : run[w].pc = "write" => run[w].creator \in Users

LEMMA StepType ==
  ASSUME TypeOK, WriteInv, NEW p \in Procs, NEW i \in Clusters, Step(p, i)
  PROVE  TypeOK'
<1> DEFINE w == <<p, i>>
<1>1. w \in RunKeys
  BY DEF RunKeys
<1>2. /\ run \in [RunKeys -> Runs] /\ run[w] \in Runs
      /\ lc[i] \in LogicalClusters /\ lc[i].account \in Accounts \cup {Org}
      /\ tuples \in SUBSET Tuples
  BY <1>1 DEF TypeOK, RunKeys, LogicalClusters
<1>3. ASSUME run' \in [RunKeys -> Runs], UNCHANGED <<lc, tuples, user, faults>>
      PROVE  TypeOK'
  BY <1>3 DEF TypeOK, RunKeys, user
<1>4. CASE ReadAccount(p, i)
  <2>1. PICK c \in Creators(i) \ {NoUser} :
           run' = [run EXCEPT ![w].pc = "write", ![w].creator = c]
    BY <1>4 DEF ReadAccount
  <2>2. c \in Users \cup {NoUser}
    BY <2>1 DEF Creators, Current, TypeOK, LogicalClusters
  <2>3. run' \in [RunKeys -> Runs]
    BY <1>1, <1>2, <2>1, <2>2 DEF Runs, PCs
  <2> QED BY <1>3, <1>4, <2>3 DEF ReadAccount
<1>5. CASE Refuse(p, i)
  BY <1>1, <1>3, <1>5, RunUpdate DEF Refuse, Finish, PCs
<1>6. CASE Apply(p, i)
  <2>1. run' \in [RunKeys -> Runs]
    <3>1. "clear" \in PCs
      BY DEF PCs
    <3> QED BY <1>1, <1>6, <3>1, RunUpdate DEF Apply, Applied
  <2>2. tuples' \in SUBSET Tuples
    BY <1>1, <1>2, <1>6, InitialTuplesType DEF Apply, WriteInv
  <2> QED BY <1>6, <2>1, <2>2 DEF Apply, TypeOK, RunKeys, user
<1>7. CASE RemoveInitializer(p, i)
  <2>1. run' \in [RunKeys -> Runs]
    BY <1>1, <1>7, RunUpdate DEF RemoveInitializer, Finish, PCs
  <2>2. lc' \in [Clusters -> LogicalClusters]
    BY <1>7 DEF RemoveInitializer, TypeOK, LogicalClusters
  <2> QED BY <1>7, <2>1, <2>2 DEF RemoveInitializer, TypeOK, RunKeys, user
<1>8. CASE ListAccount(p, i)
  <2> DEFINE found == ListWithKey(AccountEntity(lc[i].account))
             roles == RolesIn(lc[i].account, found)
  <2>1. found \in SUBSET Tuples
    BY <1>2 DEF ListWithKey
  <2>2. roles \in SUBSET Objects
    BY <2>1, RolesInType
  <2>3. NextList(roles) \in PCs
    BY DEF NextList, PCs
  <2>4. run' = [run EXCEPT ![w].pc = NextList(roles), ![w].found = found, ![w].todo = roles]
    BY <1>8 DEF ListAccount
  <2> HIDE DEF found, roles
  <2>5. run' \in [RunKeys -> Runs]
    BY <1>1, <1>2, <2>1, <2>2, <2>3, <2>4 DEF Runs
  <2> QED BY <1>3, <1>8, <2>5 DEF ListAccount
<1>9. CASE ListRole(p, i)
  <2>1. PICK role \in run[w].todo :
           run' = [run EXCEPT ![w].pc = NextList(run[w].todo \ {role}),
                              ![w].found = @ \cup ListWithKey(role),
                              ![w].todo = @ \ {role}]
    BY <1>9 DEF ListRole
  <2>2. ListWithKey(role) \in SUBSET Tuples
    BY <1>2 DEF ListWithKey
  <2>3. NextList(run[w].todo \ {role}) \in PCs
    BY DEF NextList, PCs
  <2>4. run' \in [RunKeys -> Runs]
    BY <1>1, <1>2, <2>1, <2>2, <2>3 DEF Runs
  <2> QED BY <1>3, <1>9, <2>4 DEF ListRole
<1>10. CASE Delete(p, i)
  <2>1. "drop" \in PCs
    BY DEF PCs
  <2>2. run' \in [RunKeys -> Runs]
    BY <1>1, <1>10, <2>1, RunUpdate DEF Delete
  <2>3. tuples' \in SUBSET Tuples
    BY <1>2, <1>10 DEF Delete
  <2> QED BY <1>10, <2>2, <2>3 DEF Delete, TypeOK, RunKeys, user
<1>11. CASE RemoveTerminator(p, i)
  <2>1. run' \in [RunKeys -> Runs]
    BY <1>1, <1>11, RunUpdate DEF RemoveTerminator, Finish, PCs
  <2>2. lc' \in [Clusters -> LogicalClusters]
    BY <1>11 DEF RemoveTerminator, TypeOK, LogicalClusters
  <2> QED BY <1>11, <2>1, <2>2 DEF RemoveTerminator, TypeOK, RunKeys, user
<1> QED BY <1>4, <1>5, <1>6, <1>7, <1>8, <1>9, <1>10, <1>11 DEF Step

LEMMA NextType ==
  ASSUME TypeOK, WriteInv, [Next]_vars
  PROVE  TypeOK'
<1> USE ConstantsAssumption DEF ConstantsAssumption
<1>1. CASE UNCHANGED vars
  BY <1>1 DEF TypeOK, vars, user
<1>2. ASSUME NEW i \in Clusters, NEW a \in Accounts, NEW creator \in Users \cup {NoUser},
             CreateAccount(i, a, creator)
      PROVE  TypeOK'
  <2>1. lc' \in [Clusters -> LogicalClusters]
    BY <1>2 DEF CreateAccount, TypeOK, LogicalClusters
  <2>2. shared' \in [Accounts -> SUBSET (Roles \X Users)]
    BY <1>2 DEF CreateAccount, TypeOK
  <2> QED BY <1>2, <2>1, <2>2 DEF CreateAccount, TypeOK
<1>3. ASSUME NEW i \in Clusters, DeleteAccount(i) PROVE TypeOK'
  BY <1>3 DEF DeleteAccount, TypeOK, LogicalClusters, user
<1>4. ASSUME NEW i \in Clusters, NEW r \in Roles, NEW u \in Users, Share(i, r, u)
      PROVE  TypeOK'
  <2>1. lc[i].account \in Accounts \cup {Org}
    BY DEF TypeOK, LogicalClusters
  <2>2. tuples' \in SUBSET Tuples
    BY <1>4, <2>1, SharedTuplesType DEF Share, TypeOK
  <2>3. shared' \in [Accounts -> SUBSET (Roles \X Users)]
    <3>1. <<r, u>> \in Roles \X Users
      OBVIOUS
    <3>2. shared \in [Accounts -> SUBSET (Roles \X Users)]
      BY DEF TypeOK
    <3>3. \A a \in Accounts : shared[a] \cup {<<r, u>>} \in SUBSET (Roles \X Users)
      BY <3>1, <3>2
    <3>4. shared' = [shared EXCEPT ![lc[i].account] = shared[lc[i].account] \cup {<<r, u>>}]
      BY <1>4 DEF Share
    <3> QED BY <3>2, <3>3, <3>4
  <2> QED BY <1>4, <2>2, <2>3 DEF Share, TypeOK
<1>5. ASSUME NEW i \in Clusters, NEW p \in Procs, Begin(p, i) PROVE TypeOK'
  <2>1. <<p, i>> \in RunKeys /\ "read" \in PCs /\ "list" \in PCs
    BY DEF RunKeys, PCs
  <2>2. run' = [run EXCEPT ![<<p, i>>].pc = "read"] \/ run' = [run EXCEPT ![<<p, i>>].pc = "list"]
    BY <1>5 DEF Begin, Goto
  <2>3. run' \in [RunKeys -> Runs]
    <3>1. CASE run' = [run EXCEPT ![<<p, i>>].pc = "read"]
      BY <2>1, <3>1, RunUpdate
    <3>2. CASE run' = [run EXCEPT ![<<p, i>>].pc = "list"]
      BY <2>1, <3>2, RunUpdate
    <3> QED BY <2>2, <3>1, <3>2
  <2> QED BY <1>5, <2>3 DEF Begin, TypeOK, RunKeys, user
<1>6. ASSUME NEW i \in Clusters, NEW p \in Procs, Fault(p, i) PROVE TypeOK'
  <2>1. <<p, i>> \in RunKeys /\ "idle" \in PCs
    BY DEF RunKeys, PCs
  <2>2. run' \in [RunKeys -> Runs]
    BY <1>6, <2>1, RunUpdate DEF Fault, Finish
  <2>3. faults' \in 0 .. MaxFaults
    <3>1. faults < MaxFaults /\ faults' = faults + 1
      BY <1>6 DEF Fault
    <3>2. faults \in 0 .. MaxFaults /\ MaxFaults \in Nat
      BY DEF TypeOK
    <3> QED BY <3>1, <3>2
  <2> QED BY <1>6, <2>2, <2>3 DEF Fault, TypeOK, RunKeys, user
<1> QED BY <1>1, <1>2, <1>3, <1>4, <1>5, <1>6, StepType DEF Next

LEMMA WriteUpdate ==
  ASSUME TypeOK, WriteInv, NEW w \in RunKeys, NEW r \in Runs, run' = [run EXCEPT ![w] = r],
         r.pc = "write" => r.creator \in Users
  PROVE  WriteInv'
<1>1. run \in [RunKeys -> Runs]
  BY DEF TypeOK, RunKeys
<1>2. \A v \in RunKeys : run'[v] = IF v = w THEN r ELSE run[v]
  BY <1>1
<1> QED BY <1>2 DEF WriteInv

\* The same for an update of some of the fields.
LEMMA FieldUpdate ==
  ASSUME TypeOK, NEW w \in RunKeys, NEW pc \in PCs
  PROVE  /\ [run EXCEPT ![w].pc = pc] = [run EXCEPT ![w] = [run[w] EXCEPT !.pc = pc]]
         /\ [run[w] EXCEPT !.pc = pc] \in Runs
         /\ [run[w] EXCEPT !.pc = pc].pc = pc
BY DEF TypeOK, RunKeys, Runs

LEMMA NextWrite ==
  ASSUME TypeOK, WriteInv, [Next]_vars
  PROVE  WriteInv'
<1>1. CASE UNCHANGED vars
  BY <1>1 DEF WriteInv, vars
<1>2. ASSUME UNCHANGED run PROVE WriteInv'
  BY <1>2 DEF WriteInv
<1>3. ASSUME NEW i \in Clusters, NEW p \in Procs, Begin(p, i) PROVE WriteInv'
  <2>1. <<p, i>> \in RunKeys /\ "read" \in PCs /\ "list" \in PCs
    BY DEF RunKeys, PCs
  <2>2. run' = [run EXCEPT ![<<p, i>>].pc = "read"] \/ run' = [run EXCEPT ![<<p, i>>].pc = "list"]
    BY <1>3 DEF Begin, Goto
  <2> QED BY <2>1, <2>2, FieldUpdate, WriteUpdate
<1>4. ASSUME NEW i \in Clusters, NEW p \in Procs, ReadAccount(p, i) PROVE WriteInv'
  <2> DEFINE w == <<p, i>>
  <2>1. PICK c \in Creators(i) \ {NoUser} :
           run' = [run EXCEPT ![w].pc = "write", ![w].creator = c]
    BY <1>4 DEF ReadAccount
  <2>2. c \in Users
    BY <2>1 DEF Creators, Current, TypeOK, LogicalClusters
  <2>3. w \in RunKeys /\ run \in [RunKeys -> Runs]
    BY DEF RunKeys, TypeOK
  <2> HIDE DEF w
  <2>4. run'[w].creator = c /\ \A v \in RunKeys \ {w} : run'[v] = run[v]
    BY <2>1, <2>3 DEF Runs
  <2> QED BY <2>2, <2>4 DEF WriteInv
<1>5. ASSUME NEW i \in Clusters, NEW p \in Procs,
             \/ Refuse(p, i) \/ Apply(p, i) \/ RemoveInitializer(p, i)
             \/ Delete(p, i) \/ RemoveTerminator(p, i) \/ Fault(p, i)
      PROVE  WriteInv'
  <2>1. <<p, i>> \in RunKeys /\ "clear" \in PCs /\ "drop" \in PCs
    BY DEF RunKeys, PCs
  <2>2. \E r \in {Idle, [Idle EXCEPT !.pc = "clear"], [Idle EXCEPT !.pc = "drop"]} :
           run' = [run EXCEPT ![<<p, i>>] = r]
    BY <1>5 DEF Refuse, Apply, Applied, RemoveInitializer, Delete, RemoveTerminator, Fault,
                Finish
  <2>3. \A r \in {Idle, [Idle EXCEPT !.pc = "clear"], [Idle EXCEPT !.pc = "drop"]} :
           r \in Runs /\ r.pc # "write"
    BY DEF Idle, Runs, PCs
  <2> QED BY <2>1, <2>2, <2>3, WriteUpdate
<1>6. ASSUME NEW i \in Clusters, NEW p \in Procs, NEW pc, NEW found, NEW todo, pc # "write",
             run' = [run EXCEPT ![<<p, i>>].pc = pc, ![<<p, i>>].found = found,
                                ![<<p, i>>].todo = todo]
      PROVE  WriteInv'
  <2> DEFINE w == <<p, i>>
  <2>1. w \in RunKeys /\ run \in [RunKeys -> Runs]
    BY DEF RunKeys, TypeOK
  <2>2. run' = [run EXCEPT ![w].pc = pc, ![w].found = found, ![w].todo = todo]
    BY <1>6
  <2> HIDE DEF w
  <2>3. run'[w].pc = pc /\ \A v \in RunKeys \ {w} : run'[v] = run[v]
    BY <2>1, <2>2 DEF Runs
  <2> QED BY <1>6, <2>3 DEF WriteInv
<1>7. \A todo : NextList(todo) # "write"
  BY DEF NextList
<1>8. ASSUME NEW i \in Clusters, NEW p \in Procs, ListAccount(p, i) PROVE WriteInv'
  <2> DEFINE found == ListWithKey(AccountEntity(lc[i].account))
             roles == RolesIn(lc[i].account, found)
  <2>1. run' = [run EXCEPT ![<<p, i>>].pc = NextList(roles), ![<<p, i>>].found = found,
                           ![<<p, i>>].todo = roles]
    BY <1>8 DEF ListAccount
  <2> HIDE DEF found, roles
  <2> QED BY <1>6, <1>7, <2>1
<1>9. ASSUME NEW i \in Clusters, NEW p \in Procs, ListRole(p, i) PROVE WriteInv'
  <2>1. PICK role \in run[p, i].todo :
           run' = [run EXCEPT ![<<p, i>>].pc = NextList(run[p, i].todo \ {role}),
                              ![<<p, i>>].found = run[p, i].found \cup ListWithKey(role),
                              ![<<p, i>>].todo = run[p, i].todo \ {role}]
    BY <1>9 DEF ListRole
  <2> QED BY <1>6, <1>7, <2>1
<1> QED BY <1>1, <1>2, <1>3, <1>4, <1>5, <1>8, <1>9
        DEF Next, Step, CreateAccount, DeleteAccount, Share

LEMMA InitType == Init => TypeOK /\ WriteInv
BY ConstantsAssumption, OrgTuplesType
   DEF ConstantsAssumption, Init, TypeOK, WriteInv, LogicalClusters, Runs, Idle, PCs, RunKeys

\* Type correctness of the initializer, the operator and the terminator: in
\* particular no tuple is ever written for an Account without creator.
THEOREM AccountTuplesTypeCorrect == Spec => []TypeOK
<1>1. TypeOK /\ WriteInv /\ [Next]_vars => (TypeOK /\ WriteInv)'
  BY NextType, NextWrite
<1> QED BY <1>1, InitType, PTL DEF Spec

----------------------------------------------------------------------------
(* Tuples fall with their account.                                         *)

\* The values a reconcile may take, and what stays the same meanwhile.
LEMMA SetRun ==
  ASSUME TypeOK, NEW w \in RunKeys, NEW r, run' = [run EXCEPT ![w] = r]
  PROVE  run'[w] = r /\ \A v \in RunKeys \ {w} : run'[v] = run[v]
BY DEF TypeOK, RunKeys

LEMMA SetPc ==
  ASSUME TypeOK, NEW w \in RunKeys, NEW pc, run' = [run EXCEPT ![w].pc = pc]
  PROVE  /\ run'[w] = [run[w] EXCEPT !.pc = pc]
         /\ \A v \in RunKeys \ {w} : run'[v] = run[v]
<1>1. run \in [RunKeys -> Runs]
  BY DEF TypeOK, RunKeys
<1> QED BY <1>1

LEMMA SetLists ==
  ASSUME TypeOK, NEW w \in RunKeys, NEW pc, NEW found, NEW todo,
         run' = [run EXCEPT ![w].pc = pc, ![w].found = found, ![w].todo = todo]
  PROVE  /\ run'[w].pc = pc /\ run'[w].found = found /\ run'[w].todo = todo
         /\ \A v \in RunKeys \ {w} : run'[v] = run[v]
<1>1. run \in [RunKeys -> Runs]
  BY DEF TypeOK, RunKeys
<1> QED BY <1>1 DEF Runs

\* Inductive: a reconcile works on a workspace that was created; what it has
\* found is about that account; and with patient users only the terminator
\* terminates, and nobody else ends the deletion before it does.
WorkOK(p, r, c) ==
  /\ r.pc = "idle" => r.found = {} /\ r.todo = {}
  /\ r.pc # "idle" => c.phase # "unused"
  /\ \A t \in r.found : t.object.account = c.account
  /\ \A o \in r.todo : o.account = c.account
  /\ patient /\ r.pc \in {"list", "roles", "delete", "drop"} => p = "term" /\ c.phase = "deleting"

WorkInv == \A p \in Procs, i \in Clusters : WorkOK(p, run[p, i], lc[i])

LcInv ==
  \A i \in Clusters :
    /\ lc[i].phase # "unused" => lc[i].account \in Accounts
    /\ patient /\ lc[i].phase = "deleting" => ~ lc[i].initializing

LEMMA WorkUpdate ==
  ASSUME WorkInv, NEW p \in Procs, NEW i \in Clusters, UNCHANGED <<lc, patient>>,
         WorkOK(p, run'[p, i], lc[i]),
         \A v \in RunKeys \ {<<p, i>>} : run'[v] = run[v]
  PROVE  WorkInv'
<1> SUFFICES ASSUME NEW q \in Procs, NEW j \in Clusters
             PROVE  WorkOK(q, run[q, j], lc[j])'
  BY DEF WorkInv
<1>1. CASE q = p /\ j = i
  BY <1>1 DEF WorkOK
<1>2. CASE ~ (q = p /\ j = i)
  <2>1. <<q, j>> \in RunKeys \ {<<p, i>>}
    BY <1>2 DEF RunKeys
  <2>2. run'[q, j] = run[q, j]
    BY <2>1
  <2>3. WorkOK(q, run[q, j], lc[j])
    BY DEF WorkInv
  <2> QED BY <2>2, <2>3 DEF WorkOK
<1> QED BY <1>1, <1>2

LEMMA WorkSet ==
  ASSUME TypeOK, WorkInv, NEW p \in Procs, NEW i \in Clusters, UNCHANGED lc, UNCHANGED patient,
         NEW r, run' = [run EXCEPT ![<<p, i>>] = r], WorkOK(p, r, lc[i])
  PROVE  WorkInv'
<1>1. <<p, i>> \in RunKeys
  BY DEF RunKeys
<1>2. run'[p, i] = r /\ \A v \in RunKeys \ {<<p, i>>} : run'[v] = run[v]
  BY <1>1, SetRun
<1>3. WorkOK(p, run'[p, i], lc[i])
  BY <1>2
<1> QED BY <1>2, <1>3, WorkUpdate

LEMMA IdleWork ==
  ASSUME NEW p, NEW c
  PROVE  /\ WorkOK(p, Idle, c)
         /\ c.phase # "unused" => WorkOK(p, [Idle EXCEPT !.pc = "clear"], c)
BY DEF WorkOK, Idle

LEMMA ListWithKeyObject == \A o : \A t \in ListWithKey(o) : t.object = o
BY DEF ListWithKey

LEMMA RolesInAccount == \A a, found : \A o \in RolesIn(a, found) : o.account = a
BY DEF RolesIn

LEMMA StepWork ==
  ASSUME TypeOK, WorkInv, LcInv, NEW p \in Procs, NEW i \in Clusters,
         Step(p, i) \/ Begin(p, i) \/ Fault(p, i)
  PROVE  WorkInv'
<1> DEFINE w == <<p, i>>
<1>1. w \in RunKeys /\ run[w] \in Runs /\ lc[i] \in LogicalClusters
  BY DEF RunKeys, TypeOK
<1>2. WorkOK(p, run[w], lc[i])
  BY DEF WorkInv
<1>3. UNCHANGED patient
  BY DEF Step, Begin, Fault, ReadAccount, Refuse, Apply, RemoveInitializer, ListAccount,
         ListRole, Delete, RemoveTerminator, user
<1>4. CASE Begin(p, i)
  <2>1. CASE Reconciles(p, i) /\ Goto(p, i, "idle", "read")
    <3>1. run' = [run EXCEPT ![w].pc = "read"] /\ run[w].pc = "idle" /\ lc[i].phase = "live"
      BY <2>1 DEF Goto, Reconciles
    <3>2. WorkOK(p, run'[w], lc[i])
      BY <1>1, <1>2, <3>1, SetPc DEF WorkOK, Runs
    <3> QED BY <1>1, <1>3, <1>4, <3>1, <3>2, SetPc, WorkUpdate DEF Begin
  <2>2. CASE Terminates(p, i) /\ Goto(p, i, "idle", "list")
    <3>1. run' = [run EXCEPT ![w].pc = "list"] /\ run[w].pc = "idle" /\ lc[i].phase = "deleting"
      BY <2>2 DEF Goto, Terminates
    <3>2. patient => p = "term"
      BY <2>2 DEF Terminates, LcInv, Procs
    <3>3. WorkOK(p, run'[w], lc[i])
      BY <1>1, <1>2, <3>1, <3>2, SetPc DEF WorkOK, Runs
    <3> QED BY <1>1, <1>3, <1>4, <3>1, <3>3, SetPc, WorkUpdate DEF Begin
  <2> QED BY <1>4, <2>1, <2>2 DEF Begin
<1>5. CASE ReadAccount(p, i)
  <2>1. PICK c \in Creators(i) \ {NoUser} :
           run' = [run EXCEPT ![w].pc = "write", ![w].creator = c]
    BY <1>5 DEF ReadAccount
  <2>2. run \in [RunKeys -> Runs] /\ run[w].pc = "read"
    BY <1>5 DEF ReadAccount, TypeOK, RunKeys
  <2>3. /\ run'[w].pc = "write" /\ run'[w].found = run[w].found /\ run'[w].todo = run[w].todo
        /\ \A v \in RunKeys \ {w} : run'[v] = run[v]
    <3> HIDE DEF w
    <3> QED BY <1>1, <2>1, <2>2 DEF Runs
  <2>4. WorkOK(p, run'[w], lc[i])
    BY <1>2, <2>2, <2>3 DEF WorkOK
  <2> QED BY <1>3, <1>5, <2>3, <2>4, WorkUpdate DEF ReadAccount
<1>6. CASE Refuse(p, i)
  <2>1. run' = [run EXCEPT ![w] = Idle]
    BY <1>6 DEF Refuse, Finish
  <2>2. UNCHANGED lc /\ WorkOK(p, Idle, lc[i])
    BY <1>6, IdleWork DEF Refuse
  <2> QED BY <1>3, <2>1, <2>2, WorkSet
<1>7. CASE Fault(p, i)
  <2>1. run' = [run EXCEPT ![w] = Idle]
    BY <1>7 DEF Fault, Finish
  <2>2. UNCHANGED lc /\ WorkOK(p, Idle, lc[i])
    BY <1>7, IdleWork DEF Fault
  <2> QED BY <1>3, <2>1, <2>2, WorkSet
<1>8. CASE Apply(p, i)
  <2>1. PICK r \in {Idle, [Idle EXCEPT !.pc = "clear"]} : run' = [run EXCEPT ![w] = r]
    BY <1>8 DEF Apply, Applied
  <2>2. lc[i].phase # "unused"
    BY <1>2, <1>8 DEF Apply, WorkOK
  <2>3. UNCHANGED lc /\ WorkOK(p, r, lc[i])
    BY <1>8, <2>1, <2>2, IdleWork DEF Apply
  <2> QED BY <1>3, <2>1, <2>3, WorkSet
<1>9. CASE RemoveInitializer(p, i)
  <2>1. run' = [run EXCEPT ![w] = Idle]
    BY <1>9 DEF RemoveInitializer, Finish
  <2>2. \A j \in Clusters : lc'[j].phase = lc[j].phase /\ lc'[j].account = lc[j].account
    BY <1>9 DEF RemoveInitializer, TypeOK, LogicalClusters
  <2> SUFFICES ASSUME NEW q \in Procs, NEW j \in Clusters
               PROVE  WorkOK(q, run[q, j], lc[j])'
    BY DEF WorkInv
  <2>3. CASE <<q, j>> = w
    <3>1. run'[q, j] = Idle
      BY <1>1, <2>1, <2>3, SetRun
    <3>2. WorkOK(q, Idle, lc[j])'
      BY DEF WorkOK, Idle
    <3> QED BY <3>1, <3>2 DEF WorkOK
  <2>4. CASE <<q, j>> # w
    <3>1. run'[q, j] = run[q, j]
      BY <1>1, <2>1, <2>4, SetRun DEF RunKeys
    <3>2. WorkOK(q, run[q, j], lc[j])
      BY DEF WorkInv
    <3> QED BY <1>3, <2>2, <3>1, <3>2 DEF WorkOK
  <2> QED BY <2>3, <2>4
<1>10. CASE ListAccount(p, i)
  <2> DEFINE found == ListWithKey(AccountEntity(lc[i].account))
             roles == RolesIn(lc[i].account, found)
  <2>1. run' = [run EXCEPT ![w].pc = NextList(roles), ![w].found = found, ![w].todo = roles]
    BY <1>10 DEF ListAccount
  <2>2. run[w].pc = "list" /\ UNCHANGED lc
    BY <1>10 DEF ListAccount
  <2>3. \A t \in found : t.object.account = lc[i].account
    BY ListWithKeyObject DEF AccountEntity
  <2>4. \A o \in roles : o.account = lc[i].account
    BY RolesInAccount
  <2> HIDE DEF found, roles
  <2>5. NextList(roles) \in {"roles", "delete"}
    BY DEF NextList
  <2>6. /\ run'[w].pc = NextList(roles) /\ run'[w].found = found /\ run'[w].todo = roles
        /\ \A v \in RunKeys \ {w} : run'[v] = run[v]
    BY <1>1, <2>1, SetLists
  <2>7. WorkOK(p, run'[w], lc[i])
    BY <1>2, <2>2, <2>3, <2>4, <2>5, <2>6 DEF WorkOK
  <2> QED BY <1>3, <2>2, <2>6, <2>7, WorkUpdate
<1>11. CASE ListRole(p, i)
  <2>1. PICK role \in run[w].todo :
           run' = [run EXCEPT ![w].pc = NextList(run[w].todo \ {role}),
                              ![w].found = run[w].found \cup ListWithKey(role),
                              ![w].todo = run[w].todo \ {role}]
    BY <1>11 DEF ListRole
  <2>2. run[w].pc = "roles" /\ UNCHANGED lc
    BY <1>11 DEF ListRole
  <2>3. \A t \in run[w].found \cup ListWithKey(role) : t.object.account = lc[i].account
    BY <1>2, <2>1, ListWithKeyObject DEF WorkOK
  <2>4. NextList(run[w].todo \ {role}) \in {"roles", "delete"}
    BY DEF NextList
  <2>5. /\ run'[w].pc = NextList(run[w].todo \ {role})
        /\ run'[w].found = run[w].found \cup ListWithKey(role)
        /\ run'[w].todo = run[w].todo \ {role}
        /\ \A v \in RunKeys \ {w} : run'[v] = run[v]
    <3> DEFINE pc == NextList(run[w].todo \ {role})
               found == run[w].found \cup ListWithKey(role)
               todo == run[w].todo \ {role}
    <3>1. run' = [run EXCEPT ![w].pc = pc, ![w].found = found, ![w].todo = todo]
      BY <2>1
    <3> HIDE DEF w, pc, found, todo
    <3>2. /\ run'[w].pc = pc /\ run'[w].found = found /\ run'[w].todo = todo
          /\ \A v \in RunKeys \ {w} : run'[v] = run[v]
      BY <1>1, <3>1, SetLists
    <3> QED BY <3>2 DEF pc, found, todo
  <2>6. WorkOK(p, run'[w], lc[i])
    BY <1>2, <2>2, <2>3, <2>4, <2>5 DEF WorkOK
  <2> QED BY <1>3, <2>2, <2>5, <2>6, WorkUpdate
<1>12. CASE Delete(p, i)
  <2>1. run' = [run EXCEPT ![w] = [Idle EXCEPT !.pc = "drop"]]
    BY <1>12 DEF Delete
  <2>2. UNCHANGED lc /\ WorkOK(p, [Idle EXCEPT !.pc = "drop"], lc[i])
    BY <1>2, <1>12 DEF Delete, WorkOK, Idle
  <2> QED BY <1>3, <2>1, <2>2, WorkSet
<1>13. CASE RemoveTerminator(p, i)
  <2>1. run' = [run EXCEPT ![w] = Idle]
    BY <1>13 DEF RemoveTerminator, Finish
  <2>2. /\ \A j \in Clusters : lc'[j].account = lc[j].account
        /\ \A j \in Clusters \ {i} : lc'[j].phase = lc[j].phase
        /\ lc'[i].phase = "gone"
    BY <1>13 DEF RemoveTerminator, TypeOK, LogicalClusters
  <2>3. patient => p = "term"
    BY <1>2, <1>13 DEF RemoveTerminator, WorkOK
  <2> SUFFICES ASSUME NEW q \in Procs, NEW j \in Clusters
               PROVE  WorkOK(q, run[q, j], lc[j])'
    BY DEF WorkInv
  <2>4. CASE <<q, j>> = w
    <3>1. run'[q, j] = Idle
      BY <1>1, <2>1, <2>4, SetRun
    <3>2. WorkOK(q, Idle, lc[j])'
      BY DEF WorkOK, Idle
    <3> QED BY <3>1, <3>2 DEF WorkOK
  <2>5. CASE <<q, j>> # w
    <3>1. run'[q, j] = run[q, j]
      BY <1>1, <2>1, <2>5, SetRun DEF RunKeys
    <3>2. WorkOK(q, run[q, j], lc[j])
      BY DEF WorkInv
    <3>3. CASE j = i
      BY <1>3, <2>2, <2>3, <2>5, <3>1, <3>2, <3>3 DEF WorkOK
    <3>4. CASE j # i
      BY <1>3, <2>2, <3>1, <3>2, <3>4 DEF WorkOK
    <3> QED BY <3>3, <3>4
  <2> QED BY <2>4, <2>5
<1> QED BY <1>4, <1>5, <1>6, <1>7, <1>8, <1>9, <1>10, <1>11, <1>12, <1>13 DEF Step

\* Runs stay as they are while the workspace they work on changes its life.
LEMMA LifeWork ==
  ASSUME TypeOK, WorkInv, LcInv, NEW i \in Clusters, UNCHANGED <<run, patient>>,
         \/ \E a \in Accounts, creator \in Users \cup {NoUser} : CreateAccount(i, a, creator)
         \/ DeleteAccount(i)
  PROVE  WorkInv'
<1> SUFFICES ASSUME NEW q \in Procs, NEW j \in Clusters
             PROVE  WorkOK(q, run[q, j], lc[j])'
  BY DEF WorkInv
<1>1. WorkOK(q, run[q, j], lc[j]) /\ lc \in [Clusters -> LogicalClusters]
  BY DEF WorkInv, TypeOK
<1>2. CASE j # i
  <2>1. lc'[j] = lc[j]
    BY <1>1, <1>2 DEF CreateAccount, DeleteAccount
  <2> QED BY <1>1, <2>1 DEF WorkOK
<1>3. CASE j = i /\ \E a \in Accounts, creator \in Users \cup {NoUser} : CreateAccount(i, a, creator)
  <2>1. lc[i].phase = "unused" /\ lc'[i].phase = "live"
    <3>1. PICK a \in Accounts, creator \in Users \cup {NoUser} : CreateAccount(i, a, creator)
      BY <1>3
    <3>2. lc' = [lc EXCEPT ![i] = [phase |-> "live", account |-> a,
                                   initializing |-> TRUE, creator |-> creator]]
      BY <3>1 DEF CreateAccount
    <3>3. lc[i].phase = "unused"
      BY <3>1 DEF CreateAccount
    <3>4. lc'[i].phase = "live"
      BY <1>1, <3>2
    <3> QED BY <3>3, <3>4
  <2>2. run[q, j].pc = "idle" /\ run[q, j].found = {} /\ run[q, j].todo = {}
    BY <1>1, <1>3, <2>1 DEF WorkOK
  <2> QED BY <1>3, <2>1, <2>2 DEF WorkOK
<1>4. CASE j = i /\ DeleteAccount(i)
  <2>1. lc'[i].phase = "deleting" /\ lc'[i].account = lc[i].account
    BY <1>1, <1>4 DEF DeleteAccount, LogicalClusters
  <2>2. patient => run[q, j].pc = "idle"
    BY <1>4 DEF DeleteAccount
  <2> QED BY <1>1, <1>4, <2>1, <2>2 DEF WorkOK
<1> QED BY <1>2, <1>3, <1>4

LEMMA NextWork == TypeOK /\ WorkInv /\ LcInv /\ [Next]_vars => WorkInv'
<1> SUFFICES ASSUME TypeOK, WorkInv, LcInv, [Next]_vars PROVE WorkInv'
  OBVIOUS
<1>1. CASE UNCHANGED <<lc, run, patient>>
  <2> SUFFICES ASSUME NEW q \in Procs, NEW j \in Clusters
               PROVE  WorkOK(q, run[q, j], lc[j])'
    BY DEF WorkInv
  <2>1. WorkOK(q, run[q, j], lc[j])
    BY DEF WorkInv
  <2>2. lc'[j] = lc[j] /\ run'[q, j] = run[q, j] /\ patient' = patient
    BY <1>1
  <2> QED BY <2>1, <2>2 DEF WorkOK
<1>2. ASSUME NEW i \in Clusters,
             \/ \E a \in Accounts, creator \in Users \cup {NoUser} : CreateAccount(i, a, creator)
             \/ DeleteAccount(i)
      PROVE  WorkInv'
  BY <1>2, LifeWork DEF CreateAccount, DeleteAccount, user
<1>3. ASSUME NEW i \in Clusters, NEW r \in Roles, NEW u \in Users, Share(i, r, u)
      PROVE  WorkInv'
  BY <1>1, <1>3 DEF Share
<1>4. ASSUME NEW i \in Clusters, NEW p \in Procs, Begin(p, i) \/ Step(p, i) \/ Fault(p, i)
      PROVE  WorkInv'
  BY <1>4, StepWork
<1>5. CASE UNCHANGED vars
  BY <1>1, <1>5 DEF vars, user
<1> QED BY <1>2, <1>3, <1>4, <1>5 DEF Next

LEMMA NextPatient == [Next]_vars => UNCHANGED patient
<1>1. \A i \in Clusters :
        /\ \A a \in Accounts, creator \in Users \cup {NoUser} :
              CreateAccount(i, a, creator) => UNCHANGED patient
        /\ DeleteAccount(i) => UNCHANGED patient
        /\ \A r \in Roles, u \in Users : Share(i, r, u) => UNCHANGED patient
  BY DEF CreateAccount, DeleteAccount, Share, user
<1>2. ASSUME NEW i \in Clusters, NEW p \in Procs, Begin(p, i) \/ Step(p, i) \/ Fault(p, i)
      PROVE  UNCHANGED patient
  BY <1>2 DEF Step, Begin, Fault, ReadAccount, Refuse, Apply, RemoveInitializer, ListAccount,
              ListRole, Delete, RemoveTerminator, user
<1> QED BY <1>1, <1>2 DEF Next, vars, user

\* Only four actions touch a LogicalCluster.
LEMMA NextLife ==
  ASSUME [Next]_vars, lc' # lc
  PROVE  \E i \in Clusters :
           \/ \E a \in Accounts, creator \in Users \cup {NoUser} : CreateAccount(i, a, creator)
           \/ DeleteAccount(i)
           \/ \E p \in Procs : RemoveInitializer(p, i) \/ RemoveTerminator(p, i)
<1>1. Next
  BY DEF vars
<1>2. PICK i \in Clusters :
    \/ \E a \in Accounts, creator \in Users \cup {NoUser} : CreateAccount(i, a, creator)
    \/ DeleteAccount(i)
    \/ \E r \in Roles, u \in Users : Share(i, r, u)
    \/ \E p \in Procs : Begin(p, i) \/ Step(p, i) \/ Fault(p, i)
  BY <1>1 DEF Next
<1>3. /\ \A r \in Roles, u \in Users : ~ Share(i, r, u)
      /\ \A p \in Procs : ~ Begin(p, i) /\ ~ Fault(p, i)
  BY DEF Share, Begin, Fault
<1>4. \A p \in Procs : Step(p, i) => RemoveInitializer(p, i) \/ RemoveTerminator(p, i)
  BY DEF Step, ReadAccount, Refuse, Apply, ListAccount, ListRole, Delete
<1> QED BY <1>2, <1>3, <1>4

LEMMA NextLc == TypeOK /\ WorkInv /\ LcInv /\ [Next]_vars => LcInv'
<1> SUFFICES ASSUME TypeOK, WorkInv, LcInv, [Next]_vars, lc' # lc PROVE LcInv'
  BY NextPatient DEF LcInv
<1>1. lc \in [Clusters -> LogicalClusters] /\ UNCHANGED patient
  BY NextPatient DEF TypeOK
<1>2. ASSUME NEW i \in Clusters, \A j \in Clusters \ {i} : lc'[j] = lc[j],
             lc'[i].phase # "unused" => lc'[i].account \in Accounts,
             patient /\ lc'[i].phase = "deleting" => ~ lc'[i].initializing
      PROVE  LcInv'
  BY <1>1, <1>2 DEF LcInv
<1>3. ASSUME NEW i \in Clusters, NEW a \in Accounts, NEW creator \in Users \cup {NoUser},
             CreateAccount(i, a, creator)
      PROVE  LcInv'
  <2>1. lc' = [lc EXCEPT ![i] = [phase |-> "live", account |-> a,
                                 initializing |-> TRUE, creator |-> creator]]
    BY <1>3 DEF CreateAccount
  <2>2. /\ \A j \in Clusters \ {i} : lc'[j] = lc[j]
        /\ lc'[i].phase = "live" /\ lc'[i].account \in Accounts
    BY <1>1, <2>1
  <2> QED BY <1>2, <2>2
<1>4. ASSUME NEW i \in Clusters, DeleteAccount(i) PROVE LcInv'
  <2>1. /\ \A j \in Clusters \ {i} : lc'[j] = lc[j]
        /\ lc[i].phase = "live" /\ lc'[i].account = lc[i].account
        /\ lc'[i].initializing = lc[i].initializing
    BY <1>1, <1>4 DEF DeleteAccount, LogicalClusters
  <2>2. patient => ~ lc'[i].initializing
    BY <1>4, <2>1 DEF DeleteAccount
  <2>3. lc'[i].account \in Accounts
    BY <2>1 DEF LcInv
  <2> QED BY <1>2, <2>1, <2>2, <2>3
<1>5. ASSUME NEW i \in Clusters, NEW p \in Procs, RemoveInitializer(p, i) PROVE LcInv'
  <2>1. /\ \A j \in Clusters \ {i} : lc'[j] = lc[j]
        /\ lc'[i].phase = lc[i].phase /\ lc'[i].account = lc[i].account
        /\ lc'[i].initializing => lc[i].initializing
    BY <1>1, <1>5 DEF RemoveInitializer, LogicalClusters
  <2> QED BY <1>2, <2>1 DEF LcInv
<1>6. ASSUME NEW i \in Clusters, NEW p \in Procs, RemoveTerminator(p, i) PROVE LcInv'
  <2>1. /\ \A j \in Clusters \ {i} : lc'[j] = lc[j]
        /\ lc'[i].phase = "gone" /\ lc'[i].account = lc[i].account
    BY <1>1, <1>6 DEF RemoveTerminator, LogicalClusters
  <2>2. lc[i].phase # "unused"
    BY <1>6 DEF RemoveTerminator, WorkInv, WorkOK
  <2>3. lc'[i].account \in Accounts
    BY <2>1, <2>2 DEF LcInv
  <2> QED BY <1>2, <2>1, <2>3
<1> QED BY <1>3, <1>4, <1>5, <1>6, NextLife

LEMMA InitWork == Init => WorkInv /\ LcInv
<1> SUFFICES ASSUME Init PROVE WorkInv /\ LcInv
  OBVIOUS
<1>1. \A p \in Procs, i \in Clusters : run[p, i] = Idle
  BY DEF Init
<1>2. WorkInv
  <2> SUFFICES ASSUME NEW p \in Procs, NEW i \in Clusters PROVE WorkOK(p, run[p, i], lc[i])
    BY DEF WorkInv
  <2>1. run[p, i] = Idle
    BY <1>1
  <2>2. WorkOK(p, Idle, lc[i])
    BY IdleWork
  <2> QED BY <2>1, <2>2 DEF WorkOK
<1>3. \A i \in Clusters : lc[i].phase = "unused"
  BY DEF Init
<1> QED BY <1>2, <1>3 DEF LcInv

\* Only the terminator's last transaction takes tuples away.
LEMMA OnlyDelete ==
  ASSUME [Next]_vars, NEW t \in tuples, t \notin tuples'
  PROVE  \E i \in Clusters, p \in Procs : Delete(p, i)
<1>1. PICK i \in Clusters :
    \/ \E a \in Accounts, creator \in Users \cup {NoUser} : CreateAccount(i, a, creator)
    \/ DeleteAccount(i)
    \/ \E r \in Roles, u \in Users : Share(i, r, u)
    \/ \E p \in Procs : Begin(p, i) \/ Step(p, i) \/ Fault(p, i)
  BY DEF Next, vars
<1>2. /\ \A a \in Accounts, creator \in Users \cup {NoUser} : ~ CreateAccount(i, a, creator)
      /\ ~ DeleteAccount(i)
      /\ \A r \in Roles, u \in Users : ~ Share(i, r, u)
      /\ \A p \in Procs : ~ Begin(p, i) /\ ~ Fault(p, i)
  BY DEF CreateAccount, DeleteAccount, Share, Begin, Fault
<1>3. \A p \in Procs : Step(p, i) => Delete(p, i)
  BY DEF Step, ReadAccount, Refuse, Apply, RemoveInitializer, ListAccount, ListRole,
         RemoveTerminator
<1> QED BY <1>1, <1>2, <1>3

LEMMA DeleteFell ==
  ASSUME TypeOK, WorkInv, LcInv, NEW i \in Clusters, NEW p \in Procs, Delete(p, i),
         NEW t \in tuples \ tuples'
  PROVE  /\ t.object.account # Org
         /\ patient => \E j \in Current(t.object.account) : lc[j].phase = "deleting"
<1>1. run[p, i].pc = "delete" /\ t \in run[p, i].found
  BY DEF Delete
<1>2. WorkOK(p, run[p, i], lc[i])
  BY DEF WorkInv
<1>3. lc[i].phase # "unused" /\ t.object.account = lc[i].account
  BY <1>1, <1>2 DEF WorkOK
<1>4. lc[i].account # Org
  BY <1>3, ConstantsAssumption DEF LcInv, ConstantsAssumption
<1>5. patient => lc[i].phase = "deleting"
  BY <1>1, <1>2 DEF WorkOK
<1> QED BY <1>3, <1>4, <1>5 DEF Current, Exists

\* A terminator takes tuples of its own account only, never of the organization
\* to which all accounts relate; and with users who wait, only while that account
\* is being deleted.
THEOREM TuplesFallCorrect == Spec => TuplesFallWithTheirAccount
<1> DEFINE Inv == TypeOK /\ WriteInv /\ WorkInv /\ LcInv
           Fell == \A t \in tuples \ tuples' :
                      /\ t.object.account # Org
                      /\ patient => \E i \in Current(t.object.account) : lc[i].phase = "deleting"
<1>1. Init => Inv
  BY InitType, InitWork
<1>2. Inv /\ [Next]_vars => Inv'
  BY NextType, NextWrite, NextWork, NextLc
<1>3. Inv /\ [Next]_vars => Fell
  BY OnlyDelete, DeleteFell
<1>4. Inv /\ [Next]_vars => [Fell]_vars
  BY <1>3
<1> HIDE DEF Inv, Fell
<1>5. Spec => [][Fell]_vars
  BY <1>1, <1>2, <1>4, PTL DEF Spec
<1> QED BY <1>5 DEF TuplesFallWithTheirAccount, Fell

----------------------------------------------------------------------------
(* Patient users: nothing is inherited, and ready accounts are owned.      *)

\* No two workspaces of one account exist at a time.
UniqueInv ==
  \A i, j \in Clusters : Exists(i) /\ Exists(j) /\ lc[i].account = lc[j].account => i = j

TuplesOf(i) == {t \in tuples : t.object.account = lc[i].account}

Owned(i) ==
  /\ lc[i].creator # NoUser
  /\ InitialTuples(lc[i].account, lc[i].creator) \subseteq tuples

OwnedInv == \A i \in Clusters : lc[i].phase = "live" /\ ~ lc[i].initializing => Owned(i)

Covered(t) == t \in OrgTuples \/ \E i \in Clusters : Exists(i) /\ t \in Owed(i)

CoverInv == \A t \in tuples : Covered(t)

\* Who has a role in an account has one that relates to the account, where the
\* terminator finds it.
RolesInv ==
  \A t \in tuples :
    t.object.kind = "role" => Tuple(t.object, AccountEntity(t.object.account)) \in tuples

\* Inductive: a reconcile writes for a live workspace and its own creator; the
\* terminator has found whatever there is of the account, or still follows the
\* role it belongs to, until there is nothing.
TaskOK(r, i) ==
  /\ r.pc \in {"read", "write", "clear"} => lc[i].phase = "live"
  /\ r.pc = "write" => r.creator = lc[i].creator /\ r.creator # NoUser
  /\ r.pc = "clear" => Owned(i)
  /\ r.pc = "roles" => \A t \in TuplesOf(i) : t \in r.found \/ t.object \in r.todo
  /\ r.pc = "delete" => TuplesOf(i) \subseteq r.found
  /\ r.pc = "drop" => TuplesOf(i) = {}

TaskInv == \A p \in Procs, i \in Clusters : TaskOK(run[p, i], i)

HeirsInv == OwnedInv /\ CoverInv /\ RolesInv /\ TaskInv

\* What is about an account is about one of its entities.
LEMMA ObjectForms ==
  ASSUME NEW o \in Objects
  PROVE  /\ o.kind \in {"account", "role"}
         /\ o.kind = "account" => o = AccountEntity(o.account)
BY DEF Objects, AccountEntity, RoleEntity

\* The tuples that are written for an account are about it, and closed: who gets a
\* role gets it from one that relates to the account.
Closed(T) ==
  \A t \in T : t.object.kind = "role" => Tuple(t.object, AccountEntity(t.object.account)) \in T

LEMMA InitialClosed ==
  ASSUME NEW a, NEW u
  PROVE  /\ \A t \in InitialTuples(a, u) : t.object.account = a
         /\ Closed(InitialTuples(a, u))
         /\ Closed(BaseTuples(a, u))
BY DEF InitialTuples, BaseTuples, Tuple, RoleEntity, AccountEntity, UserEntity, Closed

LEMMA SharedClosed ==
  ASSUME NEW a, NEW r, NEW u
  PROVE  /\ \A t \in SharedTuples(a, r, u) : t.object.account = a
         /\ Closed(SharedTuples(a, r, u))
BY DEF SharedTuples, Tuple, RoleEntity, AccountEntity, UserEntity, Closed

LEMMA OwedAccount ==
  ASSUME NEW i \in Clusters, NEW t \in Owed(i)
  PROVE  t.object.account = lc[i].account
BY InitialClosed, SharedClosed DEF Owed

LEMMA Union ==
  ASSUME RolesInv, NEW T, Closed(T), tuples' = tuples \cup T
  PROVE  RolesInv'
BY DEF RolesInv, Closed

\* Another reconcile goes on as it was while a live workspace gets tuples; its own
\* account, if it is swept, is another one.
LEMMA Growth ==
  ASSUME TypeOK, WorkInv, UniqueInv, patient, NEW i \in Clusters, lc[i].phase = "live",
         UNCHANGED lc, tuples \subseteq tuples',
         \A t \in tuples' \ tuples : t.object.account = lc[i].account,
         NEW q \in Procs, NEW j \in Clusters, TaskOK(run[q, j], j), run'[q, j] = run[q, j]
  PROVE  TaskOK(run[q, j], j)'
<1>1. Owned(j) => Owned(j)'
  BY DEF Owned
<1>2. CASE run[q, j].pc \in {"roles", "delete", "drop"}
  <2>0. WorkOK(q, run[q, j], lc[j])
    BY DEF WorkInv
  <2>1. lc[j].phase = "deleting"
    BY <1>2, <2>0 DEF WorkOK
  <2>2. lc[j].account # lc[i].account
    BY <2>1 DEF UniqueInv, Exists
  <2>3. TuplesOf(j)' = TuplesOf(j)
    BY <2>2 DEF TuplesOf
  <2> QED
    BY <1>1, <2>3 DEF TaskOK
<1>3. CASE ~ (run[q, j].pc \in {"roles", "delete", "drop"})
  BY <1>1, <1>3 DEF TaskOK
<1> QED
  BY <1>2, <1>3

\* The same while a workspace under deletion loses tuples.
LEMMA OthersOwned ==
  ASSUME UniqueInv, NEW i \in Clusters, lc[i].phase = "deleting", UNCHANGED lc,
         \A t \in tuples \ tuples' : t.object.account = lc[i].account,
         NEW j \in Clusters, lc[j].phase = "live", Owned(j)
  PROVE  Owned(j)'
<1>1. lc[j].account # lc[i].account
  BY DEF UniqueInv, Exists
<1> QED
  BY <1>1, InitialClosed DEF Owned

LEMMA Shrink ==
  ASSUME UniqueInv, NEW i \in Clusters, lc[i].phase = "deleting", UNCHANGED lc,
         tuples' \subseteq tuples,
         \A t \in tuples \ tuples' : t.object.account = lc[i].account,
         NEW q \in Procs, NEW j \in Clusters, TaskOK(run[q, j], j), run'[q, j] = run[q, j]
  PROVE  TaskOK(run[q, j], j)'
<1>1. TuplesOf(j)' \subseteq TuplesOf(j)
  BY DEF TuplesOf
<1>2. run[q, j].pc = "clear" => Owned(j)'
  BY OthersOwned DEF TaskOK
<1> QED
  BY <1>1, <1>2 DEF TaskOK

LEMMA SameTask ==
  ASSUME NEW q \in Procs, NEW j \in Clusters, TaskOK(run[q, j], j), run'[q, j] = run[q, j],
         UNCHANGED tuples, lc'[j].phase = lc[j].phase, lc'[j].account = lc[j].account,
         lc'[j].creator = lc[j].creator
  PROVE  TaskOK(run[q, j], j)'
BY DEF TaskOK, TuplesOf, Owned

LEMMA IdleTask ==
  ASSUME NEW q \in Procs, NEW j \in Clusters, run'[q, j].pc = "idle"
  PROVE  TaskOK(run[q, j], j)'
BY DEF TaskOK

\* A step of one reconcile, which the others do not notice.
LEMMA OneTask ==
  ASSUME TaskInv, NEW p \in Procs, NEW i \in Clusters, UNCHANGED <<lc, tuples>>,
         \A v \in RunKeys \ {<<p, i>>} : run'[v] = run[v], TaskOK(run[p, i], i)'
  PROVE  TaskInv'
<1> SUFFICES ASSUME NEW q \in Procs, NEW j \in Clusters
             PROVE  TaskOK(run[q, j], j)'
  BY DEF TaskInv
<1>1. CASE q = p /\ j = i
  BY <1>1
<1>2. CASE ~ (q = p /\ j = i)
  <2>1. <<q, j>> \in RunKeys \ {<<p, i>>}
    BY <1>2 DEF RunKeys
  <2>2. run'[q, j] = run[q, j]
    BY <2>1
  <2>3. TaskOK(run[q, j], j)
    BY DEF TaskInv
  <2> QED
    BY <2>2, <2>3, SameTask
<1> QED
  BY <1>1, <1>2

(* The steps of a reconcile that only read. *)

Looks(p, i) ==
  Begin(p, i) \/ ReadAccount(p, i) \/ Refuse(p, i) \/ ListAccount(p, i) \/ ListRole(p, i)
    \/ Fault(p, i)

\* The account of a workspace that exists is the account of no other.
LEMMA OwnCreator ==
  ASSUME UniqueInv, NEW i \in Clusters, Exists(i)
  PROVE  Creators(i) = {lc[i].creator}
<1>1. Current(lc[i].account) = {i}
  BY DEF UniqueInv, Current
<1> QED
  BY <1>1 DEF Creators

\* Listing the account finds it itself, and every role that has a member.
LEMMA FirstListing ==
  ASSUME TypeOK, RolesInv, NEW i \in Clusters, NEW t \in TuplesOf(i)
  PROVE  LET found == ListWithKey(AccountEntity(lc[i].account)) IN
         t \in found \/ t.object \in RolesIn(lc[i].account, found)
<1> DEFINE a == lc[i].account
           found == ListWithKey(AccountEntity(a))
<1>1. t \in tuples /\ t \in Tuples /\ t.object \in Objects /\ t.object.account = a
  BY DEF TuplesOf, TypeOK, Tuples
<1>2. CASE t.object.kind = "account"
  BY <1>1, <1>2, ObjectForms DEF ListWithKey
<1>3. CASE t.object.kind = "role"
  <2>1. Tuple(t.object, AccountEntity(a)) \in found
    BY <1>1, <1>3 DEF RolesInv, ListWithKey, Tuple
  <2> QED
    BY <1>1, <1>3, <2>1 DEF RolesIn, Tuple
<1> QED
  BY <1>1, <1>2, <1>3, ObjectForms

LEMMA LooksTask ==
  ASSUME patient, TypeOK, WorkInv, UniqueInv, RolesInv, TaskInv,
         NEW p \in Procs, NEW i \in Clusters, Looks(p, i)
  PROVE  TaskInv'
<1> DEFINE w == <<p, i>>
<1>1. w \in RunKeys /\ run \in [RunKeys -> Runs] /\ run[w] \in Runs
  BY DEF RunKeys, TypeOK
<1>2. UNCHANGED <<lc, tuples>>
  BY DEF Looks, Begin, ReadAccount, Refuse, ListAccount, ListRole, Fault
<1>3. TaskOK(run[p, i], i)
  BY DEF TaskInv
<1>4. CASE Begin(p, i)
  <2>1. PICK pc \in {"read", "list"} :
           /\ run' = [run EXCEPT ![w].pc = pc]
           /\ pc = "read" => lc[i].phase = "live"
    BY <1>4 DEF Begin, Reconciles, Goto
  <2>2. run'[w].pc = pc /\ \A v \in RunKeys \ {w} : run'[v] = run[v]
    BY <1>1, <2>1, SetPc DEF Runs
  <2>3. TaskOK(run[p, i], i)'
    BY <1>2, <2>1, <2>2 DEF TaskOK
  <2> QED
    BY <1>2, <2>2, <2>3, OneTask
<1>5. CASE ReadAccount(p, i)
  <2>1. PICK c \in Creators(i) \ {NoUser} :
           run' = [run EXCEPT ![w].pc = "write", ![w].creator = c]
    BY <1>5 DEF ReadAccount
  <2>2. lc[i].phase = "live"
    BY <1>3, <1>5 DEF TaskOK, ReadAccount
  <2>3. c = lc[i].creator
    BY <2>1, <2>2, OwnCreator DEF Exists
  <2>4. /\ run'[w].pc = "write" /\ run'[w].creator = c
        /\ \A v \in RunKeys \ {w} : run'[v] = run[v]
    <3> HIDE DEF w
    <3> QED BY <1>1, <2>1 DEF Runs
  <2>5. TaskOK(run[p, i], i)'
    BY <1>2, <2>1, <2>2, <2>3, <2>4 DEF TaskOK
  <2> QED
    BY <1>2, <2>4, <2>5, OneTask
<1>6. CASE Refuse(p, i) \/ Fault(p, i)
  <2>1. run' = [run EXCEPT ![w] = Idle]
    BY <1>6 DEF Refuse, Fault, Finish
  <2>2. run'[w].pc = "idle" /\ \A v \in RunKeys \ {w} : run'[v] = run[v]
    BY <1>1, <2>1, SetRun DEF Idle
  <2> QED
    BY <1>2, <2>2, IdleTask, OneTask
<1>7. CASE ListAccount(p, i)
  <2> DEFINE found == ListWithKey(AccountEntity(lc[i].account))
             roles == RolesIn(lc[i].account, found)
  <2>1. run' = [run EXCEPT ![w].pc = NextList(roles), ![w].found = found, ![w].todo = roles]
    BY <1>7 DEF ListAccount
  <2>2. \A t \in TuplesOf(i) : t \in found \/ t.object \in roles
    BY FirstListing
  <2> HIDE DEF found, roles
  <2>3. /\ run'[w].pc = NextList(roles) /\ run'[w].found = found /\ run'[w].todo = roles
        /\ \A v \in RunKeys \ {w} : run'[v] = run[v]
    BY <1>1, <2>1, SetLists
  <2>4. TuplesOf(i)' = TuplesOf(i)
    BY <1>2 DEF TuplesOf
  <2>5. TaskOK(run[p, i], i)'
    BY <2>2, <2>3, <2>4 DEF TaskOK, NextList
  <2> QED
    BY <1>2, <2>3, <2>5, OneTask
<1>8. CASE ListRole(p, i)
  <2>1. PICK role \in run[w].todo :
           run' = [run EXCEPT ![w].pc = NextList(run[w].todo \ {role}),
                              ![w].found = run[w].found \cup ListWithKey(role),
                              ![w].todo = run[w].todo \ {role}]
    BY <1>8 DEF ListRole
  <2> DEFINE found == run[w].found \cup ListWithKey(role)
             todo == run[w].todo \ {role}
  <2>2. \A t \in TuplesOf(i) : t \in run[w].found \/ t.object \in run[w].todo
    BY <1>3, <1>8 DEF TaskOK, ListRole
  <2>3. \A t \in TuplesOf(i) : t \in found \/ t.object \in todo
    BY <2>2 DEF TuplesOf, ListWithKey
  <2>4. run' = [run EXCEPT ![w].pc = NextList(todo), ![w].found = found, ![w].todo = todo]
    BY <2>1
  <2> HIDE DEF w, found, todo
  <2>5. /\ run'[w].pc = NextList(todo) /\ run'[w].found = found /\ run'[w].todo = todo
        /\ \A v \in RunKeys \ {w} : run'[v] = run[v]
    BY <1>1, <2>4, SetLists
  <2>6. TuplesOf(i)' = TuplesOf(i)
    BY <1>2 DEF TuplesOf
  <2> USE DEF w
  <2>7. TaskOK(run[p, i], i)'
    BY <2>3, <2>5, <2>6 DEF TaskOK, NextList
  <2> QED
    BY <1>2, <2>5, <2>7, OneTask
<1> QED
  BY <1>4, <1>5, <1>6, <1>7, <1>8 DEF Looks

\* Nothing but runs changes, so the accounts are owned and covered as before.
LEMMA LooksHeirs ==
  ASSUME patient, TypeOK, WorkInv, UniqueInv, HeirsInv,
         NEW p \in Procs, NEW i \in Clusters, Looks(p, i)
  PROVE  HeirsInv'
<1>1. UNCHANGED <<lc, tuples, shared>>
  BY DEF Looks, Begin, ReadAccount, Refuse, ListAccount, ListRole, Fault, user
<1>2. OwnedInv' /\ CoverInv' /\ RolesInv'
  BY <1>1 DEF HeirsInv, OwnedInv, Owned, CoverInv, Covered, Exists, Owed, RolesInv
<1> QED
  BY <1>2, LooksTask DEF HeirsInv

(* The steps that write. *)

\* A live workspace gets tuples that it is owed.
LEMMA GrowthHeirs ==
  ASSUME patient, TypeOK, WorkInv, UniqueInv, HeirsInv, NEW i \in Clusters,
         lc[i].phase = "live", UNCHANGED lc, NEW T, Closed(T), tuples' = tuples \cup T,
         \A t \in T : t.object.account = lc[i].account, T \subseteq Owed(i)',
         \A j \in Clusters : Owed(j) \subseteq Owed(j)'
  PROVE  OwnedInv' /\ CoverInv' /\ RolesInv'
<1>1. OwnedInv'
  BY DEF HeirsInv, OwnedInv, Owned
<1>2. CoverInv'
  <2> SUFFICES ASSUME NEW t \in tuples' PROVE Covered(t)'
    BY DEF CoverInv
  <2>1. CASE t \in T
    BY <2>1 DEF Covered, Exists
  <2>2. CASE t \in tuples
    BY <2>2 DEF HeirsInv, CoverInv, Covered, Exists
  <2> QED
    BY <2>1, <2>2
<1>3. RolesInv'
  BY Union DEF HeirsInv
<1> QED
  BY <1>1, <1>2, <1>3

LEMMA OwedSame ==
  ASSUME NEW j \in Clusters, lc'[j].account = lc[j].account, lc'[j].creator = lc[j].creator,
         shared'[lc[j].account] = shared[lc[j].account]
  PROVE  Owed(j)' = Owed(j)
BY DEF Owed

LEMMA ApplyHeirs ==
  ASSUME patient, TypeOK, WorkInv, UniqueInv, HeirsInv,
         NEW p \in Procs, NEW i \in Clusters, Apply(p, i)
  PROVE  HeirsInv'
<1> DEFINE w == <<p, i>>
           T == InitialTuples(lc[i].account, run[w].creator)
<1>1. /\ run[w].pc = "write" /\ tuples' = tuples \cup T /\ UNCHANGED <<lc, shared>>
      /\ w \in RunKeys
  BY DEF Apply, user, RunKeys
<1>2. TaskOK(run[p, i], i)
  BY DEF HeirsInv, TaskInv
<1>3. /\ lc[i].phase = "live" /\ run[w].creator = lc[i].creator
      /\ lc[i].creator # NoUser
  BY <1>1, <1>2 DEF TaskOK
<1>4. /\ \A t \in T : t.object.account = lc[i].account
      /\ Closed(T)
  BY InitialClosed
<1>5. \A j \in Clusters : Owed(j)' = Owed(j)
  BY <1>1 DEF Owed
<1>6. T \subseteq Owed(i)'
  BY <1>3, <1>5 DEF Owed
<1>7. OwnedInv' /\ CoverInv' /\ RolesInv'
  <2> HIDE DEF T
  <2> QED
    BY <1>1, <1>3, <1>4, <1>5, <1>6, GrowthHeirs
<1>8. TaskInv'
  <2> SUFFICES ASSUME NEW q \in Procs, NEW j \in Clusters
               PROVE  TaskOK(run[q, j], j)'
    BY DEF TaskInv
  <2>1. CASE q = p /\ j = i
    <3>1. PICK r \in {Idle, [Idle EXCEPT !.pc = "clear"]} : run' = [run EXCEPT ![w] = r]
      BY DEF Apply, Applied
    <3>2. run'[w] = r
      BY <1>1, <3>1, SetRun
    <3>5. r.pc \in {"idle", "clear"}
      BY <3>1 DEF Idle
    <3>4. run'[q, j].pc \in {"idle", "clear"}
      BY <2>1, <3>2, <3>5
    <3>3. Owned(i)'
      BY <1>1, <1>3 DEF Owned
    <3> QED
      BY <1>1, <1>3, <2>1, <3>3, <3>4 DEF TaskOK
  <2>2. CASE ~ (q = p /\ j = i)
    <3>1. <<q, j>> \in RunKeys \ {w}
      BY <2>2 DEF RunKeys
    <3>2. PICK r : run' = [run EXCEPT ![w] = r]
      BY DEF Apply, Applied
    <3>3. run'[q, j] = run[q, j]
      BY <1>1, <3>1, <3>2, SetRun
    <3>4. TaskOK(run[q, j], j)
      BY DEF HeirsInv, TaskInv
    <3> HIDE DEF T
    <3> QED
      BY <1>1, <1>3, <1>4, <3>3, <3>4, Growth
  <2> QED
    BY <2>1, <2>2
<1> QED
  BY <1>7, <1>8 DEF HeirsInv

LEMMA ShareHeirs ==
  ASSUME patient, TypeOK, WorkInv, LcInv, UniqueInv, HeirsInv,
         NEW i \in Clusters, NEW r \in Roles, NEW u \in Users, Share(i, r, u)
  PROVE  HeirsInv'
<1> DEFINE a == lc[i].account
           T == SharedTuples(a, r, u)
<1>1. /\ lc[i].phase = "live" /\ tuples' = tuples \cup T /\ UNCHANGED <<lc, run>>
      /\ shared' = [shared EXCEPT ![a] = @ \cup {<<r, u>>}]
  BY DEF Share
<1>2. a \in Accounts /\ shared \in [Accounts -> SUBSET (Roles \X Users)]
  BY <1>1 DEF LcInv, TypeOK
<1>3. /\ \A t \in T : t.object.account = a
      /\ Closed(T)
  BY SharedClosed
<1>4. \A j \in Clusters : shared[lc[j].account] \subseteq shared'[lc'[j].account]
  <2> SUFFICES ASSUME NEW j \in Clusters
               PROVE  shared[lc[j].account] \subseteq shared'[lc[j].account]
    BY <1>1
  <2>1. CASE lc[j].account = a
    BY <1>1, <1>2, <2>1
  <2>2. CASE lc[j].account # a
    BY <1>1, <1>2, <2>2
  <2> QED
    BY <2>1, <2>2
<1>5. \A j \in Clusters : Owed(j) \subseteq Owed(j)'
  BY <1>1, <1>4 DEF Owed
<1>6. T \subseteq Owed(i)'
  <2>1. <<r, u>> \in shared'[lc'[i].account] /\ lc'[i].account = a
    BY <1>1, <1>2
  <2> QED
    BY <2>1 DEF Owed
<1> HIDE DEF T
<1>7. OwnedInv' /\ CoverInv' /\ RolesInv'
  BY <1>1, <1>3, <1>5, <1>6, GrowthHeirs
<1>8. TaskInv'
  <2> SUFFICES ASSUME NEW q \in Procs, NEW j \in Clusters
               PROVE  TaskOK(run[q, j], j)'
    BY DEF TaskInv
  <2>1. TaskOK(run[q, j], j) /\ run'[q, j] = run[q, j]
    BY <1>1 DEF HeirsInv, TaskInv
  <2> QED
    BY <1>1, <1>3, <2>1, Growth
<1> QED
  BY <1>7, <1>8 DEF HeirsInv

\* The terminator has found all there is of its account, and takes all of it.
LEMMA DeleteHeirs ==
  ASSUME patient, TypeOK, WorkInv, UniqueInv, HeirsInv,
         NEW p \in Procs, NEW i \in Clusters, Delete(p, i)
  PROVE  HeirsInv'
<1> DEFINE w == <<p, i>>
           found == run[w].found
<1>1. /\ run[w].pc = "delete" /\ tuples' = tuples \ found /\ UNCHANGED <<lc, shared>>
      /\ run' = [run EXCEPT ![w] = [Idle EXCEPT !.pc = "drop"]]
      /\ w \in RunKeys
  BY DEF Delete, user, RunKeys
<1>2. TaskOK(run[p, i], i) /\ WorkOK(p, run[p, i], lc[i])
  BY DEF HeirsInv, TaskInv, WorkInv
<1>3. /\ TuplesOf(i) \subseteq found
      /\ \A t \in found : t.object.account = lc[i].account
      /\ lc[i].phase = "deleting"
  BY <1>1, <1>2 DEF TaskOK, WorkOK
<1> HIDE DEF found
<1>4. \A t \in tuples \ tuples' : t.object.account = lc[i].account
  BY <1>1, <1>3
<1>5. OwnedInv'
  BY <1>1, <1>3, <1>4, OthersOwned DEF HeirsInv, OwnedInv
<1>6. CoverInv'
  BY <1>1 DEF HeirsInv, CoverInv, Covered, Exists, Owed
<1>7. RolesInv'
  <2> SUFFICES ASSUME NEW t \in tuples', t.object.kind = "role"
               PROVE  Tuple(t.object, AccountEntity(t.object.account)) \in tuples'
    BY DEF RolesInv
  <2> DEFINE s == Tuple(t.object, AccountEntity(t.object.account))
  <2>1. t \in tuples /\ t \notin found /\ s \in tuples
    BY <1>1 DEF HeirsInv, RolesInv
  <2>2. t.object.account # lc[i].account
    BY <1>3, <2>1 DEF TuplesOf
  <2>3. s.object.account = t.object.account
    BY DEF Tuple, AccountEntity
  <2>4. s \notin found
    BY <1>3, <2>2, <2>3
  <2> QED
    BY <1>1, <2>1, <2>4
<1>8. TaskInv'
  <2> SUFFICES ASSUME NEW q \in Procs, NEW j \in Clusters
               PROVE  TaskOK(run[q, j], j)'
    BY DEF TaskInv
  <2>1. CASE q = p /\ j = i
    <3>3. run'[w] = [Idle EXCEPT !.pc = "drop"]
      BY <1>1, SetRun
    <3>1. run'[q, j].pc = "drop"
      BY <2>1, <3>3 DEF Idle
    <3>2. TuplesOf(i)' = {}
      BY <1>1, <1>3 DEF TuplesOf
    <3> QED
      BY <2>1, <3>1, <3>2 DEF TaskOK
  <2>2. CASE ~ (q = p /\ j = i)
    <3>1. <<q, j>> \in RunKeys \ {w}
      BY <2>2 DEF RunKeys
    <3>2. run'[q, j] = run[q, j]
      BY <1>1, <3>1, SetRun
    <3>3. TaskOK(run[q, j], j)
      BY DEF HeirsInv, TaskInv
    <3> QED
      BY <1>1, <1>3, <1>4, <3>2, <3>3, Shrink
  <2> QED
    BY <2>1, <2>2
<1> QED
  BY <1>5, <1>6, <1>7, <1>8 DEF HeirsInv

(* The steps in the life of a workspace. *)

\* The end of the initializer's reconcile: it goes on only after it has written.
LEMMA ReadyHeirs ==
  ASSUME patient, TypeOK, WorkInv, UniqueInv, HeirsInv,
         NEW p \in Procs, NEW i \in Clusters, RemoveInitializer(p, i)
  PROVE  HeirsInv'
<1> DEFINE w == <<p, i>>
<1>1. /\ run[w].pc = "clear" /\ UNCHANGED <<tuples, shared>>
      /\ run' = [run EXCEPT ![w] = Idle]
      /\ w \in RunKeys
  BY DEF RemoveInitializer, Finish, user, RunKeys
<1>2. /\ \A j \in Clusters : /\ lc'[j].phase = lc[j].phase /\ lc'[j].account = lc[j].account
                             /\ lc'[j].creator = lc[j].creator
      /\ \A j \in Clusters \ {i} : lc'[j] = lc[j]
  BY DEF RemoveInitializer, TypeOK, LogicalClusters
<1>3. \A j \in Clusters : Owned(j)' <=> Owned(j)
  BY <1>1, <1>2 DEF Owned
<1>4. OwnedInv'
  <2> SUFFICES ASSUME NEW j \in Clusters, lc'[j].phase = "live", ~ lc'[j].initializing
               PROVE  Owned(j)'
    BY DEF OwnedInv
  <2>1. CASE j = i
    BY <1>1, <1>3, <2>1 DEF HeirsInv, TaskInv, TaskOK
  <2>2. CASE j # i
    BY <1>2, <1>3, <2>2 DEF HeirsInv, OwnedInv
  <2> QED
    BY <2>1, <2>2
<1>5. \A j \in Clusters : Owed(j)' = Owed(j) /\ (Exists(j)' <=> Exists(j))
  BY <1>1, <1>2 DEF Owed, Exists
<1>6. CoverInv' /\ RolesInv'
  BY <1>1, <1>5 DEF HeirsInv, CoverInv, Covered, RolesInv
<1>7. TaskInv'
  <2> SUFFICES ASSUME NEW q \in Procs, NEW j \in Clusters
               PROVE  TaskOK(run[q, j], j)'
    BY DEF TaskInv
  <2>1. CASE q = p /\ j = i
    <3>1. run'[w] = Idle
      BY <1>1, SetRun
    <3>2. Idle.pc = "idle"
      BY DEF Idle
    <3> QED
      BY <2>1, <3>1, <3>2, IdleTask
  <2>2. CASE ~ (q = p /\ j = i)
    <3>1. <<q, j>> \in RunKeys \ {w}
      BY <2>2 DEF RunKeys
    <3>2. run'[q, j] = run[q, j] /\ TaskOK(run[q, j], j)
      BY <1>1, <3>1, SetRun DEF HeirsInv, TaskInv
    <3> QED
      BY <1>1, <1>2, <3>2, SameTask
  <2> QED
    BY <2>1, <2>2
<1> QED
  BY <1>4, <1>6, <1>7 DEF HeirsInv

\* A workspace goes when nothing of its account is left: every tuple there is
\* belongs to another one. Its other reconciles were at their end.
LEMMA GoneHeirs ==
  ASSUME patient, TypeOK, WorkInv, UniqueInv, HeirsInv,
         NEW p \in Procs, NEW i \in Clusters, RemoveTerminator(p, i)
  PROVE  HeirsInv'
<1> DEFINE w == <<p, i>>
<1>1. /\ run[w].pc = "drop" /\ UNCHANGED <<tuples, shared>>
      /\ run' = [run EXCEPT ![w] = Idle]
      /\ w \in RunKeys
  BY DEF RemoveTerminator, Finish, user, RunKeys
<1>2. TaskOK(run[p, i], i) /\ WorkOK(p, run[p, i], lc[i])
  BY DEF HeirsInv, TaskInv, WorkInv
<1>3. p = "term" /\ lc[i].phase = "deleting" /\ TuplesOf(i) = {}
  BY <1>1, <1>2 DEF TaskOK, WorkOK
<1>4. /\ \A j \in Clusters \ {i} : lc'[j] = lc[j]
      /\ lc'[i].phase = "gone"
  BY DEF RemoveTerminator, TypeOK, LogicalClusters
<1>5. OwnedInv'
  BY <1>1, <1>4 DEF HeirsInv, OwnedInv, Owned
<1>6. CoverInv'
  <2> SUFFICES ASSUME NEW t \in tuples PROVE Covered(t)'
    BY <1>1 DEF CoverInv
  <2>1. ASSUME NEW j \in Clusters, Exists(j), t \in Owed(j)
        PROVE  Covered(t)'
    <3>1. j # i
      BY <1>3, <2>1, OwedAccount DEF TuplesOf
    <3>2. Exists(j)' /\ Owed(j)' = Owed(j)
      BY <1>1, <1>4, <2>1, <3>1 DEF Exists, Owed
    <3> QED
      BY <2>1, <3>2 DEF Covered
  <2> QED
    BY <2>1 DEF HeirsInv, CoverInv, Covered
<1>7. RolesInv'
  BY <1>1 DEF HeirsInv, RolesInv
<1>8. TaskInv'
  <2> SUFFICES ASSUME NEW q \in Procs, NEW j \in Clusters
               PROVE  TaskOK(run[q, j], j)'
    BY DEF TaskInv
  <2>1. CASE q = p /\ j = i
    <3>1. run'[w] = Idle
      BY <1>1, SetRun
    <3>2. Idle.pc = "idle"
      BY DEF Idle
    <3> QED
      BY <2>1, <3>1, <3>2, IdleTask
  <2>2. CASE ~ (q = p /\ j = i)
    <3>1. <<q, j>> \in RunKeys \ {w}
      BY <2>2 DEF RunKeys
    <3>2. /\ run'[q, j] = run[q, j] /\ TaskOK(run[q, j], j)
          /\ WorkOK(q, run[q, j], lc[j])
      BY <1>1, <3>1, SetRun DEF HeirsInv, TaskInv, WorkInv
    <3>3. CASE j = i
      <4>1. ~ (run[q, j].pc \in {"list", "roles", "delete", "drop"})
        BY <1>3, <2>2, <3>2, <3>3 DEF WorkOK
      <4>2. ~ (run[q, j].pc \in {"read", "write", "clear"})
        BY <1>3, <3>2, <3>3 DEF TaskOK
      <4> QED
        BY <3>2, <4>1, <4>2 DEF TaskOK
    <3>4. CASE j # i
      BY <1>1, <1>4, <3>2, <3>4, SameTask
    <3> QED
      BY <3>3, <3>4
  <2> QED
    BY <2>1, <2>2
<1> QED
  BY <1>5, <1>6, <1>7, <1>8 DEF HeirsInv

\* Nobody works on a workspace before it is there, and the account it is created
\* for has no other, so no tuples that are owed to it.
LEMMA CreateHeirs ==
  ASSUME patient, TypeOK, WorkInv, HeirsInv, NEW i \in Clusters, NEW a \in Accounts,
         NEW c \in Users \cup {NoUser}, CreateAccount(i, a, c)
  PROVE  HeirsInv'
<1>1. /\ lc[i].phase = "unused" /\ Current(a) = {} /\ UNCHANGED <<tuples, run>>
      /\ lc' = [lc EXCEPT ![i] = [phase |-> "live", account |-> a,
                                  initializing |-> TRUE, creator |-> c]]
      /\ shared' = [shared EXCEPT ![a] = {}]
  BY DEF CreateAccount
<1>2. /\ \A j \in Clusters \ {i} : lc'[j] = lc[j]
      /\ lc'[i].initializing
  BY <1>1 DEF TypeOK
<1>3. OwnedInv'
  BY <1>1, <1>2 DEF HeirsInv, OwnedInv, Owned
<1>4. CoverInv'
  <2> SUFFICES ASSUME NEW t \in tuples PROVE Covered(t)'
    BY <1>1 DEF CoverInv
  <2>1. ASSUME NEW j \in Clusters, Exists(j), t \in Owed(j)
        PROVE  Covered(t)'
    <3>1. j # i /\ lc[j].account # a
      BY <1>1, <2>1 DEF Exists, Current
    <3>2. lc'[j] = lc[j]
      BY <1>2, <3>1
    <3>3. shared'[lc[j].account] = shared[lc[j].account]
      <4>1. lc[j].phase # "unused" /\ shared \in [Accounts -> SUBSET (Roles \X Users)]
        BY <2>1 DEF Exists, TypeOK
      <4> QED
        BY <1>1, <3>1, <4>1
    <3>4. Owed(j)' = Owed(j)
      BY <3>2, <3>3, OwedSame
    <3>5. Exists(j)'
      BY <2>1, <3>2 DEF Exists
    <3> QED
      BY <2>1, <3>4, <3>5 DEF Covered
  <2> QED
    BY <2>1 DEF HeirsInv, CoverInv, Covered
<1>5. RolesInv'
  BY <1>1 DEF HeirsInv, RolesInv
<1>6. TaskInv'
  <2> SUFFICES ASSUME NEW q \in Procs, NEW j \in Clusters
               PROVE  TaskOK(run[q, j], j)'
    BY DEF TaskInv
  <2>1. TaskOK(run[q, j], j) /\ run'[q, j] = run[q, j] /\ WorkOK(q, run[q, j], lc[j])
    BY <1>1 DEF HeirsInv, TaskInv, WorkInv
  <2>2. CASE j = i
    BY <1>1, <2>1, <2>2, IdleTask DEF WorkOK
  <2>3. CASE j # i
    BY <1>1, <1>2, <2>1, <2>3, SameTask
  <2> QED
    BY <2>2, <2>3
<1> QED
  BY <1>3, <1>4, <1>5, <1>6 DEF HeirsInv

\* Patient users delete a workspace that nobody is at work on.
LEMMA DeletionHeirs ==
  ASSUME patient, TypeOK, HeirsInv, NEW i \in Clusters, DeleteAccount(i)
  PROVE  HeirsInv'
<1>1. /\ lc[i].phase = "live" /\ UNCHANGED <<tuples, run, shared>>
      /\ \A p \in Procs : run[p, i].pc = "idle"
  BY DEF DeleteAccount, user
<1>2. /\ \A j \in Clusters : lc'[j].account = lc[j].account /\ lc'[j].creator = lc[j].creator
                             /\ lc'[j].initializing = lc[j].initializing
      /\ \A j \in Clusters \ {i} : lc'[j] = lc[j]
      /\ lc'[i].phase = "deleting"
  BY DEF DeleteAccount, TypeOK, LogicalClusters
<1>3. OwnedInv'
  BY <1>1, <1>2 DEF HeirsInv, OwnedInv, Owned
<1>4. \A j \in Clusters : Owed(j)' = Owed(j) /\ (Exists(j) => Exists(j)')
  <2>1. \A j \in Clusters : Owed(j)' = Owed(j)
    BY <1>1, <1>2, OwedSame
  <2>2. \A j \in Clusters : Exists(j) => Exists(j)'
    BY <1>1, <1>2 DEF Exists
  <2> QED
    BY <2>1, <2>2
<1>5. CoverInv' /\ RolesInv'
  BY <1>1, <1>4 DEF HeirsInv, CoverInv, Covered, RolesInv
<1>6. TaskInv'
  <2> SUFFICES ASSUME NEW q \in Procs, NEW j \in Clusters
               PROVE  TaskOK(run[q, j], j)'
    BY DEF TaskInv
  <2>1. TaskOK(run[q, j], j) /\ run'[q, j] = run[q, j]
    BY <1>1 DEF HeirsInv, TaskInv
  <2>2. CASE j = i
    BY <1>1, <2>1, <2>2, IdleTask
  <2>3. CASE j # i
    BY <1>1, <1>2, <2>1, <2>3, SameTask
  <2> QED
    BY <2>2, <2>3
<1> QED
  BY <1>3, <1>5, <1>6 DEF HeirsInv

LEMMA NextHeirs ==
  ASSUME patient, TypeOK, WorkInv, LcInv, UniqueInv, HeirsInv, [Next]_vars
  PROVE  HeirsInv'
<1>1. CASE UNCHANGED vars
  <2>1. UNCHANGED <<lc, tuples, run, shared>>
    BY <1>1 DEF vars, user
  <2>2. OwnedInv' /\ CoverInv' /\ RolesInv'
    BY <2>1 DEF HeirsInv, OwnedInv, Owned, CoverInv, Covered, Exists, Owed, RolesInv
  <2>3. TaskInv'
    BY <2>1, SameTask DEF HeirsInv, TaskInv
  <2> QED
    BY <2>2, <2>3 DEF HeirsInv
<1>2. ASSUME NEW i \in Clusters, NEW p \in Procs, Begin(p, i) \/ Step(p, i) \/ Fault(p, i)
      PROVE  HeirsInv'
  <2>1. \/ Looks(p, i) \/ Apply(p, i) \/ Delete(p, i)
        \/ RemoveInitializer(p, i) \/ RemoveTerminator(p, i)
    BY <1>2 DEF Step, Looks
  <2> QED
    BY <2>1, LooksHeirs, ApplyHeirs, DeleteHeirs, ReadyHeirs, GoneHeirs
<1>3. CASE Next
  <2>1. PICK i \in Clusters :
      \/ \E a \in Accounts, c \in Users \cup {NoUser} : CreateAccount(i, a, c)
      \/ DeleteAccount(i)
      \/ \E r \in Roles, u \in Users : Share(i, r, u)
      \/ \E p \in Procs : Begin(p, i) \/ Step(p, i) \/ Fault(p, i)
    BY <1>3 DEF Next
  <2> QED
    BY <1>2, <2>1, CreateHeirs, DeletionHeirs, ShareHeirs
<1> QED
  BY <1>1, <1>3

\* A workspace is created for an account that has none, and lives once.
LEMMA NextUnique == TypeOK /\ WorkInv /\ UniqueInv /\ [Next]_vars => UniqueInv'
<1> SUFFICES ASSUME TypeOK, WorkInv, UniqueInv, [Next]_vars, lc' # lc PROVE UniqueInv'
  BY DEF UniqueInv, Exists
<1>1. ASSUME NEW i \in Clusters, NEW a \in Accounts, NEW c \in Users \cup {NoUser},
             CreateAccount(i, a, c)
      PROVE  UniqueInv'
  <2>1. /\ \A j \in Clusters \ {i} : lc'[j] = lc[j]
        /\ lc'[i].account = a
        /\ \A j \in Clusters : ~ (Exists(j) /\ lc[j].account = a)
    BY <1>1 DEF CreateAccount, TypeOK, Current
  <2> QED
    BY <2>1 DEF UniqueInv, Exists
<1>2. ASSUME NEW i \in Clusters, NEW p \in Procs,
             DeleteAccount(i) \/ RemoveInitializer(p, i) \/ RemoveTerminator(p, i)
      PROVE  UniqueInv'
  <2>1. CASE DeleteAccount(i)
    <3>1. \A j \in Clusters : lc'[j].account = lc[j].account /\ (Exists(j)' => Exists(j))
      BY <2>1 DEF DeleteAccount, TypeOK, LogicalClusters, Exists
    <3> QED
      BY <3>1 DEF UniqueInv
  <2>2. CASE RemoveInitializer(p, i)
    <3>1. \A j \in Clusters : lc'[j].account = lc[j].account /\ (Exists(j)' => Exists(j))
      BY <2>2 DEF RemoveInitializer, TypeOK, LogicalClusters, Exists
    <3> QED
      BY <3>1 DEF UniqueInv
  <2>3. CASE RemoveTerminator(p, i)
    <3>1. \A j \in Clusters : lc'[j].account = lc[j].account /\ (Exists(j)' => Exists(j))
      BY <2>3 DEF RemoveTerminator, TypeOK, LogicalClusters, Exists
    <3> QED
      BY <3>1 DEF UniqueInv
  <2> QED
    BY <1>2, <2>1, <2>2, <2>3
<1>3. "op" \in Procs
  BY DEF Procs
<1> QED
  BY <1>1, <1>2, <1>3, NextLife

LEMMA InitHeirs == Init => UniqueInv /\ HeirsInv
<1> SUFFICES ASSUME Init PROVE UniqueInv /\ HeirsInv
  OBVIOUS
<1>1. /\ \A i \in Clusters : lc[i].phase = "unused"
      /\ tuples = OrgTuples
      /\ \A p \in Procs, i \in Clusters : run[p, i].pc = "idle"
  BY DEF Init, Idle
<1>2. UniqueInv /\ OwnedInv /\ CoverInv /\ TaskInv
  BY <1>1 DEF UniqueInv, Exists, OwnedInv, CoverInv, Covered, TaskInv, TaskOK
<1>3. RolesInv
  <2> SUFFICES ASSUME NEW t \in tuples, t.object.kind = "role"
               PROVE  Tuple(t.object, AccountEntity(t.object.account)) \in tuples
    BY DEF RolesInv
  <2>1. PICK u \in Users : t \in BaseTuples(Org, u)
    BY <1>1 DEF OrgTuples
  <2>2. Tuple(t.object, AccountEntity(t.object.account)) \in BaseTuples(Org, u)
    BY <2>1, InitialClosed DEF Closed
  <2> QED
    BY <1>1, <2>2 DEF OrgTuples
<1> QED
  BY <1>2, <1>3 DEF HeirsInv

LEMMA HeirsCorrect == Spec => [](patient => HeirsInv)
<1> DEFINE Inv == /\ TypeOK /\ WriteInv /\ WorkInv /\ LcInv /\ UniqueInv
                  /\ patient => HeirsInv
<1>1. Init => Inv
  BY InitType, InitWork, InitHeirs
<1>2. Inv /\ [Next]_vars => Inv'
  BY NextType, NextWrite, NextWork, NextLc, NextUnique, NextHeirs, NextPatient
<1>3. Inv => (patient => HeirsInv)
  OBVIOUS
<1> QED
  BY <1>1, <1>2, <1>3, PTL DEF Spec

\* The terminator takes all the tuples of an account, also those that others wrote,
\* before it lets the workspace go: with users who wait, no workspace, under the
\* same name or another, comes upon a tuple that it was not given itself.
THEOREM NothingInheritedCorrect == Spec => []NothingInherited
<1>1. (patient => HeirsInv) => NothingInherited
  BY DEF NothingInherited, HeirsInv, CoverInv, Covered
<1> QED
  BY <1>1, HeirsCorrect, PTL

\* The initializer writes the initial tuples before it removes itself, and refuses
\* an account without creator: with users who wait, every account that is ready
\* has an owner, and relates to the organization.
THEOREM ReadyAccountsCorrect == Spec => []ReadyAccountsAreOwned
<1>1. (patient => HeirsInv) => ReadyAccountsAreOwned
  BY DEF ReadyAccountsAreOwned, HeirsInv, OwnedInv, Owned
<1> QED
  BY <1>1, HeirsCorrect, PTL
=============================================================================
