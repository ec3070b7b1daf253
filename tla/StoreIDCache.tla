---------------------------- MODULE StoreIDCache ----------------------------
(***************************************************************************)
(* CachingStoreIDGetter: Get maps the name of a store to its id in OpenFGA *)
(* through a cache shared by all reconciles of a process.  A miss lists    *)
(* every store, page by page, and puts all of them into the cache; misses  *)
(* of several callers list at the same time.                               *)
(***************************************************************************)
EXTENDS Integers, Sequences, FiniteSets

CONSTANTS
  Callers,       \* reconciles that call Get
  Names,         \* names of stores
  PageSize,      \* stores a ListStores call returns (100)
  MaxStoreId,    \* bound: stores created in OpenFGA
  MaxFaults      \* bound: ListStores calls that fail

ASSUME ConstantsAssumption ==
  PageSize \in Nat \ {0} /\ MaxStoreId \in Nat /\ MaxFaults \in Nat

VARIABLES
  named,      \* names of the stores created so far, by id
  live,       \* ids of the stores that exist
  cache,      \* the ttlcache: id by name
  loadErrer,  \* storeIDLoader.loadErrer is set
  call,       \* the call of Get of each caller
  faults

vars == <<named, live, cache, loadErrer, call, faults>>

Ids  == 1 .. MaxStoreId
NoId == 0

\* Where a call is: the name asked for, the continuation token, what is left of
\* the page received, whether another page follows, the wanted item; and, only
\* observed: the stores of the name that existed all along, whether this call's
\* own load failed, and the answer.
Calls == [pc : {"idle", "list", "set", "check"}, name : Names, token : Ids \cup {NoId},
          page : SUBSET Ids, more : BOOLEAN, wanted : Ids \cup {NoId}, existed : SUBSET Ids,
          failed : BOOLEAN, answer : {"none", "id", "not found", "error"}]

TypeOK ==
  /\ named \in Seq(Names) /\ Len(named) <= MaxStoreId
  /\ live \in SUBSET (1 .. Len(named))
  /\ cache \in [Names -> Ids \cup {NoId}]
  /\ loadErrer \in BOOLEAN
  /\ call \in [Callers -> Calls]
  /\ faults \in 0 .. MaxFaults

NewCall(n, pc, item) ==
  [pc |-> pc, name |-> n, token |-> NoId, page |-> {}, more |-> FALSE,
   wanted |-> item, existed |-> {i \in live : named[i] = n}, failed |-> FALSE,
   answer |-> "none"]

Init ==
  /\ named = <<>> /\ live = {}
  /\ cache = [n \in Names |-> NoId]
  /\ loadErrer = FALSE
  /\ \E n \in Names : call = [c \in Callers |-> NewCall(n, "idle", NoId)]
  /\ faults = 0

----------------------------------------------------------------------------
(* OpenFGA, and time.                                                      *)

CreateStore(n) ==
  /\ Len(named) < MaxStoreId
  /\ named' = Append(named, n)
  /\ live' = live \cup {Len(named) + 1}
  /\ UNCHANGED <<cache, loadErrer, call, faults>>

DeleteStore(i) ==
  /\ i \in live
  /\ live' = live \ {i}
  /\ call' = [c \in Callers |-> [call[c] EXCEPT !.existed = @ \ {i}]]
  /\ UNCHANGED <<named, cache, loadErrer, faults>>

Expire(n) ==
  /\ cache[n] # NoId
  /\ cache' = [cache EXCEPT ![n] = NoId]
  /\ UNCHANGED <<named, live, loadErrer, call, faults>>

----------------------------------------------------------------------------
(* Get.                                                                    *)

Begin(c, n) ==
  /\ call[c].pc = "idle"
  /\ call' = [call EXCEPT ![c] = IF cache[n] # NoId THEN NewCall(n, "check", cache[n])
                                 ELSE NewCall(n, "list", NoId)]
  /\ UNCHANGED <<named, live, cache, loadErrer, faults>>

\* The stores behind the continuation token, and the first PageSize of them.
Rest(token) == {i \in live : i > token}
Page(token) == {i \in Rest(token) : Cardinality({j \in Rest(token) : j <= i}) <= PageSize}

\* Mutant: there is no second page.
ListFirstPage(c) ==
  /\ call[c].pc = "list"
  /\ call' = [call EXCEPT ![c].pc = IF live = {} THEN "check" ELSE "set",
                          ![c].page = Page(NoId), ![c].more = FALSE]
  /\ UNCHANGED <<named, live, cache, loadErrer, faults>>

ListStores(c) ==
  LET token == call[c].token IN
  /\ call[c].pc = "list"
  /\ call' = [call EXCEPT ![c].pc = IF Rest(token) = {} THEN "check" ELSE "set",
                          ![c].page = Page(token),
                          ![c].more = Page(token) # Rest(token)]
  /\ UNCHANGED <<named, live, cache, loadErrer, faults>>

ListStoresFails(c) ==
  /\ call[c].pc = "list"
  /\ faults < MaxFaults /\ faults' = faults + 1
  /\ loadErrer' = TRUE
  /\ call' = [call EXCEPT ![c].pc = "check", ![c].wanted = NoId, ![c].failed = TRUE]
  /\ UNCHANGED <<named, live, cache>>

\* Mutants: whatever is listed last is taken for the wanted item; the item is
\* all that is in the cache.
SetAnyItem(c) ==
  \E i \in call[c].page :
    /\ call[c].pc = "set"
    /\ \A j \in call[c].page : i <= j
    /\ cache' = [cache EXCEPT ![named[i]] = i]
    /\ call' = [call EXCEPT ![c].page = @ \ {i},
                            ![c].token = i,
                            ![c].wanted = i,
                            ![c].pc = IF call[c].page # {i} THEN "set"
                                      ELSE IF call[c].more THEN "list" ELSE "check"]
    /\ UNCHANGED <<named, live, loadErrer, faults>>

SetOnlyItem(c) ==
  \E i \in call[c].page :
    /\ call[c].pc = "set"
    /\ \A j \in call[c].page : i <= j
    /\ cache' = [n \in {named[i]} |-> i]
    /\ call' = [call EXCEPT ![c].page = @ \ {i},
                            ![c].token = i,
                            ![c].wanted = IF named[i] = call[c].name THEN i ELSE @,
                            ![c].pc = IF call[c].page # {i} THEN "set"
                                      ELSE IF call[c].more THEN "list" ELSE "check"]
    /\ UNCHANGED <<named, live, loadErrer, faults>>

\* The stores of a page are put into the cache one by one.
SetItem(c) ==
  \E i \in call[c].page :
    /\ call[c].pc = "set"
    /\ \A j \in call[c].page : i <= j
    /\ cache' = [cache EXCEPT ![named[i]] = i]
    /\ call' = [call EXCEPT ![c].page = @ \ {i},
                            ![c].token = i,
                            ![c].wanted = IF named[i] = call[c].name THEN i ELSE @,
                            ![c].pc = IF call[c].page # {i} THEN "set"
                                      ELSE IF call[c].more THEN "list" ELSE "check"]
    /\ UNCHANGED <<named, live, loadErrer, faults>>

Answer(c, answer, id) ==
  call' = [call EXCEPT ![c].pc = "idle", ![c].answer = answer, ![c].wanted = id,
                       ![c].existed = IF answer = "not found" THEN @ ELSE {}]

\* The error of any load of any call so far comes first. The item is shared with
\* the cache: a Set since it was taken may show.
Return(c) ==
  /\ call[c].pc = "check"
  /\ \/ loadErrer /\ Answer(c, "error", NoId)
     \/ /\ ~ loadErrer /\ call[c].wanted # NoId
        /\ \E id \in {call[c].wanted, cache[call[c].name]} \ {NoId} : Answer(c, "id", id)
     \/ ~ loadErrer /\ call[c].wanted = NoId /\ Answer(c, "not found", NoId)
  /\ UNCHANGED <<named, live, cache, loadErrer, faults>>

Continue(c) == ListStores(c) \/ SetItem(c) \/ Return(c)

Next ==
  \/ \E i \in Ids : DeleteStore(i)
  \/ \E n \in Names : CreateStore(n) \/ Expire(n)
  \/ \E c \in Callers : ListStoresFails(c) \/ Continue(c) \/ \E n \in Names : Begin(c, n)

Spec == Init /\ [][Next]_vars

----------------------------------------------------------------------------
(* Properties.                                                             *)

\* An id in the cache, and one that Get answers, is that of a store created with
\* the name asked for: the tuples of one organization never go to another's
\* store, however listings of several callers interleave.
IdsBelongToNames ==
  /\ \A n \in Names : cache[n] # NoId => named[cache[n]] = n
  /\ \A c \in Callers : call[c].answer = "id" => named[call[c].wanted] = call[c].name

\* Get says "not found" only if no store of that name existed from the beginning
\* of the call to its end, on whichever page it would have been listed and
\* whatever was created and deleted while pages were fetched.
NotFoundIsTrue ==
  \A c \in Callers : call[c].answer = "not found" => call[c].existed = {}

\* A call fails only if its own listing failed: a later one, and one that finds
\* its name in the cache, succeeds ("returns cached value on subsequent calls").
ErrorIsOwn == \A c \in Callers : call[c].answer = "error" => call[c].failed
=============================================================================
