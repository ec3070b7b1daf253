------------------------ MODULE StoreIDCache_proofs ------------------------
(***************************************************************************)
(* Proofs about StoreIDCache, for any number of callers, names and stores, *)
(* any page size and any number of failing calls.                          *)
(***************************************************************************)
EXTENDS StoreIDCache, FiniteSetTheorems, TLAPS

Known == 1 .. Len(named)

\* What is true of a call wherever it is.
GoodCall(r) ==
  /\ r.page \subseteq Known
  /\ r.existed \subseteq live
  /\ \A i \in r.existed : named[i] = r.name
  /\ r.wanted # NoId => r.wanted \in Known /\ named[r.wanted] = r.name
  /\ r.answer = "id" => r.wanted # NoId
  /\ r.answer # "none" => r.pc = "idle"

\* A store of the name that existed all along is still to come, or was found.
Progress(r) ==
  /\ r.pc = "list" => \A i \in r.existed : i > r.token \/ r.wanted # NoId
  /\ r.pc = "set" => \A i \in r.existed :
        \/ i \in r.page
        \/ r.more /\ \A j \in r.page : j < i
        \/ r.wanted # NoId
  /\ r.pc = "check" => r.existed = {} \/ r.wanted # NoId \/ loadErrer
  /\ r.answer = "not found" => r.existed = {}

GoodCache == \A n \in Names : cache[n] # NoId => cache[n] \in Known /\ named[cache[n]] = n

CacheInv ==
  /\ GoodCache
  /\ \A c \in Callers : GoodCall(call[c]) /\ Progress(call[c])

----------------------------------------------------------------------------
LEMMA Sizes ==
  ASSUME TypeOK
  PROVE  /\ MaxStoreId \in Nat /\ PageSize \in Nat
         /\ Len(named) \in Nat /\ Known \subseteq Ids /\ live \subseteq Known
         /\ \A i \in Known : named[i] \in Names /\ i \in Nat /\ i # NoId
         /\ Ids \subseteq Nat
BY ConstantsAssumption DEF ConstantsAssumption, TypeOK, Known, Ids, NoId

\* The stores behind a page are younger than those on it.
LEMMA PageOrder ==
  ASSUME TypeOK, NEW token \in Nat,
         NEW i \in Rest(token) \ Page(token), NEW j \in Page(token)
  PROVE  j < i
<1> DEFINE Upto(x) == {k \in Rest(token) : k <= x}
<1>1. i \in Nat /\ j \in Nat /\ Rest(token) \subseteq Known
  BY Sizes DEF Rest, Page
<1>2. IsFiniteSet(Known)
  BY Sizes, FS_Interval DEF Known
<1>3. IsFiniteSet(Upto(j)) /\ IsFiniteSet(Upto(i))
  BY <1>1, <1>2, FS_Subset
<1>4. Cardinality(Upto(i)) \in Nat /\ Cardinality(Upto(j)) \in Nat
  BY <1>3, FS_CardinalityType
<1>5. Cardinality(Upto(j)) <= PageSize /\ ~ (Cardinality(Upto(i)) <= PageSize)
  BY DEF Page
<1>6. CASE i <= j
  <2>1. \A k \in Rest(token) : k \in Nat
    BY <1>1, Sizes
  <2>2. Upto(i) \subseteq Upto(j)
    <3> SUFFICES ASSUME NEW k \in Upto(i) PROVE k \in Upto(j)
      OBVIOUS
    <3>1. k \in Rest(token) /\ k <= i /\ k \in Nat
      BY <2>1
    <3>2. k <= j
      BY <1>1, <1>6, <3>1
    <3> QED BY <3>1, <3>2
  <2>3. Cardinality(Upto(i)) <= Cardinality(Upto(j))
    BY <1>3, <2>2, FS_Subset
  <2> QED BY <1>4, <1>5, <2>3, Sizes
<1> QED BY <1>1, <1>6

----------------------------------------------------------------------------
(* One call at a time: what a step makes of the record of its caller.      *)

LEMMA NewCallGood ==
  ASSUME TypeOK, GoodCache, NEW n \in Names
  PROVE  /\ NewCall(n, "idle", NoId) \in Calls
         /\ NewCall(n, "list", NoId) \in Calls
         /\ GoodCall(NewCall(n, "list", NoId)) /\ Progress(NewCall(n, "list", NoId))
         /\ cache[n] # NoId =>
              /\ NewCall(n, "check", cache[n]) \in Calls
              /\ GoodCall(NewCall(n, "check", cache[n]))
              /\ Progress(NewCall(n, "check", cache[n]))
<1>1. {i \in live : named[i] = n} \in SUBSET Ids /\ cache[n] \in Ids \cup {NoId}
  BY Sizes DEF TypeOK
<1>2. \A i \in live : i > NoId
  BY Sizes DEF Known, NoId
<1> QED BY <1>1, <1>2 DEF NewCall, Calls, GoodCall, Progress, GoodCache

LEMMA ListGood ==
  ASSUME TypeOK, NEW r \in Calls, GoodCall(r), Progress(r), r.pc = "list",
         NEW s, s = [r EXCEPT !.pc = IF Rest(r.token) = {} THEN "check" ELSE "set",
                              !.page = Page(r.token),
                              !.more = Page(r.token) # Rest(r.token)]
  PROVE  s \in Calls /\ GoodCall(s) /\ Progress(s)
<1>1. r.token \in Nat /\ Page(r.token) \subseteq Rest(r.token) /\ Rest(r.token) \subseteq live
  <2>1. r.token \in Nat
    <3>1. r.token \in Ids \cup {NoId}
      BY DEF Calls
    <3> QED BY <3>1, Sizes DEF NoId
  <2>2. Page(r.token) \subseteq Rest(r.token) /\ Rest(r.token) \subseteq live
    BY DEF Rest, Page
  <2> QED BY <2>1, <2>2
<1>2. /\ s.pc = IF Rest(r.token) = {} THEN "check" ELSE "set"
      /\ s.page = Page(r.token) /\ s.more = (Page(r.token) # Rest(r.token))
      /\ s.existed = r.existed /\ s.wanted = r.wanted /\ s.name = r.name
      /\ s.answer = r.answer
  BY DEF Calls
<1>3. s \in Calls
  BY <1>1, Sizes DEF Calls
<1>4. GoodCall(s)
  BY <1>1, <1>2, Sizes DEF GoodCall
<1>5. ASSUME NEW i \in r.existed, r.wanted = NoId PROVE i \in Rest(r.token)
  BY <1>5 DEF Progress, GoodCall, Rest
<1>6. Progress(s)
  <2>1. CASE Rest(r.token) = {}
    BY <1>2, <1>5, <2>1 DEF Progress, GoodCall
  <2>2. CASE Rest(r.token) # {}
    <3>1. ASSUME NEW i \in r.existed, r.wanted = NoId, i \notin Page(r.token)
          PROVE  s.more /\ \A j \in Page(r.token) : j < i
      BY <1>1, <1>2, <1>5, <3>1, PageOrder
    <3>2. s.pc = "set" /\ s.answer = "none"
      BY <1>2, <2>2 DEF GoodCall
    <3>3. \A i \in s.existed : \/ i \in s.page
                               \/ s.more /\ \A j \in s.page : j < i
                               \/ s.wanted # NoId
      BY <1>2, <3>1
    <3> QED BY <3>2, <3>3 DEF Progress
  <2> QED BY <2>1, <2>2
<1> QED BY <1>3, <1>4, <1>6

LEMMA SetGood ==
  ASSUME TypeOK, NEW r \in Calls, GoodCall(r), Progress(r), r.pc = "set",
         NEW i \in r.page, \A j \in r.page : i <= j,
         NEW s, s = [r EXCEPT !.page = r.page \ {i}, !.token = i,
                              !.wanted = IF named[i] = r.name THEN i ELSE r.wanted,
                              !.pc = IF r.page # {i} THEN "set"
                                     ELSE IF r.more THEN "list" ELSE "check"]
  PROVE  s \in Calls /\ GoodCall(s) /\ Progress(s)
<1>1. i \in Known /\ i \in Ids /\ i # NoId
  BY Sizes DEF GoodCall
<1>2. /\ s.page = r.page \ {i} /\ s.token = i
      /\ s.wanted = IF named[i] = r.name THEN i ELSE r.wanted
      /\ s.pc = IF r.page # {i} THEN "set" ELSE IF r.more THEN "list" ELSE "check"
      /\ s.existed = r.existed /\ s.name = r.name /\ s.answer = r.answer
      /\ s.more = r.more
  BY DEF Calls
<1>3. s \in Calls
  BY <1>1 DEF Calls
<1>4. GoodCall(s)
  BY <1>1, <1>2 DEF GoodCall
<1>5. ASSUME NEW e \in r.existed, s.wanted = NoId
      PROVE  e \in r.page \ {i} \/ (r.more /\ (\A j \in r.page : j < e))
  BY <1>1, <1>2, <1>5 DEF Progress, GoodCall
<1>6. \A e \in r.existed : e \in Nat
  BY Sizes DEF GoodCall
<1>7. Progress(s)
  <2>1. s.answer = "none"
    BY <1>2 DEF GoodCall
  <2>2. CASE r.page # {i}
    <3>1. s.pc = "set"
      BY <1>2, <2>2
    <3>2. \A e \in s.existed : \/ e \in s.page
                               \/ s.more /\ \A j \in s.page : j < e
                               \/ s.wanted # NoId
      BY <1>2, <1>5
    <3> QED BY <2>1, <3>1, <3>2 DEF Progress
  <2>3. CASE r.page = {i} /\ r.more
    <3>1. s.pc = "list"
      BY <1>2, <2>3
    <3>2. ASSUME NEW e \in s.existed, s.wanted = NoId PROVE e > s.token
      <4>1. i < e
        BY <1>2, <1>5, <2>3, <3>2
      <4> QED BY <1>1, <1>2, <1>6, <3>2, <4>1, Sizes
    <3> QED BY <2>1, <3>1, <3>2 DEF Progress
  <2>4. CASE r.page = {i} /\ ~ r.more
    <3>1. s.pc = "check"
      BY <1>2, <2>4
    <3>2. s.existed = {} \/ s.wanted # NoId
      BY <1>2, <1>5, <2>4
    <3> QED BY <2>1, <3>1, <3>2 DEF Progress
  <2> QED BY <2>2, <2>3, <2>4
<1> QED BY <1>3, <1>4, <1>7

LEMMA AnswerGood ==
  ASSUME TypeOK, GoodCache, NEW c \in Callers, GoodCall(call[c]), Progress(call[c]),
         Return(c)
  PROVE  \E s \in Calls : /\ call' = [call EXCEPT ![c] = s]
                          /\ GoodCall(s) /\ Progress(s)
<1> DEFINE r == call[c]
           s(answer, id) == [r EXCEPT !.pc = "idle", !.answer = answer, !.wanted = id,
                                      !.existed = IF answer = "not found" THEN r.existed
                                                  ELSE {}]
<1>1. r \in Calls /\ r.pc = "check" /\ r.name \in Names
  BY DEF TypeOK, Return, Calls
<1>2. ASSUME NEW answer \in {"id", "not found", "error"}, NEW id \in Ids \cup {NoId},
             Answer(c, answer, id),
             answer = "not found" => r.existed = {},
             answer = "id" => id # NoId,
             id # NoId => id \in Known /\ named[id] = r.name
      PROVE  \E t \in Calls : call' = [call EXCEPT ![c] = t] /\ GoodCall(t) /\ Progress(t)
  <2>1. call' = [call EXCEPT ![c] = s(answer, id)]
    BY <1>2, Zenon DEF Answer, TypeOK
  <2>2. s(answer, id) \in Calls
    BY <1>1 DEF Calls
  <2>3. /\ s(answer, id).pc = "idle" /\ s(answer, id).answer = answer
        /\ s(answer, id).wanted = id /\ s(answer, id).name = r.name
        /\ s(answer, id).page = r.page
        /\ s(answer, id).existed = IF answer = "not found" THEN r.existed ELSE {}
    BY <1>1 DEF Calls
  <2>4. GoodCall(s(answer, id)) /\ Progress(s(answer, id))
    <3> HIDE DEF s
    <3> QED BY <1>2, <2>3 DEF GoodCall, Progress
  <2> QED BY <2>1, <2>2, <2>4
<1>3. CASE loadErrer
  <2>1. Answer(c, "error", NoId)
    BY <1>3 DEF Return
  <2> QED BY <1>2, <2>1 DEF NoId
<1>4. CASE ~ loadErrer /\ r.wanted # NoId
  <2>1. PICK id \in {r.wanted, cache[r.name]} \ {NoId} : Answer(c, "id", id)
    BY <1>4 DEF Return
  <2>2. id \in Ids \cup {NoId} /\ id # NoId /\ id \in Known /\ named[id] = r.name
    BY <1>1, <2>1, Sizes DEF GoodCall, GoodCache
  <2> QED BY <1>2, <2>1, <2>2
<1>5. CASE ~ loadErrer /\ r.wanted = NoId
  <2>1. Answer(c, "not found", NoId) /\ r.existed = {}
    BY <1>1, <1>5 DEF Return, Progress
  <2> QED BY <1>2, <2>1 DEF NoId
<1> QED BY <1>3, <1>4, <1>5
----------------------------------------------------------------------------
\* A step that replaces the record of one call by a good one, and sets neither
\* the cache nor the error.
LEMMA OneCall ==
  ASSUME TypeOK, CacheInv, UNCHANGED <<named, live, loadErrer>>,
         NEW c \in Callers, NEW s \in Calls, call' = [call EXCEPT ![c] = s],
         GoodCall(s), Progress(s)
  PROVE  /\ call' \in [Callers -> Calls]
         /\ \A d \in Callers : GoodCall(call[d])' /\ Progress(call[d])'
<1>1. call' \in [Callers -> Calls]
  BY DEF TypeOK
<1>2. ASSUME NEW d \in Callers PROVE GoodCall(call[d])' /\ Progress(call[d])'
  <2>1. call'[d] = IF d = c THEN s ELSE call[d]
    BY DEF TypeOK
  <2>2. GoodCall(call'[d]) /\ Progress(call'[d])
    BY <2>1 DEF CacheInv
  <2> QED BY <2>2 DEF GoodCall, Progress, Known
<1> QED BY <1>1, <1>2

LEMMA NextInv ==
  ASSUME TypeOK, CacheInv, [Next]_vars
  PROVE  TypeOK' /\ CacheInv'
<1> USE Sizes
<1>1. CASE UNCHANGED vars
  BY <1>1 DEF TypeOK, CacheInv, GoodCache, GoodCall, Progress, Known, vars
<1>2. ASSUME NEW n \in Names, CreateStore(n) PROVE TypeOK' /\ CacheInv'
  <2>1. /\ Len(named') = Len(named) + 1
        /\ \A i \in Known : named'[i] = named[i]
        /\ named' \in Seq(Names)
    BY <1>2 DEF CreateStore, TypeOK, Known
  <2>2. Known \subseteq Known' /\ live \subseteq live'
    BY <1>2, <2>1 DEF CreateStore, Known
  <2>3. TypeOK'
    <3>1. Len(named') <= MaxStoreId
      BY <1>2, <2>1 DEF CreateStore
    <3>2. live' \in SUBSET (1 .. Len(named'))
      <4>1. live \in SUBSET (1 .. Len(named)) /\ live' = live \cup {Len(named) + 1}
        BY <1>2 DEF CreateStore, TypeOK
      <4>2. Len(named) \in Nat /\ Len(named') = Len(named) + 1
        BY <2>1, Sizes
      <4>3. 1 .. Len(named) \subseteq 1 .. Len(named') /\ Len(named) + 1 \in 1 .. Len(named')
        BY <4>2
      <4> QED BY <4>1, <4>3
    <3> QED BY <1>2, <2>1, <3>1, <3>2 DEF CreateStore, TypeOK
  <2>4. GoodCache'
    BY <1>2, <2>1, <2>2 DEF CreateStore, CacheInv, GoodCache
  <2>5. ASSUME NEW c \in Callers PROVE GoodCall(call[c])' /\ Progress(call[c])'
    <3>1. GoodCall(call[c]) /\ Progress(call[c])
      BY DEF CacheInv
    <3>2. call' = call /\ loadErrer' = loadErrer
      BY <1>2 DEF CreateStore
    <3> QED BY <2>1, <2>2, <3>1, <3>2 DEF GoodCall, Progress
  <2> QED BY <2>3, <2>4, <2>5 DEF CacheInv
<1>3. ASSUME NEW i \in Ids, DeleteStore(i) PROVE TypeOK' /\ CacheInv'
  <2>1. \A c \in Callers : call'[c] = [call[c] EXCEPT !.existed = @ \ {i}]
    BY <1>3 DEF DeleteStore
  <2>2. ASSUME NEW c \in Callers
        PROVE  /\ call'[c] \in Calls
               /\ call'[c].existed = call[c].existed \ {i}
               /\ call'[c].pc = call[c].pc /\ call'[c].name = call[c].name
               /\ call'[c].token = call[c].token /\ call'[c].page = call[c].page
               /\ call'[c].more = call[c].more /\ call'[c].wanted = call[c].wanted
               /\ call'[c].answer = call[c].answer
    <3> DEFINE r == call[c]
    <3>1. r \in Calls
      BY DEF TypeOK
    <3>2. call'[c] = [r EXCEPT !.existed = r.existed \ {i}]
      BY <2>1
    <3>3. call'[c] \in Calls
      BY <3>1, <3>2, Zenon DEF Calls
    <3> HIDE DEF r
    <3>4. call'[c].existed = r.existed \ {i}
      BY <3>1, <3>2 DEF Calls
    <3>5. /\ call'[c].pc = r.pc /\ call'[c].name = r.name
          /\ call'[c].token = r.token /\ call'[c].page = r.page
          /\ call'[c].more = r.more /\ call'[c].wanted = r.wanted
          /\ call'[c].answer = r.answer
      BY <3>1, <3>2 DEF Calls
    <3> QED BY <3>3, <3>4, <3>5 DEF r
  <2>3. TypeOK'
    <3>1. call' \in [Callers -> Calls]
      BY <1>3, <2>2 DEF DeleteStore
    <3> QED BY <1>3, <3>1 DEF DeleteStore, TypeOK
  <2>4. ASSUME NEW c \in Callers PROVE GoodCall(call[c])' /\ Progress(call[c])'
    <3>1. GoodCall(call[c]) /\ Progress(call[c])
      BY DEF CacheInv
    <3>2. named' = named /\ live' = live \ {i} /\ loadErrer' = loadErrer
      BY <1>3 DEF DeleteStore
    <3> QED BY <2>2, <3>1, <3>2 DEF GoodCall, Progress, Known
  <2>5. GoodCache'
    BY <1>3 DEF DeleteStore, CacheInv, GoodCache, Known
  <2> QED BY <2>3, <2>4, <2>5 DEF CacheInv
<1>4. ASSUME NEW n \in Names, Expire(n) PROVE TypeOK' /\ CacheInv'
  <2>1. TypeOK' /\ GoodCache'
    BY <1>4 DEF Expire, TypeOK, CacheInv, GoodCache, Known
  <2>2. ASSUME NEW c \in Callers PROVE GoodCall(call[c])' /\ Progress(call[c])'
    BY <1>4 DEF Expire, CacheInv, GoodCall, Progress, Known
  <2> QED BY <2>1, <2>2 DEF CacheInv
<1>5. ASSUME NEW c \in Callers, NEW n \in Names, Begin(c, n) PROVE TypeOK' /\ CacheInv'
  <2>1. \E s \in Calls : call' = [call EXCEPT ![c] = s] /\ GoodCall(s) /\ Progress(s)
    BY <1>5, NewCallGood DEF Begin, CacheInv
  <2>2. UNCHANGED <<named, live, cache, loadErrer, faults>>
    BY <1>5 DEF Begin
  <2>3. call' \in [Callers -> Calls] /\ \A d \in Callers : GoodCall(call[d])' /\ Progress(call[d])'
    BY <2>1, <2>2, OneCall
  <2> QED BY <2>2, <2>3 DEF TypeOK, CacheInv, GoodCache, Known
<1>6. ASSUME NEW c \in Callers, ListStores(c) PROVE TypeOK' /\ CacheInv'
  <2> DEFINE r == call[c]
             s == [r EXCEPT !.pc = IF Rest(r.token) = {} THEN "check" ELSE "set",
                            !.page = Page(r.token),
                            !.more = Page(r.token) # Rest(r.token)]
  <2>1. call' = [call EXCEPT ![c] = s]
    BY <1>6, Zenon DEF ListStores, TypeOK
  <2>2. s \in Calls /\ GoodCall(s) /\ Progress(s)
    <3>1. r \in Calls /\ GoodCall(r) /\ Progress(r) /\ r.pc = "list"
      BY <1>6 DEF ListStores, TypeOK, CacheInv
    <3> QED BY <3>1, ListGood
  <2>3. UNCHANGED <<named, live, cache, loadErrer, faults>>
    BY <1>6 DEF ListStores
  <2>4. call' \in [Callers -> Calls] /\ \A d \in Callers : GoodCall(call[d])' /\ Progress(call[d])'
    <3> HIDE DEF s
    <3> QED BY <2>1, <2>2, <2>3, OneCall
  <2> QED BY <2>3, <2>4 DEF TypeOK, CacheInv, GoodCache, Known
<1>7. ASSUME NEW c \in Callers, ListStoresFails(c) PROVE TypeOK' /\ CacheInv'
  <2>1. call[c] \in Calls /\ GoodCall(call[c]) /\ call[c].pc = "list"
    BY <1>7 DEF ListStoresFails, TypeOK, CacheInv
  <2>2. ASSUME NEW d \in Callers
        PROVE  call'[d] \in Calls /\ GoodCall(call[d])' /\ Progress(call[d])'
    <3>1. named' = named /\ live' = live /\ loadErrer' = TRUE
      BY <1>7 DEF ListStoresFails
    <3>2. CASE d # c
      <4>1. call'[d] = call[d] /\ call[d] \in Calls /\ GoodCall(call[d]) /\ Progress(call[d])
        BY <1>7, <3>2 DEF ListStoresFails, TypeOK, CacheInv
      <4> QED BY <3>1, <4>1 DEF GoodCall, Progress, Known
    <3>3. CASE d = c
      <4>1. call'[c] = [call[c] EXCEPT !.pc = "check", !.wanted = NoId, !.failed = TRUE]
        BY <1>7, Zenon DEF ListStoresFails, TypeOK
      <4>2. call'[c] \in Calls
        BY <2>1, <4>1 DEF Calls
      <4>3. /\ call'[c].pc = "check" /\ call'[c].wanted = NoId
            /\ call'[c].page = call[c].page /\ call'[c].existed = call[c].existed
            /\ call'[c].name = call[c].name /\ call'[c].answer = call[c].answer
        BY <2>1, <4>1 DEF Calls
      <4> QED BY <2>1, <3>1, <3>3, <4>2, <4>3 DEF GoodCall, Progress, Known
    <3> QED BY <3>2, <3>3
  <2>3. call' \in [Callers -> Calls]
    BY <1>7, <2>2 DEF ListStoresFails, TypeOK
  <2> QED BY <1>7, <2>2, <2>3, ConstantsAssumption
          DEF ListStoresFails, TypeOK, CacheInv, GoodCache, Known, ConstantsAssumption
<1>8. ASSUME NEW c \in Callers, SetItem(c) PROVE TypeOK' /\ CacheInv'
  <2>1. PICK i \in call[c].page :
          /\ call[c].pc = "set"
          /\ \A j \in call[c].page : i <= j
          /\ cache' = [cache EXCEPT ![named[i]] = i]
          /\ call' = [call EXCEPT ![c].page = @ \ {i},
                                  ![c].token = i,
                                  ![c].wanted = IF named[i] = call[c].name THEN i ELSE @,
                                  ![c].pc = IF call[c].page # {i} THEN "set"
                                            ELSE IF call[c].more THEN "list" ELSE "check"]
          /\ UNCHANGED <<named, live, loadErrer, faults>>
    BY <1>8 DEF SetItem
  <2> DEFINE r == call[c]
             s == [r EXCEPT !.page = r.page \ {i}, !.token = i,
                            !.wanted = IF named[i] = r.name THEN i ELSE r.wanted,
                            !.pc = IF r.page # {i} THEN "set"
                                   ELSE IF r.more THEN "list" ELSE "check"]
  <2>2. call' = [call EXCEPT ![c] = s]
    BY <2>1, Zenon DEF TypeOK
  <2>3. r \in Calls /\ GoodCall(r) /\ Progress(r)
    BY DEF TypeOK, CacheInv
  <2>4. s \in Calls /\ GoodCall(s) /\ Progress(s)
    BY <2>1, <2>3, SetGood
  <2>5. call' \in [Callers -> Calls] /\ \A d \in Callers : GoodCall(call[d])' /\ Progress(call[d])'
    <3> HIDE DEF s
    <3> QED BY <2>1, <2>2, <2>4, OneCall
  <2>6. i \in Known /\ named[i] \in Names
    BY <2>1, <2>3 DEF GoodCall
  <2>7. cache' \in [Names -> Ids \cup {NoId}] /\ GoodCache'
    BY <2>1, <2>6 DEF TypeOK, CacheInv, GoodCache, Known
  <2> QED BY <2>1, <2>5, <2>7 DEF TypeOK, CacheInv
<1>9. ASSUME NEW c \in Callers, Return(c) PROVE TypeOK' /\ CacheInv'
  <2>1. \E s \in Calls : call' = [call EXCEPT ![c] = s] /\ GoodCall(s) /\ Progress(s)
    BY <1>9, AnswerGood DEF CacheInv
  <2>2. UNCHANGED <<named, live, cache, loadErrer, faults>>
    BY <1>9 DEF Return
  <2>3. call' \in [Callers -> Calls] /\ \A d \in Callers : GoodCall(call[d])' /\ Progress(call[d])'
    BY <2>1, <2>2, OneCall
  <2> QED BY <2>2, <2>3 DEF TypeOK, CacheInv, GoodCache, Known
<1> QED BY <1>1, <1>2, <1>3, <1>4, <1>5, <1>6, <1>7, <1>8, <1>9 DEF Next, Continue

LEMMA InitInv == Init => TypeOK /\ CacheInv
<1> SUFFICES ASSUME Init PROVE TypeOK /\ CacheInv
  OBVIOUS
<1>1. PICK n \in Names : call = [c \in Callers |-> NewCall(n, "idle", NoId)]
  BY DEF Init
<1>2. NewCall(n, "idle", NoId) \in Calls
  BY DEF Init, NewCall, Calls, NoId
<1>3. TypeOK
  <2>1. call \in [Callers -> Calls]
    BY <1>1, <1>2
  <2>2. named \in Seq(Names) /\ Len(named) = 0 /\ live = {}
    BY DEF Init
  <2>3. /\ cache \in [Names -> Ids \cup {NoId}] /\ loadErrer \in BOOLEAN
        /\ faults \in 0 .. MaxFaults
    <3>1. cache \in [Names -> Ids \cup {NoId}] /\ loadErrer \in BOOLEAN
      BY DEF Init
    <3>2. faults = 0 /\ MaxFaults \in Nat
      BY ConstantsAssumption DEF ConstantsAssumption, Init
    <3> QED BY <3>1, <3>2
  <2> QED BY <2>1, <2>2, <2>3, ConstantsAssumption DEF ConstantsAssumption, TypeOK
<1>4. ASSUME NEW c \in Callers PROVE GoodCall(call[c]) /\ Progress(call[c])
  BY <1>1 DEF Init, NewCall, GoodCall, Progress, NoId
<1> QED BY <1>3, <1>4 DEF Init, CacheInv, GoodCache

\* Type correctness of the cache, its loads and the calls of Get.
THEOREM StoreIDCacheTypeCorrect == Spec => []TypeOK
<1>1. TypeOK /\ CacheInv /\ [Next]_vars => (TypeOK /\ CacheInv)'
  BY NextInv
<1> QED BY <1>1, InitInv, PTL DEF Spec

\* The cache and Get give out ids of stores of the name they are asked for only.
THEOREM IdsBelongCorrect == Spec => []IdsBelongToNames
<1>1. TypeOK /\ CacheInv /\ [Next]_vars => (TypeOK /\ CacheInv)'
  BY NextInv
<1>2. CacheInv => IdsBelongToNames
  BY DEF CacheInv, GoodCache, GoodCall, IdsBelongToNames
<1> QED BY <1>1, <1>2, InitInv, PTL DEF Spec

\* However many pages there are, and whatever is created and deleted between two
\* of them, "not found" is never said of a store that was there all along.
THEOREM NotFoundCorrect == Spec => []NotFoundIsTrue
<1>1. TypeOK /\ CacheInv /\ [Next]_vars => (TypeOK /\ CacheInv)'
  BY NextInv
<1>2. CacheInv => NotFoundIsTrue
  BY DEF CacheInv, Progress, NotFoundIsTrue
<1> QED BY <1>1, <1>2, InitInv, PTL DEF Spec
=============================================================================
