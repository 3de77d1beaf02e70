-------------------------- MODULE PoolsCacheProofs --------------------------
(***************************************************************************)
(* What holds of the pools cache for every set of pairs and calls and for  *)
(* all times.  TimesBounded is what ExpiryNeverRegresses needs: an entry   *)
(* never expires later than one written now would.                         *)
(***************************************************************************)
EXTENDS PoolsCache, TLAPS

\* No call starts in the future, and no entry outlives one that is written now.
TimesBounded ==
  /\ \A c \in Calls : calls[c].start <= now
  /\ \A start \in loads : start <= now
  /\ \A p \in Pairs : cache[p].expiresAt <= now + CacheTime

\* A call that is not made yet has fetched nothing.
NewCallsAreIdle ==
  \A c \in Calls : calls[c].state = "new" => ~calls[c].fetching /\ ~calls[c].fetched

CacheInv == TypeOK /\ TimesBounded /\ NewCallsAreIdle /\ AnsweredByOwnFetch

USE TimesAssumption, CountsAssumption

\* What a fetch keeps of an answer is within the limit.
LEMMA KeptPools ==
  ASSUME NEW asOf \in Times, NEW count \in Counts
  PROVE  /\ Kept(asOf, count) \in Pools
         /\ Kept(asOf, count).asOf = asOf
         /\ Kept(asOf, count).count <= MaxPools
  BY DEF Kept, Pools

\* An entry that is written now.
LEMMA EntryType ==
  ASSUME now \in Times, NEW pools \in Pools
  PROVE  Entry(pools) \in Entries /\ Entry(pools).expiresAt = now + CacheTime
  BY DEF Entry, Entries, Times

LEMMA EntryExpires ==
  ASSUME NEW entry \in Entries
  PROVE  entry.expiresAt \in Int /\ entry.pools \in Pools \union {NoPools}
  BY DEF Entries, NoEntry

-----------------------------------------------------------------------------
LEMMA InitCacheInv ==
  ASSUME Init
  PROVE  CacheInv
  <1>. DEFINE pair == CHOOSE p \in Pairs : TRUE
  <1>1. pair \in Pairs
    BY PairsAssumption
  <1>. HIDE DEF pair
  <1>2. NewCall \in CallRecords /\ NewCall.start = 0 /\ ~NewCall.fetched
    BY <1>1 DEF NewCall, CallRecords, Times, pair
  <1>3. NoEntry \in Entries /\ NoEntry.expiresAt = -1
    BY DEF NoEntry, Entries
  <1>4. TypeOK
    BY <1>2, <1>3 DEF Init, TypeOK, Times
  <1>5. TimesBounded
    BY <1>2, <1>3 DEF Init, TimesBounded
  <1>6. AnsweredByOwnFetch
    BY <1>2 DEF Init, AnsweredByOwnFetch
  <1>7. NewCallsAreIdle
    BY DEF Init, NewCallsAreIdle, NewCall
  <1>8. QED BY <1>4, <1>5, <1>6, <1>7 DEF CacheInv

\* A call changes no times but its own start.
LEMMA GetFreshInv ==
  ASSUME CacheInv, NEW c \in Calls, NEW pair \in Pairs, GetFresh(c, pair)
  PROVE  CacheInv'
  <1>. USE DEF CacheInv
  <1>1. calls[c] \in CallRecords /\ cache[pair].pools \in Pools \union {NoPools}
    BY EntryExpires DEF TypeOK
  <1>2. /\ calls'[c] \in CallRecords
        /\ calls'[c].start = now
        /\ calls'[c].fetched = calls[c].fetched
    BY <1>1 DEF GetFresh, TypeOK, CallRecords, Times
  <1>3. \A d \in Calls \ {c} : calls'[d] = calls[d]
    BY DEF GetFresh, TypeOK
  <1>4. TypeOK'
    BY <1>2, <1>3 DEF GetFresh, TypeOK
  <1>5. TimesBounded'
    BY <1>2, <1>3 DEF GetFresh, TypeOK, TimesBounded, Times
  <1>6. ~calls[c].fetched
    BY DEF GetFresh, NewCallsAreIdle
  <1>7. AnsweredByOwnFetch'
    BY <1>2, <1>3, <1>6 DEF AnsweredByOwnFetch
  <1>8. calls'[c].state # "new"
    BY <1>1 DEF GetFresh, TypeOK
  <1>9. NewCallsAreIdle'
    BY <1>3, <1>8 DEF NewCallsAreIdle
  <1>10. QED BY <1>4, <1>5, <1>7, <1>9

\* A fetch that ends writes an entry that expires last, and answers its own call
\* with what it wrote.
LEMMA DeliverInv ==
  ASSUME CacheInv, NEW c \in Calls, Deliver(c)
  PROVE  /\ CacheInv'
         /\ \A p \in Pairs : cache'[p].expiresAt >= cache[p].expiresAt
  <1>. USE DEF CacheInv
  <1>. DEFINE pair == calls[c].pair
  <1>1. PICK count \in Counts, asOf \in calls[c].start..now :
          /\ cache' = [cache EXCEPT ![pair] = Entry(Kept(asOf, count))]
          /\ calls' = [calls EXCEPT ![c].fetching = FALSE,
                                    ![c].fetched  = calls[c].state = "racing",
                                    ![c].state    = "resolved",
                                    ![c].result   = IF calls[c].state = "racing"
                                                    THEN Kept(asOf, count) ELSE @]
    BY DEF Deliver, Kept
  <1>2. calls[c] \in CallRecords /\ now \in Times
    BY DEF TypeOK
  <1>3. asOf \in Times /\ asOf >= calls[c].start
    BY <1>2 DEF CallRecords, Times
  <1>4. /\ Kept(asOf, count) \in Pools
        /\ Kept(asOf, count).asOf >= calls[c].start
        /\ Kept(asOf, count).count <= MaxPools
    BY <1>3, KeptPools
  <1>5. /\ Entry(Kept(asOf, count)) \in Entries
        /\ Entry(Kept(asOf, count)).expiresAt = now + CacheTime
    BY <1>2, <1>4, EntryType
  <1>6. pair \in Pairs
    BY <1>2 DEF CallRecords
  <1>7. calls'[c] =
          [calls[c] EXCEPT !.fetching = FALSE,
                           !.fetched  = calls[c].state = "racing",
                           !.state    = "resolved",
                           !.result   = IF calls[c].state = "racing"
                                        THEN Kept(asOf, count) ELSE @]
    BY <1>1, <1>2 DEF TypeOK, CallRecords
  <1>8. /\ calls'[c] \in CallRecords
        /\ calls'[c].start = calls[c].start
        /\ calls'[c].state = "resolved"
        /\ calls'[c].fetched => calls'[c].result = Kept(asOf, count)
    BY <1>2, <1>4, <1>7 DEF CallRecords
  <1>9. \A d \in Calls \ {c} : calls'[d] = calls[d]
    BY <1>1 DEF TypeOK
  <1>10. /\ cache'[pair] = Entry(Kept(asOf, count))
         /\ \A p \in Pairs \ {pair} : cache'[p] = cache[p]
    BY <1>1, <1>6 DEF TypeOK
  <1>. HIDE DEF pair
  <1>11. now' = now /\ loads' = loads
    BY DEF Deliver
  <1>12. cache' \in [Pairs -> Entries] /\ calls' \in [Calls -> CallRecords]
    <2>1. cache' \in [Pairs -> Entries]
      BY <1>1, <1>5 DEF TypeOK
    <2>2. calls' = [d \in Calls |-> calls'[d]]
      BY <1>1 DEF TypeOK
    <2>3. \A d \in Calls : calls'[d] \in CallRecords
      BY <1>8, <1>9 DEF TypeOK
    <2>4. calls' \in [Calls -> CallRecords]
      BY <2>2, <2>3
    <2>5. QED BY <2>1, <2>4
  <1>13. TypeOK'
    BY <1>11, <1>12 DEF TypeOK, Times
  <1>14. TimesBounded'
    <2>1. \A d \in Calls : calls'[d].start <= now
      BY <1>8, <1>9 DEF TimesBounded
    <2>2. \A p \in Pairs : cache'[p].expiresAt <= now + CacheTime
      BY <1>2, <1>5, <1>10 DEF TimesBounded, Times
    <2>3. QED BY <1>11, <2>1, <2>2 DEF TimesBounded
  <1>15. AnsweredByOwnFetch'
    BY <1>4, <1>8, <1>9 DEF AnsweredByOwnFetch
  <1>16. NewCallsAreIdle'
    BY <1>8, <1>9 DEF NewCallsAreIdle
  <1>17. \A p \in Pairs : cache'[p].expiresAt >= cache[p].expiresAt
    <2>1. SUFFICES ASSUME NEW p \in Pairs
                   PROVE  cache'[p].expiresAt >= cache[p].expiresAt
      OBVIOUS
    <2>2. cache[p].expiresAt \in Int /\ cache[p].expiresAt <= now + CacheTime
      BY EntryExpires DEF TypeOK, TimesBounded
    <2>3. QED BY <1>5, <1>10, <2>2
  <1>18. QED BY <1>13, <1>14, <1>15, <1>16, <1>17

\* The timer changes only the state of its call.
LEMMA TimeOutInv ==
  ASSUME CacheInv, NEW c \in Calls, TimeOut(c)
  PROVE  CacheInv'
  <1>. USE DEF CacheInv
  <1>1. calls[c] \in CallRecords
    BY DEF TypeOK
  <1>2. /\ calls'[c] = [calls[c] EXCEPT !.state = "resolved"]
        /\ \A d \in Calls \ {c} : calls'[d] = calls[d]
    BY DEF TimeOut, TypeOK
  <1>3. /\ calls'[c] \in CallRecords
        /\ calls'[c].state = "resolved" /\ calls'[c].start = calls[c].start
        /\ calls'[c].fetched = calls[c].fetched /\ calls'[c].result = calls[c].result
    BY <1>1, <1>2 DEF CallRecords
  <1>4. TypeOK'
    BY <1>2, <1>3 DEF TimeOut, TypeOK
  <1>5. TimesBounded'
    BY <1>2, <1>3 DEF TimeOut, TimesBounded
  <1>6. NewCallsAreIdle' /\ AnsweredByOwnFetch'
    BY <1>2, <1>3 DEF NewCallsAreIdle, AnsweredByOwnFetch
  <1>7. QED BY <1>4, <1>5, <1>6

\* A reload writes entries that expire last, and no empty ones.
LEMMA LoadTopPoolsInv ==
  ASSUME CacheInv, LoadTopPools
  PROVE  /\ CacheInv'
         /\ \A p \in Pairs : cache'[p].expiresAt >= cache[p].expiresAt
  <1>. USE DEF CacheInv
  <1>. PICK start \in loads, found \in [Pairs -> Counts] :
         \E asOf \in start..now :
           /\ loads' = loads \ {start}
           /\ cache' = [p \in Pairs |->
                IF found[p] = 0 THEN cache[p]
                ELSE Entry([asOf |-> asOf, count |-> found[p]])]
    BY DEF LoadTopPools
  <1>1. PICK asOf \in start..now :
          /\ loads' = loads \ {start}
          /\ cache' = [p \in Pairs |->
               IF found[p] = 0 THEN cache[p]
               ELSE Entry([asOf |-> asOf, count |-> found[p]])]
    OBVIOUS
  <1>2. now' = now /\ calls' = calls /\ now \in Times
    BY DEF LoadTopPools, TypeOK
  <1>3. asOf \in Times
    BY <1>1 DEF TypeOK, Times
  <1>4. ASSUME NEW p \in Pairs
        PROVE  /\ cache'[p] \in Entries
               /\ cache'[p].expiresAt <= now + CacheTime
               /\ cache'[p].expiresAt >= cache[p].expiresAt
    <2>1. [asOf |-> asOf, count |-> found[p]] \in Pools
      BY <1>1, <1>3 DEF Pools
    <2>2. /\ Entry([asOf |-> asOf, count |-> found[p]]) \in Entries
          /\ Entry([asOf |-> asOf, count |-> found[p]]).expiresAt = now + CacheTime
      BY <1>2, <2>1, EntryType
    <2>3. /\ cache[p] \in Entries /\ cache[p].expiresAt \in Int
          /\ cache[p].expiresAt <= now + CacheTime
      BY EntryExpires DEF TypeOK, TimesBounded
    <2>4. QED BY <1>1, <1>2, <2>2, <2>3 DEF Times
  <1>5. TypeOK'
    BY <1>1, <1>2, <1>4 DEF TypeOK
  <1>6. TimesBounded'
    BY <1>1, <1>2, <1>4 DEF TimesBounded
  <1>7. NewCallsAreIdle' /\ AnsweredByOwnFetch'
    BY <1>2 DEF NewCallsAreIdle, AnsweredByOwnFetch
  <1>8. QED BY <1>4, <1>5, <1>6, <1>7

LEMMA TickInv ==
  ASSUME CacheInv, Tick
  PROVE  CacheInv'
  <1>. USE DEF CacheInv
  <1>1. now' = now + 1 /\ now' \in Times /\ loads' \subseteq loads \union {now'}
    BY DEF Tick, TypeOK, Times
  <1>2. cache' = cache /\ calls' = calls
    BY DEF Tick
  <1>3. TypeOK'
    BY <1>1, <1>2 DEF TypeOK
  <1>4. TimesBounded'
    <2>1. \A c \in Calls : calls[c].start \in Int
      BY DEF TypeOK, CallRecords, Times
    <2>2. \A p \in Pairs : cache[p].expiresAt \in Int
      BY EntryExpires DEF TypeOK
    <2>3. \A start \in loads : start \in Int
      BY DEF TypeOK, Times
    <2>4. QED BY <1>1, <1>2, <2>1, <2>2, <2>3 DEF TimesBounded, TypeOK, Times
  <1>5. NewCallsAreIdle' /\ AnsweredByOwnFetch'
    BY <1>2 DEF NewCallsAreIdle, AnsweredByOwnFetch
  <1>6. QED BY <1>3, <1>4, <1>5

LEMMA StandStill ==
  ASSUME CacheInv, UNCHANGED vars
  PROVE  CacheInv'
  BY DEF CacheInv, TypeOK, TimesBounded, NewCallsAreIdle, AnsweredByOwnFetch, vars

-----------------------------------------------------------------------------
\* Every step keeps the invariant and lets no entry expire earlier.
LEMMA CacheStep ==
  ASSUME CacheInv, [Next]_vars
  PROVE  /\ CacheInv'
         /\ \A p \in Pairs : cache'[p].expiresAt >= cache[p].expiresAt
  <1>. DEFINE Later == \A p \in Pairs : cache'[p].expiresAt >= cache[p].expiresAt
  <1>1. ASSUME cache' = cache PROVE Later
    BY <1>1, EntryExpires DEF CacheInv, TypeOK
  <1>2. CASE \E c \in Calls, p \in Pairs : GetFresh(c, p)
    BY <1>1, <1>2, GetFreshInv DEF GetFresh
  <1>3. CASE \E c \in Calls : Deliver(c)
    BY <1>3, DeliverInv
  <1>4. CASE \E c \in Calls : TimeOut(c)
    BY <1>1, <1>4, TimeOutInv DEF TimeOut
  <1>5. CASE LoadTopPools
    BY <1>5, LoadTopPoolsInv
  <1>6. CASE Tick
    BY <1>1, <1>6, TickInv DEF Tick
  <1>7. CASE TheEnd \/ UNCHANGED vars
    BY <1>1, <1>7, StandStill DEF TheEnd, vars
  <1>8. QED BY <1>2, <1>3, <1>4, <1>5, <1>6, <1>7 DEF Next, CallNext

\* The inductive invariant of the cache.
THEOREM CacheInvariant == Spec => []CacheInv
  <1>1. Init => CacheInv
    BY InitCacheInv
  <1>2. CacheInv /\ [Next]_vars => CacheInv'
    BY CacheStep
  <1>3. QED BY <1>1, <1>2, PTL DEF Spec

\* Every variable of the cache keeps its type.
THEOREM CacheTypeCorrect == Spec => []TypeOK
  BY CacheInvariant, PTL DEF CacheInv

\* A call that its fetch answered in time gets pools listed after the call was
\* made, whoever else writes the entry while it waits.
THEOREM OwnAnswers == Spec => []AnsweredByOwnFetch
  BY CacheInvariant, PTL DEF CacheInv

\* No write of the three writers makes an entry expire earlier than the one it
\* replaces, in whatever order their answers arrive.
THEOREM ExpiryMonotone == Spec => ExpiryNeverRegresses
  <1>1. CacheInv /\ [Next]_vars =>
          [\A p \in Pairs : cache'[p].expiresAt >= cache[p].expiresAt]_vars
    BY CacheStep
  <1>2. QED BY <1>1, CacheInvariant, PTL DEF Spec, ExpiryNeverRegresses
=============================================================================
