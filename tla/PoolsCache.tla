----------------------------- MODULE PoolsCache -----------------------------
(***************************************************************************)
(* The cache of the pools of each token pair that the Balancer, Balancer   *)
(* V2 and Cream sources keep (class PoolsCache and its subclasses).        *)
(*                                                                         *)
(* Three writers share an entry: calls of getFreshPoolsForPairAsync, each  *)
(* with a fetch of its own that outlives the timeout of the call, and the  *)
(* loader of the top pools, at the start and at every reload.  The sampler *)
(* reads entries whatever their age.                                       *)
(*                                                                         *)
(* The subgraph is external.  It may answer late or never, and answers     *)
(* arrive in any order.  The pools of an answer are a record of the time   *)
(* asOf that the subgraph speaks of and the count of its pools; count 0 is *)
(* also what a failed request or a malformed pool leaves.  Time is counted *)
(* in units of Timeout, and the clock only goes forward.                   *)
(***************************************************************************)
EXTENDS Integers

CONSTANTS
  Pairs,        \* ordered token pairs, the keys of the cache
  Calls,        \* calls of getFreshPoolsForPairAsync
  CacheTime,    \* _cacheTimeMs
  Timeout,      \* _timeoutMs
  HasLoader,    \* FALSE for Cream, which loads no top pools
  ReloadTime,   \* the interval of _loadTopPools
  Counts,       \* how many pools an answer may hold, 0 included
  MaxPools,     \* BALANCER_MAX_POOLS_FETCHED
  EndOfTime     \* bound of the clock

ASSUME TimesAssumption ==
  /\ CacheTime \in Nat /\ Timeout \in Nat /\ EndOfTime \in Nat
  /\ ReloadTime \in Nat \ {0} /\ HasLoader \in BOOLEAN

ASSUME PairsAssumption == Pairs # {}

ASSUME CountsAssumption == Counts \subseteq Nat /\ 0 \in Counts /\ MaxPools \in Nat

VARIABLES
  now,     \* Date.now()
  cache,   \* [pair -> its entry, or NoEntry]
  calls,   \* [call -> its progress]
  loads    \* start times of the requests of _loadTopPools without an answer

vars == <<now, cache, calls, loads>>

-----------------------------------------------------------------------------
Times == 0..EndOfTime

Pools == [asOf : Times, count : Nat]

\* What the timeout of a call resolves it with: an empty list of no time.
NoPools == [asOf |-> -1, count |-> 0]

Entry(pools) == [pools |-> pools, expiresAt |-> now + CacheTime]

\* The pools that a fetch keeps of an answer.
Kept(asOf, count) ==
  [asOf |-> asOf, count |-> IF count > MaxPools THEN MaxPools ELSE count]

\* An entry that expired before any time is none.
NoEntry == [pools |-> NoPools, expiresAt |-> -1]

Entries == [pools : Pools, expiresAt : Nat] \union {NoEntry}

IsExpired(entry) == now >= entry.expiresAt

\* isFresh, and getCachedPoolAddressesForPair for who heeds the expiry.
IsFresh(pair) == cache[pair] # NoEntry /\ ~IsExpired(cache[pair])

\* getCachedPoolAddressesForPair as the sampler calls it: the expiry is ignored
\* and a pair without an entry has no pools.
PoolsToSample(pair) == cache[pair].pools

-----------------------------------------------------------------------------
NewCall == [state |-> "new", pair |-> CHOOSE p \in Pairs : TRUE, start |-> 0,
            fetching |-> FALSE, fetched |-> FALSE, result |-> NoPools]

Init ==
  /\ now = 0
  /\ cache = [p \in Pairs |-> NoEntry]
  /\ calls = [c \in Calls |-> NewCall]
  /\ loads = IF HasLoader THEN {0} ELSE {}

\* The test of _getAndSaveFreshPoolsForPairAsync.
MustFetch(pair) == cache[pair] = NoEntry \/ cache[pair].expiresAt >= now

\* A call starts the timer of its race.  Without a fetch it resolves before the
\* timer can fire.
GetFresh(c, pair) ==
  /\ calls[c].state = "new"
  /\ now + Timeout <= EndOfTime
  /\ LET call == [calls[c] EXCEPT !.pair = pair, !.start = now]
     IN  calls' = [calls EXCEPT ![c] =
           IF MustFetch(pair)
           THEN [call EXCEPT !.state = "racing", !.fetching = TRUE]
           ELSE [call EXCEPT !.state = "resolved", !.result = cache[pair].pools]]
  /\ UNCHANGED <<now, cache, loads>>

\* Mutation of Deliver: the expiry counts from the start of the call.
DeliverStale(c) ==
  /\ calls[c].fetching
  /\ \E count \in Counts, asOf \in calls[c].start..now :
       LET pools == Kept(asOf, count)
       IN  /\ cache' = [cache EXCEPT ![calls[c].pair] =
                          [pools |-> pools, expiresAt |-> calls[c].start + CacheTime]]
           /\ calls' = [calls EXCEPT ![c].fetching = FALSE,
                                     ![c].fetched  = calls[c].state = "racing",
                                     ![c].state    = "resolved",
                                     ![c].result   = IF calls[c].state = "racing"
                                                     THEN pools ELSE @]
  /\ UNCHANGED <<now, loads>>

\* Mutation of Deliver: the call is answered with the entry from before its fetch.
DeliverPrevious(c) ==
  /\ calls[c].fetching
  /\ \E count \in Counts, asOf \in calls[c].start..now :
       LET pools == Kept(asOf, count)
       IN  /\ cache' = [cache EXCEPT ![calls[c].pair] = Entry(pools)]
           /\ calls' = [calls EXCEPT ![c].fetching = FALSE,
                                     ![c].fetched  = calls[c].state = "racing",
                                     ![c].state    = "resolved",
                                     ![c].result   = IF calls[c].state = "racing"
                                                     THEN cache[calls[c].pair].pools ELSE @]
  /\ UNCHANGED <<now, loads>>

\* The fetch of a call ends, in time or not: its pools are saved, and they are
\* the result of the call unless the timeout was faster.
Deliver(c) ==
  /\ calls[c].fetching
  /\ \E count \in Counts, asOf \in calls[c].start..now :
       LET pools == Kept(asOf, count)
       IN  /\ cache' = [cache EXCEPT ![calls[c].pair] = Entry(pools)]
           /\ calls' = [calls EXCEPT ![c].fetching = FALSE,
                                     ![c].fetched  = calls[c].state = "racing",
                                     ![c].state    = "resolved",
                                     ![c].result   = IF calls[c].state = "racing"
                                                     THEN pools ELSE @]
  /\ UNCHANGED <<now, loads>>

\* Mutation of TimeOut: the timer only fires for a call whose fetch has ended.
TimeOutOfFetched(c) ==
  /\ calls[c].state = "racing" /\ ~calls[c].fetching
  /\ now >= calls[c].start + Timeout
  /\ calls' = [calls EXCEPT ![c].state = "resolved"]
  /\ UNCHANGED <<now, cache, loads>>

\* The timer wins the race.  The fetch goes on.
TimeOut(c) ==
  /\ calls[c].state = "racing"
  /\ now >= calls[c].start + Timeout
  /\ calls' = [calls EXCEPT ![c].state = "resolved"]
  /\ UNCHANGED <<now, cache, loads>>

\* Mutation of LoadTopPools: a pair without top pools is written, too.
ReloadAllPairs ==
  /\ \E start \in loads, found \in [Pairs -> Counts] :
       \E asOf \in start..now :
         /\ loads' = loads \ {start}
         /\ cache' = [p \in Pairs |->
              IF found[p] = 0 THEN Entry([asOf |-> asOf, count |-> 0])
              ELSE Entry([asOf |-> asOf, count |-> found[p]])]
  /\ UNCHANGED <<now, calls>>

\* Mutation of LoadTopPools: a pair without top pools is written before its list is.
ReloadFromNothing ==
  /\ \E start \in loads, found \in [Pairs -> Counts] :
       \E asOf \in start..now :
         /\ loads' = loads \ {start}
         /\ cache' = [p \in Pairs |->
              IF found[p] = 0 THEN Entry(NoPools)
              ELSE Entry([asOf |-> asOf, count |-> found[p]])]
  /\ UNCHANGED <<now, calls>>

\* The top pools arrive.  All the pairs they hold are written in one go, without
\* a limit on the pools of a pair.  A pair they do not hold keeps its entry, and
\* a failed request holds none.
LoadTopPools ==
  /\ \E start \in loads, found \in [Pairs -> Counts] :
       \E asOf \in start..now :
         /\ loads' = loads \ {start}
         /\ cache' = [p \in Pairs |->
              IF found[p] = 0 THEN cache[p]
              ELSE Entry([asOf |-> asOf, count |-> found[p]])]
  /\ UNCHANGED <<now, calls>>

\* Time passes, and at every multiple of ReloadTime the interval timer fires.
Tick ==
  /\ now < EndOfTime
  /\ now' = now + 1
  /\ loads' = IF HasLoader /\ now' % ReloadTime = 0
              THEN loads \union {now'} ELSE loads
  /\ UNCHANGED <<cache, calls>>

\* The end of the bounded clock.
TheEnd == now = EndOfTime /\ UNCHANGED vars

CallNext(c) == (\E p \in Pairs : GetFresh(c, p)) \/ Deliver(c) \/ TimeOut(c)

Next == (\E c \in Calls : CallNext(c)) \/ LoadTopPools \/ Tick \/ TheEnd

Spec == Init /\ [][Next]_vars

\* Time passes and timers fire.  Nothing is assumed of the subgraph.
FairSpec == Spec /\ WF_vars(Tick) /\ \A c \in Calls : WF_vars(TimeOut(c))

-----------------------------------------------------------------------------
(* Properties *)

CallRecords == [state : {"new", "racing", "resolved"}, pair : Pairs, start : Times,
                fetching : BOOLEAN, fetched : BOOLEAN, result : Pools \union {NoPools}]

\* The variables hold what their declarations say.
TypeOK ==
  /\ now \in Times
  /\ cache \in [Pairs -> Entries]
  /\ calls \in [Calls -> CallRecords]
  /\ loads \subseteq Times

\* However the answers of concurrent fetches and of the loader overtake each
\* other, no write makes an entry expire earlier than the entry it replaces: the
\* expiry is taken after the await of the fetch.
ExpiryNeverRegresses ==
  [][\A p \in Pairs : cache'[p].expiresAt >= cache[p].expiresAt]_vars

\* A call that its own fetch answered in time gets pools that the subgraph listed
\* after the call was made, and no more than the limit, although others write
\* the same entry while it waits.
AnsweredByOwnFetch ==
  \A c \in Calls :
    calls[c].fetched => /\ calls[c].result.asOf >= calls[c].start
                        /\ calls[c].result.count <= MaxPools

\* A reload of the top pools, failed or partial, takes no pools from the sampler:
\* only the answer to a fetch can leave a pair without any.
ReloadKeepsPools ==
  [][\A p \in Pairs :
       PoolsToSample(p).count > 0 /\ PoolsToSample(p)'.count = 0
         => \E c \in Calls : calls[c].fetching /\ ~calls'[c].fetching]_vars

\* A call is resolved even when the subgraph never answers.
EveryCallResolves ==
  \A c \in Calls : calls[c].state = "racing" ~> calls[c].state = "resolved"

\* A call that makes no fetch finds an entry that is still fresh.
ServedFromCacheIsFresh ==
  [][\A c \in Calls :
       calls[c].state = "new" /\ calls'[c].state = "resolved"
         => IsFresh(calls'[c].pair)]_vars
=============================================================================
