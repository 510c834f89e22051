------------------------------- MODULE LruCache --------------------------------
(***************************************************************************)
(* The two caches an agent can have: InMemoryLruCache, and                 *)
(* SingleContextStorageLruCache, which keeps its entries in one record of  *)
(* the storage as well and loads them when it is first used.  Callers use  *)
(* the cache at once; the process may restart, with another limit.         *)
(*                                                                         *)
(* Granularity: a step ends where a call awaits the storage, or the        *)
(* promise of a function that does.  Time is the flag of an entry that     *)
(* says it has expired, in every copy of the entry.                        *)
(***************************************************************************)
EXTENDS Naturals, Sequences, SequencesExt, Filter

CONSTANTS
  CacheCallers,   \* calls that can be under way at once
  CacheKeys, CacheValues,
  CacheContexts,  \* contextCorrelationIds of the callers
  Limits,         \* the limits the cache may be configured with
  MaxCacheCalls, MaxRestarts,  \* bounds: calls and restarts
  Null            \* "null" / "undefined"

ASSUME CacheAssumption == Limits \subseteq Nat \ {0} /\ Null \notin CacheCallers

VARIABLES
  persistent,   \* the cache is a SingleContextStorageLruCache
  limit,
  lruMaps,      \* lruMaps[c]: the map that caller c made, entries oldest first
  liveMap,      \* _cache: whose map it is
  cacheRecord,  \* entries in the storage, or Null without a record
  boundTo,      \* _contextCorrelationId
  cacheCalls,   \* cacheCalls[c]: how far the call of c is, see CacheCall
  latest,       \* latest[k]: value of the last set of k, or Null after its removal
  lastHit,      \* what the last get that hit has returned
  disturbed,    \* calls have met while loading or writing, or a restart cut one
  cacheCallCount, restarts

cacheVars == <<persistent, limit, lruMaps, liveMap, cacheRecord, boundTo, cacheCalls, latest,
               lastHit, disturbed, cacheCallCount, restarts>>

-------------------------------------------------------------------------------
(* LRUMap *)

Entry(key, value) == [key |-> key, value |-> value, expired |-> FALSE]

Found(map, key) == {e \in ToSet(map) : e.key = key}

WithoutKey(map, key) == Among(map, ToSet(map) \ Found(map, key))

\* set: the newest entry, for which the oldest goes when the map is full.
Put(map, entry) ==
  LET others == WithoutKey(map, entry.key)
  IN  Append(IF Len(others) = limit THEN Tail(others) ELSE others, entry)

\* get makes an entry the newest.
Touched(map, key) == WithoutKey(map, key) \o Among(map, Found(map, key))

RemoveExpiredItems(map) == Among(map, {e \in ToSet(map) : ~e.expired})

-------------------------------------------------------------------------------
(* Calls *)

NoCall == [stage |-> "none", op |-> Null, key |-> Null, value |-> Null, map |-> Null,
           snapshot |-> <<>>]

InStage(c, stage) == cacheCalls[c].stage = stage

Step(c, call) == cacheCalls' = [cacheCalls EXCEPT ![c] = call]

GoTo(c, stage) == Step(c, [cacheCalls[c] EXCEPT !.stage = stage])

\* assertContextCorrelationId: the context of the first call is that of all.
\* getCache loads the map when there is none.
CallCache(c, context, op, key, value) ==
  /\ InStage(c, "none") /\ cacheCallCount < MaxCacheCalls
  /\ persistent => boundTo \in {Null, context}
  /\ op # "set" => value = Null
  /\ boundTo' = IF persistent THEN context ELSE boundTo
  /\ Step(c, [NoCall EXCEPT !.stage = IF liveMap = Null THEN "find" ELSE "operate",
                            !.op = op, !.key = key, !.value = value, !.map = liveMap])
  /\ cacheCallCount' = cacheCallCount + 1
  /\ UNCHANGED <<persistent, limit, lruMaps, liveMap, cacheRecord, latest, lastHit, disturbed,
                 restarts>>

\* fetchCacheRecord: an empty record is saved when there is none; when another call has
\* saved one meanwhile, that one is read.
FindCacheRecord(c) ==
  /\ \/ /\ InStage(c, "find") /\ cacheRecord = Null
        /\ GoTo(c, "save") /\ UNCHANGED cacheRecord
     \/ /\ InStage(c, "save") /\ cacheRecord = Null
        /\ cacheRecord' = <<>>
        /\ Step(c, [cacheCalls[c] EXCEPT !.stage = "install", !.snapshot = <<>>])
     \/ /\ InStage(c, "find") \/ InStage(c, "save")
        /\ cacheRecord # Null
        /\ Step(c, [cacheCalls[c] EXCEPT !.stage = "install", !.snapshot = cacheRecord])
        /\ UNCHANGED cacheRecord
  /\ UNCHANGED <<persistent, limit, lruMaps, liveMap, boundTo, latest, lastHit, disturbed,
                 cacheCallCount, restarts>>

\* lruFromRecord: the map replaces the one that another call has loaded meanwhile, and it
\* throws when the record holds more entries than the limit allows.
InstallMap(c) ==
  /\ InStage(c, "install")
  /\ IF Len(cacheCalls[c].snapshot) > limit
       THEN /\ Step(c, NoCall)
            /\ UNCHANGED <<lruMaps, liveMap, disturbed>>
       ELSE /\ lruMaps' = [lruMaps EXCEPT ![c] = cacheCalls[c].snapshot]
            /\ liveMap' = c
            /\ disturbed' = (disturbed \/ liveMap # Null)
            /\ Step(c, [cacheCalls[c] EXCEPT !.stage = "operate", !.map = c])
  /\ UNCHANGED <<persistent, limit, cacheRecord, boundTo, latest, lastHit, cacheCallCount,
                 restarts>>

\* The map of the call, when what has expired is out of it.
Current(c) == RemoveExpiredItems(lruMaps[cacheCalls[c].map])

NewMap(c, map) == lruMaps' = [lruMaps EXCEPT ![cacheCalls[c].map] = map]

AfterWrite(c) == IF persistent THEN GoTo(c, "persist") ELSE Step(c, NoCall)

GetItem(c) ==
  LET key == cacheCalls[c].key IN
  /\ InStage(c, "operate") /\ cacheCalls[c].op = "get"
  /\ NewMap(c, Touched(Current(c), key))
  /\ lastHit' = IF Found(Current(c), key) = {} THEN lastHit
                ELSE [entry |-> CHOOSE e \in Found(Current(c), key) : TRUE,
                      latest |-> latest[key]]
  /\ Step(c, NoCall)
  /\ UNCHANGED <<persistent, limit, liveMap, cacheRecord, boundTo, latest, disturbed,
                 cacheCallCount, restarts>>

\* The storage cache looks again whether the item has expired, which it may have since.
GetItemExpires(c) ==
  LET key == cacheCalls[c].key IN
  /\ InStage(c, "operate") /\ cacheCalls[c].op = "get" /\ persistent
  /\ Found(Current(c), key) # {}
  /\ NewMap(c, WithoutKey(Current(c), key))
  /\ AfterWrite(c)
  /\ UNCHANGED <<persistent, limit, liveMap, cacheRecord, boundTo, latest, lastHit, disturbed,
                 cacheCallCount, restarts>>

SetItem(c) ==
  LET call == cacheCalls[c] IN
  /\ InStage(c, "operate") /\ call.op = "set"
  /\ NewMap(c, Put(Current(c), Entry(call.key, call.value)))
  /\ latest' = [latest EXCEPT ![call.key] = call.value]
  /\ AfterWrite(c)
  /\ UNCHANGED <<persistent, limit, liveMap, cacheRecord, boundTo, lastHit, disturbed,
                 cacheCallCount, restarts>>

\* Mutant: the removal is made in memory only.
RemoveItem_NotPersisted(c) ==
  LET call == cacheCalls[c] IN
  /\ InStage(c, "operate") /\ call.op = "remove"
  /\ NewMap(c, WithoutKey(Current(c), call.key))
  /\ latest' = [latest EXCEPT ![call.key] = Null]
  /\ Step(c, NoCall)
  /\ UNCHANGED <<persistent, limit, liveMap, cacheRecord, boundTo, lastHit, disturbed,
                 cacheCallCount, restarts>>

RemoveItem(c) ==
  LET call == cacheCalls[c] IN
  /\ InStage(c, "operate") /\ call.op = "remove"
  /\ NewMap(c, WithoutKey(Current(c), call.key))
  /\ latest' = [latest EXCEPT ![call.key] = Null]
  /\ AfterWrite(c)
  /\ UNCHANGED <<persistent, limit, liveMap, cacheRecord, boundTo, lastHit, disturbed,
                 cacheCallCount, restarts>>

\* persistCache takes the entries of _cache, be it the map of this call or not.  Writes of
\* two calls may reach the storage in either order.
PersistCache(c) ==
  /\ InStage(c, "persist")
  /\ Step(c, [cacheCalls[c] EXCEPT !.stage = "write", !.snapshot = lruMaps[liveMap]])
  /\ disturbed' = (disturbed \/ \E d \in CacheCallers : InStage(d, "write"))
  /\ UNCHANGED <<persistent, limit, lruMaps, liveMap, cacheRecord, boundTo, latest, lastHit,
                 cacheCallCount, restarts>>

WriteCacheRecord(c) ==
  /\ InStage(c, "write")
  /\ cacheRecord' = cacheCalls[c].snapshot
  /\ Step(c, NoCall)
  /\ UNCHANGED <<persistent, limit, lruMaps, liveMap, boundTo, latest, lastHit, disturbed,
                 cacheCallCount, restarts>>

\* Entries of the key that are there now have expired.
Expire(key) ==
  LET Aged(map) == [k \in DOMAIN map |-> [map[k] EXCEPT !.expired = @ \/ map[k].key = key]]
  IN  /\ lruMaps' = [c \in CacheCallers |-> Aged(lruMaps[c])]
      /\ cacheRecord' = IF cacheRecord = Null THEN Null ELSE Aged(cacheRecord)
      /\ cacheCalls' = [c \in CacheCallers |-> [cacheCalls[c] EXCEPT !.snapshot = Aged(@)]]
      /\ UNCHANGED <<persistent, limit, liveMap, boundTo, latest, lastHit, disturbed,
                     cacheCallCount, restarts>>

\* The process starts again, with the limit it is now configured with.
Restart(newLimit) ==
  /\ restarts < MaxRestarts
  /\ limit' = newLimit
  /\ cacheCalls' = [c \in CacheCallers |-> NoCall]
  /\ lruMaps' = [c \in CacheCallers |-> <<>>]
  /\ liveMap' = IF persistent THEN Null ELSE liveMap
  /\ boundTo' = Null
  /\ disturbed' = (disturbed \/ \E c \in CacheCallers : cacheCalls[c].stage \in {"persist", "write"})
  /\ lastHit' = Null
  /\ restarts' = restarts + 1
  /\ UNCHANGED <<persistent, cacheRecord, latest, cacheCallCount>>

-------------------------------------------------------------------------------
CacheInit ==
  /\ persistent \in BOOLEAN
  /\ limit \in Limits
  /\ lruMaps = [c \in CacheCallers |-> <<>>]
  /\ liveMap \in CacheCallers \cup {Null} /\ (persistent <=> liveMap = Null)
  /\ cacheRecord = Null
  /\ boundTo = Null
  /\ cacheCalls = [c \in CacheCallers |-> NoCall]
  /\ latest = [k \in CacheKeys |-> Null]
  /\ lastHit = Null
  /\ disturbed = FALSE
  /\ cacheCallCount = 0 /\ restarts = 0

CacheNext ==
  \/ \E c \in CacheCallers :
       \/ \E context \in CacheContexts, op \in {"get", "set", "remove"}, key \in CacheKeys,
             value \in CacheValues \cup {Null} :
            (op = "set" => value # Null) /\ CallCache(c, context, op, key, value)
       \/ FindCacheRecord(c) \/ InstallMap(c)
       \/ GetItem(c) \/ GetItemExpires(c) \/ SetItem(c) \/ RemoveItem(c)
       \/ PersistCache(c) \/ WriteCacheRecord(c)
  \/ \E key \in CacheKeys : Expire(key)
  \/ \E newLimit \in Limits : Restart(newLimit)

CacheSpec == CacheInit /\ [][CacheNext]_cacheVars

-------------------------------------------------------------------------------
(* Properties *)

\* A get that hits returns the value that was set last, never one that was removed,
\* replaced or lost to a restart, unless calls met while they loaded or wrote the record
\* or the process ended under one; and never one that had expired.
HitsAreCurrent ==
  lastHit # Null =>
    /\ ~lastHit.entry.expired
    /\ lastHit.entry.value = lastHit.latest \/ disturbed
================================================================================
