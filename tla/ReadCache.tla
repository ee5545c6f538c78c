------------------------------ MODULE ReadCache ------------------------------
(***************************************************************************)
(* One key of the read caches (lib/cache.ts): cached() and withCoalescing()*)
(* over a loader that reads the database, the invalidation a writer does   *)
(* after its write (lib/cache-tags.ts), and the Redis lock that lets one    *)
(* caller load.  The lock has a lifetime, carries no owner, and a caller    *)
(* that has waited long enough loads without it.                           *)
(***************************************************************************)
EXTENDS Naturals, FiniteSets

CONSTANTS CcReaders,   \* callers of the cached read
          MaxVersion,  \* bound on the writes to the data behind the key
          MaxPolls     \* polls that find the lock gone before the deadline

ASSUME CcAssumption == {MaxVersion, MaxPolls} \subseteq Nat

VARIABLES version,    \* the data, numbered by its writes
          cacheVal,   \* Redis <key>: {} or {version}
          lockOf,     \* Redis lock:<key> or coalesce:<key>: {} or {the caller that set it}
          writer,     \* a writer: "idle", or between its write and its DEL
          crossedBy,  \* history: a load that overlapped a write
          ran,        \* history: locks that ran out under a loader, or were deleted by another
          ccReq       \* callers: [at, val, held, polls, mode]

ccVars == <<version, cacheVal, lockOf, writer, crossedBy, ran, ccReq>>

CcAt(c, l) == ccReq[c].at = l
CcGo(c, rec) == ccReq' = [ccReq EXCEPT ![c] = rec]
CcStep(c, l) == CcGo(c, [ccReq[c] EXCEPT !.at = l, !.val = 0])
Loaders == {c \in CcReaders : CcAt(c, "load") \/ CcAt(c, "store")}

CcInit ==
  /\ version = 0 /\ cacheVal = {} /\ lockOf = {} /\ writer = "idle"
  /\ crossedBy = {} /\ ran = {}
  /\ ccReq \in [CcReaders -> [at : {"get"}, val : {0}, held : {FALSE}, polls : {0},
                           mode : {"cached", "coalesce"}]]

\* GET the key: a hit is answered.
CacheGet(c) ==
  /\ CcAt(c, "get")
  /\ IF cacheVal # {} THEN CcStep(c, "done") ELSE CcStep(c, "lock")
  /\ UNCHANGED <<version, cacheVal, lockOf, writer, crossedBy, ran>>

\* SET NX the lock: the one that gets it loads, the others wait.
TryLock(c) ==
  /\ CcAt(c, "lock")
  /\ IF lockOf = {}
     THEN lockOf' = {c} /\ CcGo(c, [ccReq[c] EXCEPT !.at = "load", !.held = TRUE])
     ELSE CcStep(c, "wait") /\ UNCHANGED lockOf
  /\ UNCHANGED <<version, cacheVal, writer, crossedBy, ran>>

\* A waiter polls the key; withCoalescing also tries a lock that has gone.  At
\* its deadline it loads without the lock.
Poll(c) ==
  /\ CcAt(c, "wait")
  /\ \/ cacheVal # {} /\ CcStep(c, "done")
     \/ cacheVal = {} /\ lockOf = {} /\ ccReq[c].mode = "coalesce" /\ ccReq[c].polls < MaxPolls
        /\ CcGo(c, [ccReq[c] EXCEPT !.at = "lock", !.polls = @ + 1])
     \/ cacheVal = {} /\ CcStep(c, "load")
  /\ UNCHANGED <<version, cacheVal, lockOf, writer, crossedBy, ran>>

\* The loader reads the database.
Load(c) ==
  /\ CcAt(c, "load")
  /\ CcGo(c, [ccReq[c] EXCEPT !.at = "store", !.val = version])
  /\ crossedBy' = crossedBy \ {c}
  /\ UNCHANGED <<version, cacheVal, lockOf, writer, ran>>

\* The loader throws: the lock is released all the same ("finally").
LoadThrows(c) ==
  /\ CcAt(c, "load")
  /\ CcStep(c, IF ccReq[c].held THEN "release" ELSE "done")
  /\ UNCHANGED <<version, cacheVal, lockOf, writer, crossedBy, ran>>

\* SET the key with the value loaded.
Store(c) ==
  /\ CcAt(c, "store")
  /\ cacheVal' = {ccReq[c].val}
  /\ CcStep(c, IF ccReq[c].held THEN "release" ELSE "done")
  /\ UNCHANGED <<version, lockOf, writer, crossedBy, ran>>

\* DEL the lock, whoever set it.
ReleaseLock(c) ==
  /\ CcAt(c, "release")
  /\ lockOf' = {}
  /\ ran' = IF lockOf \subseteq {c} THEN ran ELSE ran \cup lockOf
  /\ CcStep(c, "done")
  /\ UNCHANGED <<version, cacheVal, writer, crossedBy>>

\* The lock's lifetime (10 s, 5 s) runs out under a slow loader.
LockRunsOut ==
  /\ lockOf # {}
  /\ \E c \in lockOf : ccReq[c].at \in {"load", "store", "release"}
  /\ ran' = ran \cup lockOf /\ lockOf' = {}
  /\ UNCHANGED <<version, cacheVal, writer, crossedBy, ccReq>>

\* The cached value's lifetime ends.
CacheExpires ==
  /\ cacheVal # {}
  /\ cacheVal' = {}
  /\ UNCHANGED <<version, lockOf, writer, crossedBy, ran, ccReq>>

\* A caller comes back for the key later.
AskAgain(c) ==
  /\ CcAt(c, "done") /\ version < MaxVersion
  /\ CcGo(c, [ccReq[c] EXCEPT !.at = "get", !.held = FALSE, !.polls = 0])
  /\ UNCHANGED <<version, cacheVal, lockOf, writer, crossedBy, ran>>

\* A write to the data; its handler invalidates afterwards.
WriteData ==
  /\ writer = "idle" /\ version < MaxVersion
  /\ version' = version + 1 /\ writer' = "wrote"
  /\ crossedBy' = crossedBy \cup {c \in CcReaders : CcAt(c, "store")}
  /\ UNCHANGED <<cacheVal, lockOf, ran, ccReq>>

\* Fault: the invalidation looks for keys under another prefix.
InvalidateNothing ==
  /\ writer = "wrote"
  /\ writer' = "idle"
  /\ UNCHANGED <<version, cacheVal, lockOf, crossedBy, ran, ccReq>>

\* invalidateLeaderboardCache, invalidateChallengesCache: KEYS, then DEL what
\* they named.
Invalidate ==
  /\ writer = "wrote"
  /\ cacheVal' = {} /\ writer' = "idle"
  /\ UNCHANGED <<version, lockOf, crossedBy, ran, ccReq>>

CcNext ==
  \/ \E c \in CcReaders :
       \/ CacheGet(c) \/ TryLock(c) \/ Poll(c) \/ Load(c) \/ LoadThrows(c) \/ Store(c)
       \/ ReleaseLock(c) \/ AskAgain(c)
  \/ LockRunsOut \/ CacheExpires \/ WriteData \/ Invalidate

CallerStep(c) ==
  CacheGet(c) \/ TryLock(c) \/ Poll(c) \/ Load(c) \/ Store(c) \/ ReleaseLock(c)

\* A caller's own steps are not put off for ever (the polls have a deadline).
CcFairness ==
  \A c \in CcReaders : WF_ccVars(CallerStep(c))

CcSpec == CcInit /\ [][CcNext]_ccVars /\ CcFairness
------------------------------------------------------------------------------
\* The key, its lock and the callers are well formed.
CcTypeOK ==
  /\ version \in 0 .. MaxVersion /\ writer \in {"idle", "wrote"}
  /\ cacheVal \subseteq 0 .. MaxVersion /\ Cardinality(cacheVal) <= 1
  /\ lockOf \subseteq CcReaders /\ Cardinality(lockOf) <= 1
  /\ \A c \in CcReaders : ccReq[c].at \in {"get", "lock", "wait", "load", "store", "release", "done"}

\* The cached value is the data as it is, or its writer is about to delete it,
\* or it was loaded before a write and stored after it (lib/cache.ts:36).
CacheFresh ==
  cacheVal \subseteq {version} \/ writer = "wrote" \/ crossedBy # {}

\* Of the callers that got the lock one loads at a time, unless a lock ran out
\* or was deleted by a caller it had run out under (lib/cache.ts:39).
OneLoader ==
  ran = {} => Cardinality({c \in Loaders : ccReq[c].held}) <= 1

\* A lock that is set has a caller that will delete it: no error of the loader
\* leaves the key locked (lib/cache.ts:38).
LockHasHolder ==
  \A c \in lockOf : c \in Loaders \/ CcAt(c, "release") \/ c \in ran
=============================================================================
