----------------------------- MODULE ProgressProofs -----------------------------
(***************************************************************************)
(* Proofs about the sweep of the recurring templates, the cached loader,   *)
(* the pages of the web front end and the composition MCProgress, for      *)
(* every value of the constants.                                           *)
(*                                                                         *)
(* The sweep.  That one period has one challenge takes three facts at      *)
(* once: the row's lock has one holder, whoever is inside the transaction  *)
(* is that one, and whoever is about to insert still counts no challenge   *)
(* of its period.                                                          *)
(*                                                                         *)
(* The loader.  A stale value was stored by a caller whose load a write    *)
(* crossed, and that caller has not loaded again since; who works under    *)
(* the lock holds it unless a lock ran out.                                *)
(*                                                                         *)
(* The pages.  What each of the forty-eight components promises rests on   *)
(* rules that tie its details together; the rules are proved page by page, *)
(* and the invariant is about the kinds of pages the rules make out.       *)
(***************************************************************************)
EXTENDS MCProgress, BatchPayoutProofs, FiniteSetTheorems, WellFoundedInduction,
        TLAPS

-------------------------------------------------------------------------------
(* The cached loader *)

\* What a caller of the loader is.
CcLabels == {"get", "lock", "wait", "load", "store", "release", "done"}
CcRecord == [at : CcLabels, val : 0 .. MaxVersion, held : BOOLEAN, polls : Nat,
             mode : {"cached", "coalesce"}]

\* A key with at most one value.
AtMostOne(S) == \A x, y \in S : x = y

\* The keys, the writer and the callers.
CcTyped ==
    /\ version \in 0 .. MaxVersion /\ writer \in {"idle", "wrote"}
    /\ cacheVal \subseteq 0 .. MaxVersion /\ AtMostOne(cacheVal)
    /\ lockOf \subseteq CcReaders /\ AtMostOne(lockOf)
    /\ crossedBy \subseteq CcReaders /\ ran \subseteq CcReaders
    /\ ccReq \in [CcReaders -> CcRecord]

\* What a loader is about to store is the data, or a write crossed its load.
LoadsFresh ==
    \A c \in CcReaders : CcAt(c, "store") => ccReq[c].val = version \/ c \in crossedBy

\* A stale value was stored by a caller a write crossed, and that caller has not
\* loaded again: as long as the value is there it is answered from it.
StaleHasCause ==
    \/ cacheVal \subseteq {version}
    \/ writer = "wrote"
    \/ \E c \in crossedBy : ccReq[c].at \in {"get", "release", "done"}

\* Who holds the lock is at work under it; who got the lock has it, unless a lock
\* ran out; who releases it got it; who has still to get it has not.
LockInv ==
    /\ \A c \in lockOf : ccReq[c].held /\ ccReq[c].at \in {"load", "store", "release"}
    /\ \A c \in CcReaders :
         /\ ran = {} /\ ccReq[c].held /\ ccReq[c].at \in {"load", "store", "release"}
              => c \in lockOf
         /\ CcAt(c, "release") => ccReq[c].held
         /\ ccReq[c].at \in {"get", "lock", "wait"} => ~ccReq[c].held

CcInv == CcTyped /\ LoadsFresh /\ StaleHasCause /\ LockInv

\* A set without two members is finite and has at most one.
LEMMA FewMembers ==
    ASSUME NEW S, AtMostOne(S)
    PROVE  IsFiniteSet(S) /\ Cardinality(S) <= 1
<1>1. CASE S = {}
    BY <1>1, FS_EmptySet
<1>2. CASE S # {}
    <2>1. PICK x : x \in S
        BY <1>2
    <2>2. S = {x}
        BY <2>1 DEF AtMostOne
    <2>3. IsFiniteSet({x}) /\ Cardinality({x}) = 1
        BY FS_Singleton
    <2> QED
        BY <2>2, <2>3
<1> QED
    BY <1>1, <1>2

\* The bounds are numbers.
LEMMA CcBounds == MaxVersion \in Nat /\ MaxPolls \in Nat
    BY CcAssumption

\* A caller's record is one.
LEMMA CcRecordOf ==
    ASSUME CcInv, NEW c \in CcReaders
    PROVE  ccReq[c] \in CcRecord
    BY DEF CcInv, CcTyped

\* The key is empty and nobody has asked.
LEMMA CcStart == CcInit => CcInv
<1> SUFFICES ASSUME CcInit PROVE CcInv
    OBVIOUS
<1>1. CcTyped
    <2>1. 0 \in 0 .. MaxVersion /\ 0 \in Nat
        BY CcBounds
    <2>2. ccReq \in [CcReaders -> CcRecord]
        <3>1. [at : {"get"}, val : {0}, held : {FALSE}, polls : {0}, mode : {"cached", "coalesce"}]
                \subseteq CcRecord
            BY <2>1, Zenon DEF CcRecord, CcLabels
        <3> QED
            BY <3>1 DEF CcInit
    <2> QED
        BY <2>1, <2>2 DEF CcInit, CcTyped, AtMostOne
<1>2. LoadsFresh /\ StaleHasCause /\ LockInv
    BY DEF CcInit, LoadsFresh, StaleHasCause, LockInv, CcAt
<1> QED
    BY <1>1, <1>2 DEF CcInv

\* A caller goes on without touching the key, its lock or the history: it keeps
\* what the invariant says of it when it neither loads nor has the lock to give
\* back.
LEMMA CallerGoesOn ==
    ASSUME CcInv, NEW c \in CcReaders, NEW rec \in CcRecord, CcGo(c, rec),
           UNCHANGED <<version, cacheVal, lockOf, writer, crossedBy, ran>>,
           rec.at \notin {"store", "release"},
           rec.held => rec.at \notin {"get", "lock", "wait", "load"},
           c \notin lockOf,
           cacheVal # {} /\ ccReq[c].at \in {"get", "release", "done"}
             => rec.at \in {"get", "release", "done"}
    PROVE  CcInv'
<1>1. ccReq' = [ccReq EXCEPT ![c] = rec]
    BY DEF CcGo
<1>2. CcTyped'
    BY <1>1 DEF CcInv, CcTyped
<1>3. LoadsFresh'
    BY <1>1 DEF CcInv, CcTyped, LoadsFresh, CcAt
<1>4. StaleHasCause'
    <2>1. \A d \in CcReaders : cacheVal # {} /\ ccReq[d].at \in {"get", "release", "done"}
            => ccReq'[d].at \in {"get", "release", "done"}
        BY <1>1 DEF CcInv, CcTyped
    <2> QED
        BY <2>1 DEF CcInv, StaleHasCause, CcTyped
<1>5. LockInv'
    BY <1>1 DEF CcInv, CcTyped, LockInv, CcAt
<1> QED
    BY <1>2, <1>3, <1>4, <1>5 DEF CcInv

\* The same of a step that forgets the value.
LEMMA StepsOn ==
    ASSUME CcInv, NEW c \in CcReaders, NEW l \in {"get", "lock", "wait", "load", "done"},
           CcStep(c, l), ~ccReq[c].held, c \notin lockOf,
           UNCHANGED <<version, cacheVal, lockOf, writer, crossedBy, ran>>,
           cacheVal # {} /\ ccReq[c].at \in {"get", "release", "done"} => l \in {"get", "done"}
    PROVE  CcInv'
<1> DEFINE rec == [ccReq[c] EXCEPT !.at = l, !.val = 0]
<1>1. ccReq[c] \in CcRecord /\ 0 \in 0 .. MaxVersion /\ l \in CcLabels
    BY CcRecordOf, CcBounds DEF CcLabels
<1>2. rec \in CcRecord /\ rec.at = l /\ rec.held = ccReq[c].held
    BY <1>1, Zenon DEF CcRecord
<1>3. CcGo(c, rec)
    BY DEF CcStep
<1> HIDE DEF rec
<1> QED
    BY <1>2, <1>3, CallerGoesOn

\* GET.
LEMMA CacheGetKeeps ==
    ASSUME CcInv, NEW c \in CcReaders, CacheGet(c)
    PROVE  CcInv'
<1>1. c \notin lockOf /\ ~ccReq[c].held /\ CcAt(c, "get")
    BY DEF CcInv, LockInv, CacheGet, CcAt
<1>2. UNCHANGED <<version, cacheVal, lockOf, writer, crossedBy, ran>>
    BY DEF CacheGet
<1>3. ASSUME NEW l \in {"done", "lock"}, CcStep(c, l), cacheVal # {} => l = "done"
      PROVE  CcInv'
    BY <1>1, <1>2, <1>3, StepsOn DEF CcAt
<1> QED
    BY <1>3 DEF CacheGet

\* SET NX: the lock was free, so nobody who got one works.
LEMMA TryLockKeeps ==
    ASSUME CcInv, NEW c \in CcReaders, TryLock(c)
    PROVE  CcInv'
<1>0. ccReq[c] \in CcRecord /\ 0 \in 0 .. MaxVersion /\ 0 \in Nat
    BY CcRecordOf, CcBounds
<1>1. c \notin lockOf /\ ~ccReq[c].held /\ CcAt(c, "lock")
    BY DEF CcInv, LockInv, TryLock, CcAt
<1>2. CASE lockOf # {}
    BY <1>1, <1>2, StepsOn DEF TryLock, CcAt
<1>3. CASE lockOf = {}
    <2> DEFINE rec == [ccReq[c] EXCEPT !.at = "load", !.held = TRUE]
    <2>1. rec \in CcRecord /\ rec.at = "load" /\ rec.held
        BY <1>0, Zenon DEF CcRecord, CcLabels
    <2>2. /\ lockOf' = {c} /\ ccReq' = [ccReq EXCEPT ![c] = rec]
          /\ UNCHANGED <<version, cacheVal, writer, crossedBy, ran>>
        BY <1>3 DEF TryLock, CcGo
    <2> HIDE DEF rec
    <2>3. CcTyped'
        BY <2>1, <2>2 DEF CcInv, CcTyped, AtMostOne
    <2>4. LoadsFresh'
        BY <2>1, <2>2 DEF CcInv, CcTyped, LoadsFresh, CcAt
    <2>5. StaleHasCause'
        <3>1. \A d \in CcReaders : ccReq[d].at \in {"get", "release", "done"}
                => ccReq'[d].at \in {"get", "release", "done"}
            BY <1>1, <2>2 DEF CcInv, CcTyped, CcAt
        <3> QED
            BY <2>2, <3>1 DEF CcInv, StaleHasCause, CcTyped
    <2>6. LockInv'
        BY <1>3, <2>1, <2>2 DEF CcInv, CcTyped, LockInv, CcAt
    <2> QED
        BY <2>3, <2>4, <2>5, <2>6 DEF CcInv
<1> QED
    BY <1>2, <1>3

\* A poll: the key, the lock again, or the load without it.
LEMMA PollKeeps ==
    ASSUME CcInv, NEW c \in CcReaders, Poll(c)
    PROVE  CcInv'
<1>0. ccReq[c] \in CcRecord /\ 0 \in 0 .. MaxVersion /\ 0 \in Nat
    BY CcRecordOf, CcBounds
<1>1. c \notin lockOf /\ ~ccReq[c].held /\ CcAt(c, "wait")
    BY DEF CcInv, LockInv, Poll, CcAt
<1>2. UNCHANGED <<version, cacheVal, lockOf, writer, crossedBy, ran>>
    BY DEF Poll
<1>3. ASSUME NEW l \in {"done", "load"}, CcStep(c, l) PROVE CcInv'
    BY <1>1, <1>2, <1>3, StepsOn DEF CcAt
<1>4. ASSUME CcGo(c, [ccReq[c] EXCEPT !.at = "lock", !.polls = @ + 1]) PROVE CcInv'
    <2> DEFINE rec == [ccReq[c] EXCEPT !.at = "lock", !.polls = @ + 1]
    <2>0. ccReq[c].polls + 1 \in Nat
        BY <1>0 DEF CcRecord
    <2>1. rec \in CcRecord /\ rec.at = "lock" /\ ~rec.held
        BY <2>0, <1>0, <1>1, Zenon DEF CcRecord, CcLabels
    <2> HIDE DEF rec
    <2>2. CcGo(c, rec)
        BY <1>4 DEF rec
    <2> QED
        BY <1>1, <1>2, <2>1, <2>2, CallerGoesOn DEF CcAt
<1> QED
    BY <1>3, <1>4 DEF Poll

\* The loader reads: its value is the data of the moment.
LEMMA LoadKeeps ==
    ASSUME CcInv, NEW c \in CcReaders, Load(c)
    PROVE  CcInv'
<1>0. ccReq[c] \in CcRecord /\ 0 \in 0 .. MaxVersion /\ 0 \in Nat
    BY CcRecordOf, CcBounds
<1> DEFINE rec == [ccReq[c] EXCEPT !.at = "store", !.val = version]
<1>1. rec \in CcRecord /\ rec.at = "store" /\ rec.held = ccReq[c].held /\ rec.val = version
    BY <1>0, Zenon DEF CcInv, CcTyped, CcRecord, CcLabels
<1>2. /\ CcAt(c, "load") /\ ccReq' = [ccReq EXCEPT ![c] = rec] /\ crossedBy' = crossedBy \ {c}
      /\ UNCHANGED <<version, cacheVal, lockOf, writer, ran>>
    BY DEF Load, CcGo
<1> HIDE DEF rec
<1>3. CcTyped'
    BY <1>1, <1>2 DEF CcInv, CcTyped
<1>4. LoadsFresh'
    BY <1>1, <1>2 DEF CcInv, CcTyped, LoadsFresh, CcAt
<1>5. StaleHasCause'
    <2>1. \A d \in crossedBy : ccReq[d].at \in {"get", "release", "done"}
            => d \in crossedBy' /\ ccReq'[d].at \in {"get", "release", "done"}
        BY <1>2 DEF CcInv, CcTyped, CcAt
    <2> QED
        BY <1>2, <2>1 DEF CcInv, StaleHasCause
<1>6. LockInv'
    BY <1>1, <1>2 DEF CcInv, CcTyped, LockInv, CcAt
<1> QED
    BY <1>3, <1>4, <1>5, <1>6 DEF CcInv

\* The load is over: the key is set, or the loader threw.
LEMMA LoadOver ==
    ASSUME CcInv, NEW c \in CcReaders, ccReq[c].at \in {"load", "store"},
           CcStep(c, IF ccReq[c].held THEN "release" ELSE "done"),
           UNCHANGED <<version, lockOf, writer, crossedBy, ran>>,
           cacheVal' = cacheVal \/ (CcAt(c, "store") /\ cacheVal' = {ccReq[c].val})
    PROVE  CcInv'
<1>0. ccReq[c] \in CcRecord /\ 0 \in 0 .. MaxVersion /\ 0 \in Nat
    BY CcRecordOf, CcBounds
<1> DEFINE l == IF ccReq[c].held THEN "release" ELSE "done"
           rec == [ccReq[c] EXCEPT !.at = l, !.val = 0]
<1>1. rec \in CcRecord /\ rec.at = l /\ rec.held = ccReq[c].held
    BY <1>0, Zenon DEF CcRecord, CcLabels
<1>2. ccReq' = [ccReq EXCEPT ![c] = rec]
    BY DEF CcStep, CcGo
<1>3. rec.at = (IF rec.held THEN "release" ELSE "done")
    BY <1>1
<1> HIDE DEF rec, l
<1>4. CcTyped'
    BY <1>1, <1>2 DEF CcInv, CcTyped, AtMostOne, CcRecord
<1>5. LoadsFresh'
    BY <1>2, <1>3 DEF CcInv, CcTyped, LoadsFresh, CcAt
<1>6. StaleHasCause'
    <2>1. \A d \in CcReaders : ccReq[d].at \in {"get", "release", "done"}
            => ccReq'[d].at \in {"get", "release", "done"}
        BY <1>2, <1>3 DEF CcInv, CcTyped
    <2>2. CASE cacheVal' = cacheVal
        BY <2>1, <2>2 DEF CcInv, StaleHasCause, CcTyped
    <2>3. CASE CcAt(c, "store") /\ cacheVal' = {ccReq[c].val}
        <3>1. ccReq'[c].at \in {"get", "release", "done"}
            BY <1>2, <1>3 DEF CcInv, CcTyped
        <3> QED
            BY <2>3, <3>1 DEF CcInv, LoadsFresh, StaleHasCause
    <2> QED
        BY <2>2, <2>3
<1>7. LockInv'
    BY <1>1, <1>2, <1>3 DEF CcInv, CcTyped, LockInv, CcAt
<1> QED
    BY <1>4, <1>5, <1>6, <1>7 DEF CcInv

\* DEL the lock: the caller's own, or one that was set after its own ran out.
LEMMA ReleaseLockKeeps ==
    ASSUME CcInv, NEW c \in CcReaders, ReleaseLock(c)
    PROVE  CcInv'
<1>0. ccReq[c] \in CcRecord /\ 0 \in 0 .. MaxVersion /\ 0 \in Nat
    BY CcRecordOf, CcBounds
<1> DEFINE rec == [ccReq[c] EXCEPT !.at = "done", !.val = 0]
<1>1. rec \in CcRecord /\ rec.at = "done" /\ rec.held = ccReq[c].held
    BY <1>0, Zenon DEF CcRecord, CcLabels
<1>2. /\ CcAt(c, "release") /\ lockOf' = {} /\ ccReq' = [ccReq EXCEPT ![c] = rec]
      /\ ran' = IF lockOf \subseteq {c} THEN ran ELSE ran \cup lockOf
      /\ UNCHANGED <<version, cacheVal, writer, crossedBy>>
    BY DEF ReleaseLock, CcStep, CcGo
<1> HIDE DEF rec
<1>3. CcTyped'
    BY <1>1, <1>2 DEF CcInv, CcTyped, AtMostOne
<1>4. LoadsFresh'
    BY <1>1, <1>2 DEF CcInv, CcTyped, LoadsFresh, CcAt
<1>5. StaleHasCause'
    <2>1. \A d \in CcReaders : ccReq[d].at \in {"get", "release", "done"}
            => ccReq'[d].at \in {"get", "release", "done"}
        BY <1>1, <1>2 DEF CcInv, CcTyped
    <2> QED
        BY <1>2, <2>1 DEF CcInv, StaleHasCause, CcTyped
<1>6. ran' = {} => ran = {} /\ lockOf \subseteq {c}
    BY <1>2
<1>7. LockInv'
    BY <1>1, <1>2, <1>6 DEF CcInv, CcTyped, LockInv, CcAt
<1> QED
    BY <1>3, <1>4, <1>5, <1>7 DEF CcInv

\* A caller comes back.
LEMMA AskAgainKeeps ==
    ASSUME CcInv, NEW c \in CcReaders, AskAgain(c)
    PROVE  CcInv'
<1>0. ccReq[c] \in CcRecord /\ 0 \in 0 .. MaxVersion /\ 0 \in Nat
    BY CcRecordOf, CcBounds
<1> DEFINE rec == [ccReq[c] EXCEPT !.at = "get", !.held = FALSE, !.polls = 0]
<1>1. rec \in CcRecord /\ rec.at = "get" /\ ~rec.held
    BY <1>0, Zenon DEF CcRecord, CcLabels
<1>2. CcGo(c, rec) /\ UNCHANGED <<version, cacheVal, lockOf, writer, crossedBy, ran>>
    BY DEF AskAgain
<1>3. c \notin lockOf
    BY DEF CcInv, LockInv, AskAgain, CcAt
<1> HIDE DEF rec
<1> QED
    BY <1>1, <1>2, <1>3, CallerGoesOn

\* The lock runs out, the value's life ends, data is written, the key deleted.
LEMMA CcWorldKeeps ==
    ASSUME CcInv, LockRunsOut \/ CacheExpires \/ WriteData \/ Invalidate
    PROVE  CcInv'
<1>1. CASE LockRunsOut
    <2>1. CcTyped' /\ LoadsFresh' /\ StaleHasCause'
        BY <1>1 DEF CcInv, LockRunsOut, CcTyped, LoadsFresh, StaleHasCause, CcAt, AtMostOne
    <2>2. LockInv'
        BY <1>1 DEF CcInv, LockRunsOut, LockInv, CcAt
    <2> QED
        BY <2>1, <2>2 DEF CcInv
<1>2. CASE CacheExpires
    BY <1>2 DEF CcInv, CacheExpires, CcTyped, LoadsFresh, StaleHasCause, LockInv, CcAt, AtMostOne
<1>3. CASE WriteData
    <2>1. CcTyped'
        BY <1>3, CcBounds DEF CcInv, WriteData, CcTyped
    <2>2. LoadsFresh'
        BY <1>3 DEF CcInv, WriteData, LoadsFresh, CcAt
    <2>3. StaleHasCause' /\ LockInv'
        BY <1>3 DEF CcInv, WriteData, StaleHasCause, LockInv, CcAt
    <2> QED
        BY <2>1, <2>2, <2>3 DEF CcInv
<1>4. CASE Invalidate
    BY <1>4 DEF CcInv, Invalidate, CcTyped, LoadsFresh, StaleHasCause, LockInv, CcAt, AtMostOne
<1> QED
    BY <1>1, <1>2, <1>3, <1>4

\* Every step of the callers, the writer and the clocks keeps the invariant.
LEMMA CcMove ==
    ASSUME CcInv, [CcNext]_ccVars
    PROVE  CcInv'
<1>1. ASSUME NEW c \in CcReaders, LoadThrows(c) \/ Store(c) PROVE CcInv'
    BY <1>1, LoadOver DEF LoadThrows, Store, CcAt
<1>2. CASE UNCHANGED ccVars
    BY <1>2 DEF ccVars, CcInv, CcTyped, LoadsFresh, StaleHasCause, LockInv, CcAt, AtMostOne
<1> QED
    BY <1>1, <1>2, CacheGetKeeps, TryLockKeeps, PollKeeps, LoadKeeps, ReleaseLockKeeps,
       AskAgainKeeps, CcWorldKeeps DEF CcNext

\* The invariant gives what the readers of the cache rely on.
LEMMA CcSound == CcInv => CcTypeOK /\ CacheFresh /\ OneLoader /\ LockHasHolder
<1> SUFFICES ASSUME CcInv PROVE CcTypeOK /\ CacheFresh /\ OneLoader /\ LockHasHolder
    OBVIOUS
<1>1. CcTypeOK
    <2>1. Cardinality(cacheVal) <= 1 /\ Cardinality(lockOf) <= 1
        BY FewMembers DEF CcInv, CcTyped
    <2>2. \A c \in CcReaders : ccReq[c].at \in CcLabels
        BY DEF CcInv, CcTyped, CcRecord
    <2> QED
        BY <2>1, <2>2 DEF CcInv, CcTyped, CcTypeOK, CcLabels
<1>2. CacheFresh
    BY DEF CcInv, StaleHasCause, CacheFresh
<1>3. OneLoader
    <2> SUFFICES ASSUME ran = {} PROVE Cardinality({c \in Loaders : ccReq[c].held}) <= 1
        BY DEF OneLoader
    <2>1. AtMostOne({c \in Loaders : ccReq[c].held})
        BY DEF CcInv, CcTyped, LockInv, Loaders, CcAt, AtMostOne
    <2> QED
        BY <2>1, FewMembers
<1>4. LockHasHolder
    BY DEF CcInv, CcTyped, LockInv, LockHasHolder, Loaders, CcAt
<1> QED
    BY <1>1, <1>2, <1>3, <1>4

-------------------------------------------------------------------------------
(* The sweep of recurring templates *)

\* A non-empty set of numbers has a least one.
LEMMA LeastDay ==
    ASSUME NEW S \in SUBSET Nat, S # {}
    PROVE  \E d \in S : \A e \in S : d <= e
<1>1. PICK d \in S : \A e \in S : ~ (<<e, d>> \in OpToRel(<, Nat))
    BY NatLessThanWellFounded, WFMin
<1>2. \A e \in Nat : e < d => <<e, d>> \in OpToRel(<, Nat)
    BY SMT DEF OpToRel
<1>3. \A e \in S : ~ (e < d)
    BY <1>1, <1>2, Zenon
<1> QED
    BY <1>3

\* The statements of a sweep's transaction.
Statement == {"lock", "count", "mark", "insert"}

\* A sweep past its reading has the period of the start it computed.
SweepsAim ==
    \A s \in Sweepers :
        sweep[s].pc \in Statement =>
            sweep[s].start \in Starts /\ sweep[s].key = periodKeyForRule(sweep[s].start)

\* The row's lock has one holder, and who is inside the transaction is that one.
LockSound ==
    /\ \A s, t \in rowLock : s = t
    /\ \A s \in Sweepers : sweep[s].pc \in {"count", "mark", "insert"} => s \in rowLock

\* A sweep about to insert is the first of its period: nobody else can have
\* inserted since it counted.
StillFirst ==
    \A s \in Sweepers :
        sweep[s].pc = "insert" => \A c \in spawned : c.key # sweep[s].key

\* The challenges carry the period of their start, and no two the same period.
OnePerKey ==
    /\ \A c \in spawned : c.key = periodKeyForRule(c.start)
    /\ \A c, d \in spawned : c.key = d.key => c = d
    /\ template.last = NoPeriod \/ \E c \in spawned : c.key = template.last

RtpTyped == RtpTypeOK /\ IsFiniteSet(spawned)

RtpInv == RtpTyped /\ SweepsAim /\ LockSound /\ StillFirst /\ OnePerKey

\* The template is read by nobody, and nothing is spawned.
LEMMA RtpStart == RtpInit => RtpInv
<1> SUFFICES ASSUME RtpInit PROVE RtpInv
    OBVIOUS
<1>1. today \in SweepDays
    BY LeastDay, RtpAssumption DEF RtpInit
<1>2. NoPeriod \in Keys
    BY DEF Keys
<1>3. RtpTypeOK
    BY <1>1, <1>2, RtpAssumption DEF RtpInit, RtpTypeOK, Resting
<1>4. RtpTyped
    BY <1>3, FS_EmptySet DEF RtpInit, RtpTyped
<1>5. SweepsAim /\ LockSound /\ StillFirst
    BY DEF RtpInit, SweepsAim, LockSound, StillFirst, Resting, Statement
<1>6. OnePerKey
    BY DEF RtpInit, OnePerKey
<1> QED
    BY <1>4, <1>5, <1>6 DEF RtpInv

\* The list of templates is read.
LEMMA StartSweepKeeps ==
    ASSUME RtpInv, NEW s \in Sweepers, StartSweep(s)
    PROVE  RtpInv'
<1> USE DEF RtpInv, StartSweep, SweepTo
<1>1. RtpTyped'
    BY RtpAssumption DEF RtpTyped, RtpTypeOK
<1>2. SweepsAim'
    BY DEF SweepsAim, RtpTyped, RtpTypeOK, Statement
<1>3. LockSound'
    BY DEF LockSound, RtpTyped, RtpTypeOK
<1>4. StillFirst'
    BY DEF StillFirst, RtpTyped, RtpTypeOK
<1>5. OnePerKey'
    BY DEF OnePerKey
<1> QED
    BY <1>1, <1>2, <1>3, <1>4, <1>5

\* A sweep that ends leaves the others as they are.
LEMMA EndKeeps ==
    ASSUME RtpInv, NEW s \in Sweepers, EndSweep(s), rowLock' = rowLock \ {s},
           UNCHANGED <<today, template, spawned, sweeps>>
    PROVE  RtpInv'
<1>1. NoPeriod \in Keys
    BY DEF Keys
<1> USE DEF RtpInv, EndSweep, Resting
<1>2. RtpTyped'
    BY <1>1 DEF RtpTyped, RtpTypeOK
<1>3. SweepsAim'
    BY DEF SweepsAim, RtpTyped, RtpTypeOK, Statement
<1>4. LockSound'
    BY DEF LockSound, RtpTyped, RtpTypeOK
<1>5. StillFirst'
    BY DEF StillFirst, RtpTyped, RtpTypeOK
<1>6. OnePerKey'
    BY DEF OnePerKey
<1> QED
    BY <1>2, <1>3, <1>4, <1>5, <1>6

\* The template is read: the start and its period are computed together.
LEMMA ReadTemplateKeeps ==
    ASSUME RtpInv, NEW s \in Sweepers, ReadTemplate(s)
    PROVE  RtpInv'
<1> DEFINE start == computeNextStartDate(today)
           key == periodKeyForRule(start)
<1>1. start \in Starts /\ key \in Keys
    BY DEF RtpInv, RtpTyped, RtpTypeOK, Starts, Keys
<1>2. CASE EndSweep(s)
    <2> USE DEF RtpInv, EndSweep, Resting, ReadTemplate
    <2>2. NoPeriod \in Keys
        BY DEF Keys
    <2>3. RtpTyped'
        BY <1>2, <2>2 DEF RtpTyped, RtpTypeOK
    <2>4. SweepsAim' /\ LockSound' /\ StillFirst'
        BY <1>2 DEF SweepsAim, LockSound, StillFirst, RtpTyped, RtpTypeOK, Statement
    <2>5. OnePerKey'
        BY DEF OnePerKey
    <2> QED
        BY <2>3, <2>4, <2>5
<1>3. CASE sweep' = [sweep EXCEPT ![s] = [pc |-> "lock", key |-> key, start |-> start]]
    <2> HIDE DEF start, key
    <2> USE DEF RtpInv
    <2>0. UNCHANGED <<today, template, spawned, rowLock, sweeps>>
        BY DEF ReadTemplate
    <2>1. RtpTyped'
        BY <1>1, <1>3, <2>0 DEF RtpTyped, RtpTypeOK
    <2>2. key = periodKeyForRule(start)
        BY DEF key
    <2>3. SweepsAim'
        BY <1>1, <1>3, <2>2, <2>0 DEF SweepsAim, RtpTyped, RtpTypeOK, Statement
    <2>4. LockSound' /\ StillFirst'
        BY <1>3, <2>0 DEF LockSound, StillFirst, RtpTyped, RtpTypeOK
    <2>5. OnePerKey'
        BY <2>0 DEF OnePerKey
    <2> QED
        BY <2>1, <2>3, <2>4, <2>5
<1> QED
    BY <1>2, <1>3 DEF ReadTemplate

\* The transaction locks the row, which nobody holds.
LEMMA LockTemplateKeeps ==
    ASSUME RtpInv, NEW s \in Sweepers, LockTemplate(s)
    PROVE  RtpInv'
<1> USE DEF RtpInv, LockTemplate, SweepTo, LockFree
<1>1. RtpTyped'
    BY DEF RtpTyped, RtpTypeOK
<1>2. SweepsAim'
    BY DEF SweepsAim, RtpTyped, RtpTypeOK, Statement
<1>3. LockSound'
    BY DEF LockSound, RtpTyped, RtpTypeOK
<1>4. StillFirst'
    BY DEF StillFirst, RtpTyped, RtpTypeOK
<1>5. OnePerKey'
    BY DEF OnePerKey
<1> QED
    BY <1>1, <1>2, <1>3, <1>4, <1>5

\* The period's challenges are counted under the lock.
LEMMA CountPeriodKeeps ==
    ASSUME RtpInv, NEW s \in Sweepers, CountPeriod(s)
    PROVE  RtpInv'
<1> USE DEF RtpInv, CountPeriod, SweepTo
<1>1. RtpTyped'
    BY DEF RtpTyped, RtpTypeOK
<1>2. SweepsAim'
    BY DEF SweepsAim, RtpTyped, RtpTypeOK, Statement
<1>3. LockSound'
    BY DEF LockSound, RtpTyped, RtpTypeOK
<1>4. StillFirst'
    BY DEF StillFirst, RtpTyped, RtpTypeOK
<1>5. OnePerKey'
    BY DEF OnePerKey
<1> QED
    BY <1>1, <1>2, <1>3, <1>4, <1>5

\* The challenge is inserted: the only one of its period, for who is inside the
\* transaction is alone there.
LEMMA CommitSpawnKeeps ==
    ASSUME RtpInv, NEW s \in Sweepers, CommitSpawn(s)
    PROVE  RtpInv'
<1> DEFINE new == [key |-> sweep[s].key, start |-> sweep[s].start, nth |-> Cardinality(spawned)]
<1>1. /\ sweep[s].pc = "insert" /\ spawned' = spawned \cup {new}
      /\ template' = [template EXCEPT !.last = sweep[s].key]
      /\ rowLock' = rowLock \ {s} /\ UNCHANGED <<today, sweeps>>
      /\ sweep' = [sweep EXCEPT ![s] = Resting]
    BY DEF CommitSpawn, EndSweep
<1>2. s \in rowLock /\ \A t \in Sweepers \ {s} : sweep[t].pc \notin {"count", "mark", "insert"}
    BY <1>1 DEF RtpInv, LockSound
<1>3. sweep[s].key = periodKeyForRule(sweep[s].start) /\ \A c \in spawned : c.key # sweep[s].key
    BY <1>1 DEF RtpInv, SweepsAim, StillFirst, Statement
<1>4. Cardinality(spawned) \in Nat /\ IsFiniteSet(spawned')
    BY <1>1, FS_CardinalityType, FS_AddElement DEF RtpInv, RtpTyped
<1>5. NoPeriod \in Keys
    BY DEF Keys
<1>6. RtpTyped'
    <2>1. sweep[s].start \in Starts /\ sweep[s].key \in Keys
        BY <1>1 DEF RtpInv, SweepsAim, RtpTyped, RtpTypeOK, Statement
    <2> QED
        BY <1>1, <1>4, <1>5, <2>1 DEF RtpInv, RtpTyped, RtpTypeOK, Resting
<1>7. SweepsAim'
    BY <1>1 DEF RtpInv, SweepsAim, RtpTyped, RtpTypeOK, Statement, Resting
<1>8. LockSound'
    BY <1>1 DEF RtpInv, LockSound, RtpTyped, RtpTypeOK, Resting
<1>9. StillFirst'
    BY <1>1, <1>2 DEF RtpInv, StillFirst, RtpTyped, RtpTypeOK, Resting
<1>10. OnePerKey'
    <2>1. new.key = sweep[s].key /\ new.start = sweep[s].start
        OBVIOUS
    <2>2. template'.last = sweep[s].key
        BY <1>1 DEF RtpInv, RtpTyped, RtpTypeOK
    <2> HIDE DEF new
    <2> QED
        BY <1>1, <1>3, <2>1, <2>2 DEF RtpInv, OnePerKey
<1> QED
    BY <1>6, <1>7, <1>8, <1>9, <1>10 DEF RtpInv

\* The day is one on which something happens.
LEMMA NextDayKeeps ==
    ASSUME RtpInv, NextDay
    PROVE  RtpInv'
<1> DEFINE later == {d \in SweepDays : d > today}
<1>1. later \in SUBSET Nat /\ later # {}
    BY RtpAssumption DEF NextDay
<1>2. \E d \in SweepDays : d > today /\ \A e \in SweepDays : e > today => d <= e
    <2>1. PICK d \in later : \A e \in later : d <= e
        BY <1>1, LeastDay
    <2> QED
        BY <2>1
<1>3. today' \in SweepDays
    BY <1>2 DEF NextDay
<1> USE DEF RtpInv, NextDay
<1>4. RtpTyped'
    BY <1>3 DEF RtpTyped, RtpTypeOK
<1>5. SweepsAim' /\ LockSound' /\ StillFirst' /\ OnePerKey'
    BY DEF SweepsAim, LockSound, StillFirst, OnePerKey
<1> QED
    BY <1>4, <1>5

\* The routes change the template's status and nothing else.
LEMMA UpdateTemplateKeeps ==
    ASSUME RtpInv, NEW from, NEW to \in {"active", "paused", "deleted"},
           UpdateTemplate(from, to)
    PROVE  RtpInv'
<1> USE DEF RtpInv, UpdateTemplate
<1>1. RtpTyped'
    BY DEF RtpTyped, RtpTypeOK
<1>2. SweepsAim' /\ LockSound' /\ StillFirst'
    BY DEF SweepsAim, LockSound, StillFirst
<1>3. OnePerKey'
    BY DEF OnePerKey, RtpTyped, RtpTypeOK
<1> QED
    BY <1>1, <1>2, <1>3

\* Every step of the sweeps and the routes keeps the invariant.
LEMMA RtpStep ==
    ASSUME RtpInv, [RtpNext]_rtpVars
    PROVE  RtpInv'
<1>1. CASE pauseChallengeTemplate \/ resumeChallengeTemplate \/ softDeleteChallengeTemplate
    BY <1>1, UpdateTemplateKeeps
    DEF pauseChallengeTemplate, resumeChallengeTemplate, softDeleteChallengeTemplate
<1>2. ASSUME NEW s \in Sweepers, SweepStep(s) PROVE RtpInv'
    <2>1. CASE RollBack(s)
        BY <2>1, EndKeeps DEF RollBack
    <2> QED
        BY <1>2, <2>1, ReadTemplateKeeps, LockTemplateKeeps, CountPeriodKeeps, CommitSpawnKeeps
        DEF SweepStep
<1>3. CASE UNCHANGED rtpVars
    BY <1>3 DEF rtpVars, RtpInv, RtpTyped, RtpTypeOK, SweepsAim, LockSound, StillFirst, OnePerKey
<1> QED
    BY <1>1, <1>2, <1>3, NextDayKeeps, StartSweepKeeps DEF RtpNext

\* One period has one start, so one challenge per period is one per start.
LEMMA OnePerStart == RtpInv => OneChallengePerPeriod
    BY DEF RtpInv, OnePerKey, OneChallengePerPeriod

-------------------------------------------------------------------------------
(* The pages of the web front end *)

\* The kinds of pages the argument tells apart.
Keyless == ~Can("keyed")
Chosen == Can("keyed") /\ (Can("latest") \/ Can("calm"))
Emptied == Keyless /\ Can("clears")
Patched == Steady /\ Does("patches")
Reloaded == Steady /\ Does("reloads")
\* One load at a time, whose flag is set meanwhile.
Single == (Can("keyed") /\ Can("calm")) \/ Emptied \/ Patched
\* The newest request may be one for a next page.
Mixed == Can("keyed") /\ Can("more") /\ (Can("props") \/ Can("home"))
\* A list that can say that it is empty, and that it could not load.
Lists == Can("tells") /\ \E i \in DOMAIN Page[pg].screens : Page[pg].screens[i] = "none"
Appends == Can("more")
Retries == Can("retry")
Reloads == Does("reloads")
WriteOnce == Does("once")
WriteTells == Does("tells")

Acked == {w \in PageWrites : wr[w].at = "acked"}
Pressed == \E w \in PageWrites : wr[w].at # "idle"

LoadRequest ==
    [n : Nat, key : PageKeys, kind : {"load", "more"}, seen : (SUBSET PageWrites) \cup {Unserved}]
WriteRequest ==
    [at : {"idle", "sent", "served", "acked", "lost"}, key : PageKeys, kept : BOOLEAN]

\* Requests have different numbers, not above those given out.
WpTyped ==
    /\ pg \in DOMAIN Page /\ choice \in PageKeys
    /\ signed \in BOOLEAN /\ gone \in BOOLEAN /\ spin \in BOOLEAN /\ sorry \in BOOLEAN
    /\ view \in [of : SUBSET PageKeys, seen : SUBSET PageWrites]
    /\ asked \in 0 .. MaxLoads
    /\ newest \in [n : Nat, ok : BOOLEAN] /\ newest.n <= asked
    /\ calls \subseteq LoadRequest
    /\ \A f \in calls : 1 <= f.n /\ f.n <= asked
    /\ \A f, g \in calls : f.n = g.n => f = g
    /\ wr \in [PageWrites -> WriteRequest]

\* The newest request is a load, but where rows at hand took its place.
NewestLoads ==
    /\ \A f \in calls : f.kind = "more" => Appends
    /\ ~Mixed => \A f \in calls : f.n = newest.n => f.kind = "load"

\* Without a filter everything is of the first choice.
OneKey ==
    Keyless =>
        /\ choice = 1 /\ view.of \subseteq {1}
        /\ \A f \in calls : f.key = 1
        /\ \A w \in PageWrites : wr[w].key = 1

\* With one, the newest request is of the choice.
NewestKey == Chosen => \A f \in calls : f.n = newest.n => f.key = choice

\* Where loads do not overlap, what is under way is the newest.
OneLoad ==
    /\ Single \/ Reloaded => \A f \in calls : f.n = newest.n
    /\ Single /\ calls # {} => spin

\* Nor do writes where the button refuses a second one.
OneWrite == WriteOnce => \A v, w \in Busy : v = w

\* A page that a failure empties has no rows while it says so, and no load beside a
\* write that it will follow by one.
EmptiedSound ==
    Emptied =>
        /\ sorry => view.of = {}
        /\ calls # {} => ~sorry
        /\ Reloads /\ Busy # {} => calls = {} /\ ~sorry

\* Once a button was pressed, no load can replace the patched rows.
PatchSound ==
    Patched =>
        /\ Pressed => calls = {} /\ (Retries => ~sorry)
        /\ Acked \subseteq view.seen

\* A reload begins after the write was confirmed, and no write beside it.
ReloadSound ==
    Reloaded =>
        /\ Busy # {} => calls = {}
        /\ \A f \in calls : f.seen # Unserved => Acked \subseteq f.seen
        /\ newest.ok => Acked \subseteq view.seen

\* The rows are those of the choice once the newest load succeeded.
RowsMatch == (Keyless \/ Chosen) /\ newest.ok => view.of = {choice}

\* Without a token nothing is ever asked for.
LockedOut == ~MayLoad => calls = {} /\ view.of = {} /\ ~Pressed

\* A list whose newest load did not succeed has a reason to show.
Explained ==
    Lists /\ ~newest.ok =>
        \/ \E f \in calls : f.n = newest.n
        \/ sorry \/ view # Nothing \/ gone
        \/ WriteTells /\ Busy # {}
        \/ spin /\ ~MayLoad

WpInv ==
    /\ WpTyped /\ NewestLoads /\ OneKey /\ NewestKey /\ OneLoad /\ OneWrite /\ EmptiedSound
    /\ PatchSound /\ ReloadSound /\ RowsMatch /\ LockedOut /\ Explained

\* What the details of a page are when the answers that come late matter to it.
\* A filtered page that drops them, or cannot be filtered meanwhile, has its rows
\* from its loads alone.
RuleFiltered(L, W) ==
    "keyed" \in L /\ ("latest" \in L \/ "calm" \in L) =>
        /\ "more" \notin L /\ "props" \notin L /\ "home" \notin L /\ "manual" \notin L
        /\ "polls" \notin L /\ "reloads" \notin W
        /\ "calm" \in L => "spins" \in L

\* A page without a filter that a failure empties says so, loads again on request
\* only, and shows that it does; its button needs rows.
RuleEmptied(L, W) ==
    "keyed" \notin L /\ "clears" \in L =>
        /\ "spins" \in L /\ "tells" \in L /\ "polls" \notin L /\ "more" \notin L
        /\ "props" \notin L /\ "home" \notin L /\ "late" \notin L /\ "manual" \notin L
        /\ "tells" \notin W
        /\ "reloads" \in W => "once" \in W /\ "early" \notin W /\ "form" \notin W

\* A page that patches its rows and is not overtaken loads before its button can
\* be pressed, or never.
RulePatched(L, W) ==
    "patches" \in W /\ "keyed" \notin L /\ "polls" \notin L /\ "early" \notin W =>
        /\ "more" \notin L /\ "home" \notin L /\ "manual" \notin L /\ "reloads" \notin W
        /\ "tells" \notin W
        /\ "props" \in L \/ "waits" \in L
        /\ "retry" \in L => "clears" \in L /\ "form" \notin W

\* The one that reloads loads on no other occasion.
RuleReloaded(L, W) ==
    "reloads" \in W /\ "once" \in W /\ "awaits" \in W /\ "keyed" \notin L
    /\ "polls" \notin L /\ "early" \notin W =>
        "retry" \notin L /\ "more" \notin L /\ "patches" \notin W

\* Rows that come with the page need no token.
RuleSigned(L) == "token" \in L => "props" \notin L /\ "home" \notin L

\* A list with an error screen tests for the load and for the error before it says
\* that there is nothing; without a token its flag stays set.
RuleEmpty(L, W, S) ==
    "tells" \in L =>
        \A i \in DOMAIN S : S[i] = "none" =>
            /\ \E j \in 1 .. i - 1 : S[j] = "spinner" \/ S[j] = "first"
            /\ \E j \in 1 .. i - 1 : S[j] = "sorry" \/ S[j] = "bare"
            /\ "manual" \notin L
            /\ "token" \in L => "waits" \in L /\ "ends" \notin L
            /\ "more" \in L => "props" \notin L /\ "home" \notin L
            /\ "tells" \in W => "patches" \in W /\ "reloads" \notin W

PageRules(L, W, S) ==
    /\ RuleFiltered(L, W) /\ RuleEmptied(L, W) /\ RulePatched(L, W)
    /\ RuleReloaded(L, W) /\ RuleSigned(L) /\ RuleEmpty(L, W, S)

\* Every page keeps them.
LEMMA PagesKeepRules ==
    ASSUME NEW q \in DOMAIN Page
    PROVE  PageRules(Page[q].loads, Page[q].writes, Page[q].screens)
<1> USE DEF PageRules, RuleFiltered, RuleEmptied, RulePatched, RuleReloaded, RuleSigned, RuleEmpty, P
<1>1. PageRules(PayoutsLoad, PayoutsWrites, PayoutsShown)
    BY DEF PayoutsLoad, PayoutsWrites, PayoutsShown, AdminLoad
<1>2. PageRules(FraudLoad, FraudWrites, FraudShown)
    BY DEF FraudLoad, FraudWrites, FraudShown, AdminLoad
<1>3. PageRules(OperationsLoad, {}, OperationsShown)
    BY DEF OperationsLoad, OperationsShown, AdminLoad
<1>4. PageRules(OperationDetailLoad, {}, <<"rows">>)
    BY DEF OperationDetailLoad
<1>5. PageRules(AuditLoad, {}, AuditShown)
    BY DEF AuditLoad, AuditShown, AdminLoad
<1>6. PageRules(StatsLoad, StatsWrites, StatsShown)
    BY DEF StatsLoad, StatsWrites, StatsShown, AdminLoad
<1>7. PageRules(UsersLoad, UsersWrites, UsersShown)
    BY DEF UsersLoad, UsersWrites, UsersShown, AdminLoad
<1>8. PageRules(CohortLoad, {}, CohortShown)
    BY DEF CohortLoad, CohortShown
<1>9. PageRules(DashboardLoad, DashboardWrites, DashboardShown)
    BY DEF DashboardLoad, DashboardWrites, DashboardShown
<1>10. PageRules(LicensingLoad, LicensingWrites, <<"none", "rows">>)
    BY DEF LicensingLoad, LicensingWrites
<1>11. PageRules(DashboardLoad, DuplicateWrites, DuplicateShown)
    BY DEF DashboardLoad, DuplicateWrites, DuplicateShown
<1>12. PageRules(InviteCodesLoad, InviteCodesWrites, InviteCodesShown)
    BY DEF InviteCodesLoad, InviteCodesWrites, InviteCodesShown
<1>13. PageRules(TeamLoad, TeamWrites, TeamShown)
    BY DEF TeamLoad, TeamWrites, TeamShown
<1>14. PageRules(BenchmarkLoad, {}, BenchmarkShown)
    BY DEF BenchmarkLoad, BenchmarkShown
<1>15. PageRules(RetentionLoad, {}, RetentionShown)
    BY DEF RetentionLoad, RetentionShown
<1>16. PageRules(LeagueScoringLoad, LeagueScoringWrites, LeagueScoringShown)
    BY DEF LeagueScoringLoad, LeagueScoringWrites, LeagueScoringShown
<1>17. PageRules(GivenLoad, BudgetWrites, BudgetShown)
    BY DEF GivenLoad, BudgetWrites, BudgetShown
<1>18. PageRules(AnalyticsLoad, {}, AnalyticsShown)
    BY DEF AnalyticsLoad, AnalyticsShown
<1>19. PageRules(PreviewLoad, PreviewWrites, PreviewShown)
    BY DEF PreviewLoad, PreviewWrites, PreviewShown
<1>20. PageRules(TopUpLoad, {}, TopUpShown)
    BY DEF TopUpLoad, TopUpShown
<1>21. PageRules(GalleryLoad, {}, GalleryShown)
    BY DEF GalleryLoad, GalleryShown
<1>22. PageRules(GivenLoad, CloneWrites, CloneShown)
    BY DEF GivenLoad, CloneWrites, CloneShown
<1>23. PageRules(DiscoveryLoad, {}, DiscoveryShown)
    BY DEF DiscoveryLoad, DiscoveryShown
<1>24. PageRules(IndexLoad, {}, IndexShown)
    BY DEF IndexLoad, IndexShown
<1>25. PageRules(DirectoryLoad, {}, DirectoryShown)
    BY DEF DirectoryLoad, DirectoryShown
<1>26. PageRules(BoardClientLoad, {}, BoardClientShown)
    BY DEF BoardClientLoad, BoardClientShown
<1>27. PageRules(LiveBoardLoad, {}, LiveBoardShown)
    BY DEF LiveBoardLoad, LiveBoardShown
<1>28. PageRules(CommentsLoad, CommentsWrites, CommentsShown)
    BY DEF CommentsLoad, CommentsWrites, CommentsShown
<1>29. PageRules(TeamsLoad, TeamsWrites, TeamsShown)
    BY DEF TeamsLoad, TeamsWrites, TeamsShown
<1>30. PageRules(EarningsLoad, {}, EarningsShown)
    BY DEF EarningsLoad, EarningsShown
<1>31. PageRules(ReferralsLoad, ReferralsWrites, ReferralsShown)
    BY DEF ReferralsLoad, ReferralsWrites, ReferralsShown
<1>32. PageRules(ApiKeysLoad, ApiKeysWrites, ApiKeysShown)
    BY DEF ApiKeysLoad, ApiKeysWrites, ApiKeysShown
<1>33. PageRules(PreferencesLoad, PreferencesWrites, PreferencesShown)
    BY DEF PreferencesLoad, PreferencesWrites, PreferencesShown
<1>34. PageRules(SettingsLoad, SettingsWrites, SettingsShown)
    BY DEF SettingsLoad, SettingsWrites, SettingsShown
<1>35. PageRules(BellLoad, BellWrites, BellShown)
    BY DEF BellLoad, BellWrites, BellShown
<1>36. PageRules(HeaderLoad, {}, HeaderShown)
    BY DEF HeaderLoad, HeaderShown
<1>37. PageRules(RedeemLoad, RedeemWrites, RedeemShown)
    BY DEF RedeemLoad, RedeemWrites, RedeemShown
<1>38. PageRules(GivenLoad, WaitlistWrites, WaitlistShown)
    BY DEF GivenLoad, WaitlistWrites, WaitlistShown
<1>39. PageRules(GivenLoad, PinnedWrites, PinnedShown)
    BY DEF GivenLoad, PinnedWrites, PinnedShown
<1>40. PageRules(GivenLoad, RatingWrites, RatingShown)
    BY DEF GivenLoad, RatingWrites, RatingShown
<1>41. PageRules(GivenLoad, ReportWrites, <<"rows">>)
    BY DEF GivenLoad, ReportWrites
<1>42. PageRules(GivenLoad, AvatarWrites, <<"rows">>)
    BY DEF GivenLoad, AvatarWrites
<1>43. PageRules(ProfileLoad, {}, ProfileShown)
    BY DEF ProfileLoad, ProfileShown
<1>44. PageRules(BrandPageLoad, {}, BrandPageShown)
    BY DEF BrandPageLoad, BrandPageShown
<1>45. PageRules(PublicBrandLoad, {}, PublicBrandShown)
    BY DEF PublicBrandLoad, PublicBrandShown
<1>46. PageRules(GlobalBoardLoad, {}, GlobalBoardShown)
    BY DEF GlobalBoardLoad, GlobalBoardShown
<1>47. PageRules(ChallengeBoardLoad, {}, ChallengeBoardShown)
    BY DEF ChallengeBoardLoad, ChallengeBoardShown
<1>48. PageRules(SharedResultLoad, {}, SharedResultShown)
    BY DEF SharedResultLoad, SharedResultShown
<1> HIDE DEF PageRules, RuleFiltered, RuleEmptied, RulePatched, RuleReloaded, RuleSigned, RuleEmpty
<1>50. q = "payouts" \/ q = "fraud" \/ q = "operations" \/ q = "operationDetail" \/ q = "auditLog" \/ q = "stats" \/ q = "users" \/ q = "cohort" \/ q = "dashboard" \/ q = "licensing" \/ q = "duplicate" \/ q = "inviteCodes" \/ q = "team" \/ q = "benchmark" \/ q = "retention" \/ q = "leagueScoring" \/ q = "budget" \/ q = "analytics" \/ q = "preview" \/ q = "topUp" \/ q = "gallery" \/ q = "clone" \/ q = "discovery" \/ q = "index" \/ q = "directory" \/ q = "boardClient" \/ q = "liveBoard" \/ q = "comments" \/ q = "teams" \/ q = "earnings" \/ q = "referrals" \/ q = "apiKeys" \/ q = "preferences" \/ q = "settings" \/ q = "bell" \/ q = "header" \/ q = "redeem" \/ q = "waitlist" \/ q = "pinned" \/ q = "rating" \/ q = "report" \/ q = "avatarDialog" \/ q = "profile" \/ q = "brandPage" \/ q = "publicBrand" \/ q = "globalBoard" \/ q = "challengeBoard" \/ q = "sharedResult"
    BY DEF Page
<1>101. CASE q = "payouts"
    <2>1. Page[q].loads = PayoutsLoad /\ Page[q].writes = PayoutsWrites /\ Page[q].screens = PayoutsShown
        BY <1>101 DEF Page
    <2> QED
        BY <1>1, <2>1, Zenon
<1>102. CASE q = "fraud"
    <2>1. Page[q].loads = FraudLoad /\ Page[q].writes = FraudWrites /\ Page[q].screens = FraudShown
        BY <1>102 DEF Page
    <2> QED
        BY <1>2, <2>1, Zenon
<1>103. CASE q = "operations"
    <2>1. Page[q].loads = OperationsLoad /\ Page[q].writes = {} /\ Page[q].screens = OperationsShown
        BY <1>103 DEF Page
    <2> QED
        BY <1>3, <2>1, Zenon
<1>104. CASE q = "operationDetail"
    <2>1. Page[q].loads = OperationDetailLoad /\ Page[q].writes = {} /\ Page[q].screens = <<"rows">>
        BY <1>104 DEF Page
    <2> QED
        BY <1>4, <2>1, Zenon
<1>105. CASE q = "auditLog"
    <2>1. Page[q].loads = AuditLoad /\ Page[q].writes = {} /\ Page[q].screens = AuditShown
        BY <1>105 DEF Page
    <2> QED
        BY <1>5, <2>1, Zenon
<1>106. CASE q = "stats"
    <2>1. Page[q].loads = StatsLoad /\ Page[q].writes = StatsWrites /\ Page[q].screens = StatsShown
        BY <1>106 DEF Page
    <2> QED
        BY <1>6, <2>1, Zenon
<1>107. CASE q = "users"
    <2>1. Page[q].loads = UsersLoad /\ Page[q].writes = UsersWrites /\ Page[q].screens = UsersShown
        BY <1>107 DEF Page
    <2> QED
        BY <1>7, <2>1, Zenon
<1>108. CASE q = "cohort"
    <2>1. Page[q].loads = CohortLoad /\ Page[q].writes = {} /\ Page[q].screens = CohortShown
        BY <1>108 DEF Page
    <2> QED
        BY <1>8, <2>1, Zenon
<1>109. CASE q = "dashboard"
    <2>1. Page[q].loads = DashboardLoad /\ Page[q].writes = DashboardWrites /\ Page[q].screens = DashboardShown
        BY <1>109 DEF Page
    <2> QED
        BY <1>9, <2>1, Zenon
<1>110. CASE q = "licensing"
    <2>1. Page[q].loads = LicensingLoad /\ Page[q].writes = LicensingWrites /\ Page[q].screens = <<"none", "rows">>
        BY <1>110 DEF Page
    <2> QED
        BY <1>10, <2>1, Zenon
<1>111. CASE q = "duplicate"
    <2>1. Page[q].loads = DashboardLoad /\ Page[q].writes = DuplicateWrites /\ Page[q].screens = DuplicateShown
        BY <1>111 DEF Page
    <2> QED
        BY <1>11, <2>1, Zenon
<1>112. CASE q = "inviteCodes"
    <2>1. Page[q].loads = InviteCodesLoad /\ Page[q].writes = InviteCodesWrites /\ Page[q].screens = InviteCodesShown
        BY <1>112 DEF Page
    <2> QED
        BY <1>12, <2>1, Zenon
<1>113. CASE q = "team"
    <2>1. Page[q].loads = TeamLoad /\ Page[q].writes = TeamWrites /\ Page[q].screens = TeamShown
        BY <1>113 DEF Page
    <2> QED
        BY <1>13, <2>1, Zenon
<1>114. CASE q = "benchmark"
    <2>1. Page[q].loads = BenchmarkLoad /\ Page[q].writes = {} /\ Page[q].screens = BenchmarkShown
        BY <1>114 DEF Page
    <2> QED
        BY <1>14, <2>1, Zenon
<1>115. CASE q = "retention"
    <2>1. Page[q].loads = RetentionLoad /\ Page[q].writes = {} /\ Page[q].screens = RetentionShown
        BY <1>115 DEF Page
    <2> QED
        BY <1>15, <2>1, Zenon
<1>116. CASE q = "leagueScoring"
    <2>1. Page[q].loads = LeagueScoringLoad /\ Page[q].writes = LeagueScoringWrites /\ Page[q].screens = LeagueScoringShown
        BY <1>116 DEF Page
    <2> QED
        BY <1>16, <2>1, Zenon
<1>117. CASE q = "budget"
    <2>1. Page[q].loads = GivenLoad /\ Page[q].writes = BudgetWrites /\ Page[q].screens = BudgetShown
        BY <1>117 DEF Page
    <2> QED
        BY <1>17, <2>1, Zenon
<1>118. CASE q = "analytics"
    <2>1. Page[q].loads = AnalyticsLoad /\ Page[q].writes = {} /\ Page[q].screens = AnalyticsShown
        BY <1>118 DEF Page
    <2> QED
        BY <1>18, <2>1, Zenon
<1>119. CASE q = "preview"
    <2>1. Page[q].loads = PreviewLoad /\ Page[q].writes = PreviewWrites /\ Page[q].screens = PreviewShown
        BY <1>119 DEF Page
    <2> QED
        BY <1>19, <2>1, Zenon
<1>120. CASE q = "topUp"
    <2>1. Page[q].loads = TopUpLoad /\ Page[q].writes = {} /\ Page[q].screens = TopUpShown
        BY <1>120 DEF Page
    <2> QED
        BY <1>20, <2>1, Zenon
<1>121. CASE q = "gallery"
    <2>1. Page[q].loads = GalleryLoad /\ Page[q].writes = {} /\ Page[q].screens = GalleryShown
        BY <1>121 DEF Page
    <2> QED
        BY <1>21, <2>1, Zenon
<1>122. CASE q = "clone"
    <2>1. Page[q].loads = GivenLoad /\ Page[q].writes = CloneWrites /\ Page[q].screens = CloneShown
        BY <1>122 DEF Page
    <2> QED
        BY <1>22, <2>1, Zenon
<1>123. CASE q = "discovery"
    <2>1. Page[q].loads = DiscoveryLoad /\ Page[q].writes = {} /\ Page[q].screens = DiscoveryShown
        BY <1>123 DEF Page
    <2> QED
        BY <1>23, <2>1, Zenon
<1>124. CASE q = "index"
    <2>1. Page[q].loads = IndexLoad /\ Page[q].writes = {} /\ Page[q].screens = IndexShown
        BY <1>124 DEF Page
    <2> QED
        BY <1>24, <2>1, Zenon
<1>125. CASE q = "directory"
    <2>1. Page[q].loads = DirectoryLoad /\ Page[q].writes = {} /\ Page[q].screens = DirectoryShown
        BY <1>125 DEF Page
    <2> QED
        BY <1>25, <2>1, Zenon
<1>126. CASE q = "boardClient"
    <2>1. Page[q].loads = BoardClientLoad /\ Page[q].writes = {} /\ Page[q].screens = BoardClientShown
        BY <1>126 DEF Page
    <2> QED
        BY <1>26, <2>1, Zenon
<1>127. CASE q = "liveBoard"
    <2>1. Page[q].loads = LiveBoardLoad /\ Page[q].writes = {} /\ Page[q].screens = LiveBoardShown
        BY <1>127 DEF Page
    <2> QED
        BY <1>27, <2>1, Zenon
<1>128. CASE q = "comments"
    <2>1. Page[q].loads = CommentsLoad /\ Page[q].writes = CommentsWrites /\ Page[q].screens = CommentsShown
        BY <1>128 DEF Page
    <2> QED
        BY <1>28, <2>1, Zenon
<1>129. CASE q = "teams"
    <2>1. Page[q].loads = TeamsLoad /\ Page[q].writes = TeamsWrites /\ Page[q].screens = TeamsShown
        BY <1>129 DEF Page
    <2> QED
        BY <1>29, <2>1, Zenon
<1>130. CASE q = "earnings"
    <2>1. Page[q].loads = EarningsLoad /\ Page[q].writes = {} /\ Page[q].screens = EarningsShown
        BY <1>130 DEF Page
    <2> QED
        BY <1>30, <2>1, Zenon
<1>131. CASE q = "referrals"
    <2>1. Page[q].loads = ReferralsLoad /\ Page[q].writes = ReferralsWrites /\ Page[q].screens = ReferralsShown
        BY <1>131 DEF Page
    <2> QED
        BY <1>31, <2>1, Zenon
<1>132. CASE q = "apiKeys"
    <2>1. Page[q].loads = ApiKeysLoad /\ Page[q].writes = ApiKeysWrites /\ Page[q].screens = ApiKeysShown
        BY <1>132 DEF Page
    <2> QED
        BY <1>32, <2>1, Zenon
<1>133. CASE q = "preferences"
    <2>1. Page[q].loads = PreferencesLoad /\ Page[q].writes = PreferencesWrites /\ Page[q].screens = PreferencesShown
        BY <1>133 DEF Page
    <2> QED
        BY <1>33, <2>1, Zenon
<1>134. CASE q = "settings"
    <2>1. Page[q].loads = SettingsLoad /\ Page[q].writes = SettingsWrites /\ Page[q].screens = SettingsShown
        BY <1>134 DEF Page
    <2> QED
        BY <1>34, <2>1, Zenon
<1>135. CASE q = "bell"
    <2>1. Page[q].loads = BellLoad /\ Page[q].writes = BellWrites /\ Page[q].screens = BellShown
        BY <1>135 DEF Page
    <2> QED
        BY <1>35, <2>1, Zenon
<1>136. CASE q = "header"
    <2>1. Page[q].loads = HeaderLoad /\ Page[q].writes = {} /\ Page[q].screens = HeaderShown
        BY <1>136 DEF Page
    <2> QED
        BY <1>36, <2>1, Zenon
<1>137. CASE q = "redeem"
    <2>1. Page[q].loads = RedeemLoad /\ Page[q].writes = RedeemWrites /\ Page[q].screens = RedeemShown
        BY <1>137 DEF Page
    <2> QED
        BY <1>37, <2>1, Zenon
<1>138. CASE q = "waitlist"
    <2>1. Page[q].loads = GivenLoad /\ Page[q].writes = WaitlistWrites /\ Page[q].screens = WaitlistShown
        BY <1>138 DEF Page
    <2> QED
        BY <1>38, <2>1, Zenon
<1>139. CASE q = "pinned"
    <2>1. Page[q].loads = GivenLoad /\ Page[q].writes = PinnedWrites /\ Page[q].screens = PinnedShown
        BY <1>139 DEF Page
    <2> QED
        BY <1>39, <2>1, Zenon
<1>140. CASE q = "rating"
    <2>1. Page[q].loads = GivenLoad /\ Page[q].writes = RatingWrites /\ Page[q].screens = RatingShown
        BY <1>140 DEF Page
    <2> QED
        BY <1>40, <2>1, Zenon
<1>141. CASE q = "report"
    <2>1. Page[q].loads = GivenLoad /\ Page[q].writes = ReportWrites /\ Page[q].screens = <<"rows">>
        BY <1>141 DEF Page
    <2> QED
        BY <1>41, <2>1, Zenon
<1>142. CASE q = "avatarDialog"
    <2>1. Page[q].loads = GivenLoad /\ Page[q].writes = AvatarWrites /\ Page[q].screens = <<"rows">>
        BY <1>142 DEF Page
    <2> QED
        BY <1>42, <2>1, Zenon
<1>143. CASE q = "profile"
    <2>1. Page[q].loads = ProfileLoad /\ Page[q].writes = {} /\ Page[q].screens = ProfileShown
        BY <1>143 DEF Page
    <2> QED
        BY <1>43, <2>1, Zenon
<1>144. CASE q = "brandPage"
    <2>1. Page[q].loads = BrandPageLoad /\ Page[q].writes = {} /\ Page[q].screens = BrandPageShown
        BY <1>144 DEF Page
    <2> QED
        BY <1>44, <2>1, Zenon
<1>145. CASE q = "publicBrand"
    <2>1. Page[q].loads = PublicBrandLoad /\ Page[q].writes = {} /\ Page[q].screens = PublicBrandShown
        BY <1>145 DEF Page
    <2> QED
        BY <1>45, <2>1, Zenon
<1>146. CASE q = "globalBoard"
    <2>1. Page[q].loads = GlobalBoardLoad /\ Page[q].writes = {} /\ Page[q].screens = GlobalBoardShown
        BY <1>146 DEF Page
    <2> QED
        BY <1>46, <2>1, Zenon
<1>147. CASE q = "challengeBoard"
    <2>1. Page[q].loads = ChallengeBoardLoad /\ Page[q].writes = {} /\ Page[q].screens = ChallengeBoardShown
        BY <1>147 DEF Page
    <2> QED
        BY <1>47, <2>1, Zenon
<1>148. CASE q = "sharedResult"
    <2>1. Page[q].loads = SharedResultLoad /\ Page[q].writes = {} /\ Page[q].screens = SharedResultShown
        BY <1>148 DEF Page
    <2> QED
        BY <1>48, <2>1, Zenon
<1> QED
    BY <1>50, <1>101, <1>102, <1>103, <1>104, <1>105, <1>106, <1>107, <1>108, <1>109, <1>110, <1>111, <1>112, <1>113, <1>114, <1>115, <1>116, <1>117, <1>118, <1>119, <1>120, <1>121, <1>122, <1>123, <1>124, <1>125, <1>126, <1>127, <1>128, <1>129, <1>130, <1>131, <1>132, <1>133, <1>134, <1>135, <1>136, <1>137, <1>138, <1>139, <1>140, <1>141, <1>142, <1>143, <1>144, <1>145, <1>146, <1>147, <1>148, Zenon

\* The rules, of the kinds of pages.
FilteredFacts ==
    Chosen => /\ ~Can("more") /\ ~Can("props") /\ ~Can("home") /\ ~Can("manual")
              /\ ~Can("polls") /\ ~Does("reloads") /\ (Can("calm") => Can("spins"))
              /\ Can("keyed")
EmptiedFacts ==
    Emptied => /\ Can("spins") /\ Can("tells") /\ Can("clears") /\ ~Can("polls") /\ ~Can("more")
               /\ ~Can("props") /\ ~Can("home") /\ ~Can("late") /\ ~Can("manual") /\ ~Does("tells")
               /\ ~Can("keyed")
               /\ Does("reloads") => Does("once") /\ ~Does("early") /\ ~Does("form")
PatchedFacts ==
    Patched => /\ ~Can("keyed") /\ ~Can("polls") /\ ~Does("early") /\ ~Can("more") /\ ~Can("home")
               /\ ~Can("manual") /\ ~Does("reloads") /\ ~Does("tells") /\ Does("patches")
               /\ (Can("props") \/ Can("waits"))
               /\ Can("retry") => Can("clears") /\ ~Does("form")
ReloadedFacts ==
    Reloaded => /\ ~Can("keyed") /\ ~Can("polls") /\ ~Does("early") /\ Does("once") /\ Does("awaits")
                /\ ~Can("retry") /\ ~Can("more") /\ ~Does("patches") /\ Does("reloads")
SignedFacts == Can("token") => ~Can("props") /\ ~Can("home")
ListFacts ==
    Lists => /\ Can("tells") /\ ~Can("manual") /\ (Can("token") => Can("waits") /\ ~Can("ends"))
             /\ ~Mixed
             /\ Does("tells") => Does("patches") /\ ~Does("reloads")

\* Steady, read off the details.
LEMMA SteadyIs ==
    Steady <=> /\ ~Can("keyed") /\ ~Can("polls") /\ ~Does("early")
               /\ Does("reloads") => Does("once") /\ Does("awaits")
BY DEF Steady, Can, Does

\* A page of its kind keeps the rules of its kind.
LEMMA KindFacts ==
    ASSUME pg \in DOMAIN Page
    PROVE  FilteredFacts /\ EmptiedFacts /\ PatchedFacts /\ ReloadedFacts /\ SignedFacts /\ ListFacts
<1> DEFINE L == Page[pg].loads
           W == Page[pg].writes
           S == Page[pg].screens
<1>1. PageRules(L, W, S)
    BY PagesKeepRules
<1>2. FilteredFacts
    BY <1>1, Zenon DEF PageRules, RuleFiltered, FilteredFacts, Chosen, Can, Does
<1>3. EmptiedFacts
    BY <1>1, Zenon DEF PageRules, RuleEmptied, EmptiedFacts, Emptied, Keyless, Can, Does
<1>4. PatchedFacts
    <2>1. RulePatched(L, W)
        BY <1>1, Zenon DEF PageRules
    <2> QED
        BY <2>1, SteadyIs, Zenon DEF RulePatched, PatchedFacts, Patched, Can, Does
<1>5. ReloadedFacts
    <2>1. RuleReloaded(L, W)
        BY <1>1, Zenon DEF PageRules
    <2> QED
        BY <2>1, SteadyIs, Zenon DEF RuleReloaded, ReloadedFacts, Reloaded, Can, Does
<1>6. SignedFacts
    BY <1>1, Zenon DEF PageRules, RuleSigned, SignedFacts, Can
<1>7. ListFacts
    <2>1. RuleEmpty(L, W, S)
        BY <1>1, Zenon DEF PageRules
    <2> QED
        BY <2>1, Zenon DEF RuleEmpty, ListFacts, Lists, Mixed, Can, Does
<1> QED
    BY <1>2, <1>3, <1>4, <1>5, <1>6, <1>7, Zenon

\* The page and the token stay, and with them the kind.
KindKept ==
    /\ Keyless' <=> Keyless
    /\ Chosen' <=> Chosen
    /\ Emptied' <=> Emptied
    /\ Patched' <=> Patched
    /\ Reloaded' <=> Reloaded
    /\ Single' <=> Single
    /\ Mixed' <=> Mixed
    /\ Lists' <=> Lists
    /\ Appends' <=> Appends
    /\ Retries' <=> Retries
    /\ Reloads' <=> Reloads
    /\ WriteOnce' <=> WriteOnce
    /\ WriteTells' <=> WriteTells
    /\ MayLoad' <=> MayLoad

\* A step that leaves the page and the token leaves its kind.
LEMMA KindStays ==
    ASSUME pg' = pg, signed' = signed
    PROVE  KindKept
BY Zenon DEF KindKept, Keyless, Chosen, Emptied, Patched, Reloaded, Steady, Single, Mixed, Lists, Appends,
       Retries, Reloads, WriteOnce, WriteTells, MayLoad, Can, Does

\* What a request is when it is made.
LEMMA CallIs ==
    ASSUME WpTyped, NEW k \in PageKeys, NEW kind \in {"load", "more"}
    PROVE  /\ Call(k, kind) \in LoadRequest /\ Call(k, kind).n = asked + 1 /\ Call(k, kind).key = k
           /\ Call(k, kind).kind = kind /\ Call(k, kind).seen = Unserved
           /\ asked + 1 \in Nat
           /\ \A f \in calls : f.n # asked + 1
<1>1. asked \in Nat
    BY WpAssumption DEF WpTyped
<1>2. \A f \in calls : f.n \in Nat /\ f.n <= asked
    BY DEF WpTyped, LoadRequest
<1> QED
    BY <1>1, <1>2 DEF Call, LoadRequest

\* A load begins: none beside it where loads do not overlap, none before a write is
\* over where it has to show it.
LEMMA LoadBegins ==
    ASSUME WpInv, NEW k \in PageKeys, BeginLoad(k), UNCHANGED <<pg, signed>>,
           choice' \in PageKeys, gone' \in BOOLEAN, wr' \in [PageWrites -> WriteRequest],
           Keyless => k = 1 /\ choice' = 1 /\ \A w \in PageWrites : wr'[w].key = 1,
           Chosen => choice' = k,
           Single \/ Reloaded => calls = {},
           Single => Can("spins"),
           Reloaded => Busy' = {},
           Patched => ~Pressed',
           Emptied /\ Reloads => Busy' = {},
           WriteOnce => \A v, w \in Busy' : v = w,
           MayLoad
    PROVE  WpInv'
<1> DEFINE c == Call(k, "load")
<1>1. /\ c \in LoadRequest /\ c.n = asked + 1 /\ c.key = k /\ c.kind = "load" /\ c.seen = Unserved
      /\ asked + 1 \in Nat /\ \A f \in calls : f.n # asked + 1
    BY CallIs DEF WpInv
<1>2. /\ asked < MaxLoads /\ asked' = asked + 1 /\ calls' = calls \cup {c}
      /\ newest' = [n |-> asked + 1, ok |-> FALSE]
      /\ view' = (IF Can("wipes") THEN Nothing ELSE view)
    BY DEF BeginLoad
<1>3. /\ spin' \in BOOLEAN /\ (spin' <=> (spin \/ Can("spins")))
      /\ sorry' \in BOOLEAN /\ (sorry' <=> (sorry /\ Can("late")))
    BY Zenon DEF BeginLoad
<1> HIDE DEF c
<1>4. KindKept
    BY KindStays
<1>5. newest'.n = asked + 1 /\ newest'.ok = FALSE /\ newest' \in [n : Nat, ok : BOOLEAN]
    BY <1>1, <1>2
<1>6. EmptiedFacts
    BY KindFacts DEF WpInv, WpTyped
<1>7. view' \in [of : SUBSET PageKeys, seen : SUBSET PageWrites] /\ view'.of \subseteq view.of
    <2>1. Nothing \in [of : SUBSET PageKeys, seen : SUBSET PageWrites] /\ Nothing.of = {}
        BY DEF Nothing
    <2>2. view \in [of : SUBSET PageKeys, seen : SUBSET PageWrites]
        BY DEF WpInv, WpTyped
    <2> QED
        BY <1>2, <2>1, <2>2, Zenon
<1>8. WpTyped'
    <2>1. pg' \in DOMAIN Page /\ signed' \in BOOLEAN
        BY DEF WpInv, WpTyped
    <2>2. asked' \in 0 .. MaxLoads /\ newest'.n <= asked'
        BY <1>2, <1>5, WpAssumption DEF WpInv, WpTyped
    <2>3. calls' \subseteq LoadRequest
        BY <1>1, <1>2, Zenon DEF WpInv, WpTyped
    <2>4. \A f \in calls' : 1 <= f.n /\ f.n <= asked'
        <3>1. \A f \in calls : f.n \in Nat /\ 1 <= f.n /\ f.n <= asked
            BY DEF WpInv, WpTyped, LoadRequest
        <3>2. asked \in Nat
            BY WpAssumption DEF WpInv, WpTyped
        <3> QED
            BY <1>1, <1>2, <3>1, <3>2
    <2>5. \A f, g \in calls' : f.n = g.n => f = g
        BY <1>1, <1>2, Zenon DEF WpInv, WpTyped
    <2> QED
        BY <1>3, <1>5, <1>7, <2>1, <2>2, <2>3, <2>4, <2>5, Zenon DEF WpTyped
<1>9. NewestLoads'
    BY <1>1, <1>2, <1>4, <1>5, Zenon DEF WpInv, NewestLoads, KindKept
<1>10. OneKey'
    BY <1>1, <1>2, <1>4, <1>7, Zenon DEF WpInv, OneKey, KindKept
<1>11. NewestKey'
    BY <1>1, <1>2, <1>4, <1>5, Zenon DEF NewestKey, KindKept
<1>12. OneLoad'
    BY <1>1, <1>2, <1>3, <1>4, <1>5, Zenon DEF OneLoad, KindKept
<1>13. OneWrite'
    BY <1>4, Zenon DEF OneWrite, KindKept
<1>14. EmptiedSound'
    BY <1>3, <1>4, <1>6, Zenon DEF EmptiedSound, KindKept, EmptiedFacts
<1>15. PatchSound'
    <2>1. ~Pressed' => Acked' = {}
        BY Zenon DEF Pressed, Acked
    <2> QED
        BY <1>4, <2>1, Zenon DEF PatchSound, KindKept
<1>16. ReloadSound'
    BY <1>1, <1>2, <1>4, <1>5, Zenon DEF ReloadSound, KindKept
<1>17. RowsMatch' /\ LockedOut'
    BY <1>4, <1>5, Zenon DEF RowsMatch, LockedOut, KindKept
<1>18. Explained'
    BY <1>1, <1>2, <1>5, Zenon DEF Explained
<1> QED
    BY <1>8, <1>9, <1>10, <1>11, <1>12, <1>13, <1>14, <1>15, <1>16, <1>17, <1>18, Zenon DEF WpInv

\* All the rules at once, in a reachable state.
LEMMA Facts ==
    ASSUME WpInv
    PROVE  FilteredFacts /\ EmptiedFacts /\ PatchedFacts /\ ReloadedFacts /\ SignedFacts /\ ListFacts
BY KindFacts DEF WpInv, WpTyped

\* A page with one load at a time has none when the flag is down.
LEMMA NoneUnderWay ==
    ASSUME WpInv, Single, ~spin
    PROVE  calls = {}
BY Zenon DEF WpInv, OneLoad

\* A button or the interval loads again.
LEMMA LoadAgainKeeps ==
    ASSUME WpInv, LoadAgain
    PROVE  WpInv'
<1>1. /\ MayLoad /\ BeginLoad(choice) /\ UNCHANGED <<pg, signed, gone, choice, wr>>
      /\ Can("polls") \/ (Can("retry") /\ (sorry \/ Can("manual")) /\ ~spin)
    BY Zenon DEF LoadAgain
<1>2. FilteredFacts /\ EmptiedFacts /\ PatchedFacts /\ ReloadedFacts
    BY Facts
<1>3. choice \in PageKeys /\ choice' \in PageKeys /\ gone' \in BOOLEAN /\ wr' \in [PageWrites -> WriteRequest]
    BY <1>1 DEF WpInv, WpTyped
<1>4. Keyless => choice = 1 /\ choice' = 1 /\ \A w \in PageWrites : wr'[w].key = 1
    BY <1>1, Zenon DEF WpInv, OneKey
<1>5. Chosen => choice' = choice
    BY <1>1, Zenon
<1>6. Single => ~Can("polls") /\ ~spin /\ Can("retry")
    BY <1>1, <1>2, Zenon DEF Single, Chosen, FilteredFacts, EmptiedFacts, PatchedFacts
<1>7. ~Reloaded
    BY <1>1, <1>2, Zenon DEF ReloadedFacts
<1>8. Single \/ Reloaded => calls = {}
    BY <1>6, <1>7, NoneUnderWay, Zenon
<1>9. Single => Can("spins")
    BY <1>2, <1>6, Zenon DEF Single, Chosen, Emptied, Keyless, FilteredFacts, EmptiedFacts, PatchedFacts
<1>10. Busy' = Busy /\ (Pressed' <=> Pressed)
    BY <1>1, Zenon DEF Busy, Pressed
<1>11. Patched => ~Pressed'
    <2> SUFFICES ASSUME Patched, Pressed PROVE FALSE
        BY <1>10, Zenon
    <2>1. Single
        BY Zenon DEF Single
    <2>2. Can("retry") /\ sorry
        BY <1>1, <1>2, <1>6, <2>1, Zenon DEF PatchedFacts
    <2> QED
        BY <2>2, Zenon DEF WpInv, PatchSound, Retries
<1>12. Emptied /\ Reloads => Busy' = {}
    <2> SUFFICES ASSUME Emptied, Reloads, Busy # {} PROVE FALSE
        BY <1>10, Zenon
    <2>1. sorry
        BY <1>1, <1>2, Zenon DEF EmptiedFacts
    <2> QED
        BY <2>1, Zenon DEF WpInv, EmptiedSound
<1>13. WriteOnce => \A v, w \in Busy' : v = w
    BY <1>10, Zenon DEF WpInv, OneWrite
<1>14. BeginLoad(choice) /\ UNCHANGED <<pg, signed>> /\ MayLoad /\ (Reloaded => Busy' = {})
    BY <1>1, <1>7
<1> QED
    BY <1>3, <1>4, <1>5, <1>8, <1>9, <1>11, <1>12, <1>13, <1>14, LoadBegins

\* The visitor chooses.
LEMMA ChooseKeeps ==
    ASSUME WpInv, NEW k \in PageKeys, Choose(k)
    PROVE  WpInv'
<1>1. /\ Can("keyed") /\ MayLoad /\ (Can("calm") => ~spin) /\ choice' = k
      /\ UNCHANGED <<pg, signed, gone, wr>>
    BY Zenon DEF Choose
<1>2. FilteredFacts /\ EmptiedFacts /\ PatchedFacts /\ ReloadedFacts
    BY Facts
<1>3. ~Keyless /\ ~Emptied /\ ~Patched /\ ~Reloaded
    BY <1>1, <1>2, Zenon DEF Keyless, Emptied, PatchedFacts, ReloadedFacts
<1>4. Single => Can("calm") /\ Chosen
    BY <1>1, <1>3, Zenon DEF Single, Chosen
<1>5. KindKept
    BY <1>1, KindStays
<1>6. Busy' = Busy /\ (Pressed' <=> Pressed) /\ Acked' = Acked
    BY <1>1, Zenon DEF Busy, Pressed, Acked
<1>7. CASE ~AtHand(k) /\ ~Can("manual")
    <2>1. BeginLoad(k)
        BY <1>7, Zenon DEF Choose
    <2>2. choice' \in PageKeys /\ gone' \in BOOLEAN /\ wr' \in [PageWrites -> WriteRequest]
        BY <1>1 DEF WpInv, WpTyped
    <2>3. Single \/ Reloaded => calls = {}
        BY <1>1, <1>3, <1>4, NoneUnderWay, Zenon
    <2>4. Single => Can("spins")
        BY <1>2, <1>4, Zenon DEF FilteredFacts
    <2>5. WriteOnce => \A v, w \in Busy' : v = w
        BY <1>6, Zenon DEF WpInv, OneWrite
    <2>6. /\ UNCHANGED <<pg, signed>> /\ MayLoad
          /\ Reloaded => Busy' = {}
          /\ Patched => ~Pressed'
          /\ Emptied /\ Reloads => Busy' = {}
          /\ Chosen => choice' = k
          /\ Keyless => k = 1 /\ choice' = 1 /\ \A w \in PageWrites : wr'[w].key = 1
        BY <1>1, <1>3, Zenon
    <2> QED
        BY <2>1, <2>2, <2>3, <2>4, <2>5, <2>6, LoadBegins
<1>8. CASE AtHand(k) \/ Can("manual")
    <2>1. ~Chosen /\ ~Single
        <3>1. AtHand(k) => Can("props") \/ Can("home")
            BY Zenon DEF AtHand
        <3> QED
            BY <1>2, <1>4, <1>8, <3>1, Zenon DEF FilteredFacts
    <2>2. UNCHANGED <<asked, calls, spin>>
        BY <1>8, Zenon DEF Choose
    <2>3. \/ /\ AtHand(k) /\ view' = [of |-> {k}, seen |-> {}] /\ sorry' = FALSE
             /\ newest' = [n |-> asked, ok |-> TRUE]
          \/ UNCHANGED <<sorry, view, newest>>
        BY <1>8, Zenon DEF Choose
    <2>4. asked \in Nat /\ newest.n \in Nat /\ newest.n <= asked
        BY WpAssumption DEF WpInv, WpTyped
    <2>5. WpTyped'
        <3>1. choice' \in PageKeys
            BY <1>1
        <3>2. view' \in [of : SUBSET PageKeys, seen : SUBSET PageWrites]
            BY <2>3 DEF WpInv, WpTyped
        <3>3. newest' \in [n : Nat, ok : BOOLEAN] /\ newest'.n <= asked'
            <4>1. asked' = asked
                BY <2>2
            <4>2. CASE newest' = [n |-> asked, ok |-> TRUE]
                BY <2>4, <4>1, <4>2
            <4>3. CASE newest' = newest
                BY <2>4, <4>1, <4>3 DEF WpInv, WpTyped
            <4> QED
                BY <2>3, <4>2, <4>3, Zenon
        <3>4. sorry' \in BOOLEAN
            BY <2>3, Zenon DEF WpInv, WpTyped
        <3> QED
            BY <1>1, <2>2, <3>1, <3>2, <3>3, <3>4, Zenon DEF WpInv, WpTyped
    <2>6. NewestLoads'
        <3>1. CASE AtHand(k)
            <4>1. ~Mixed => ~Appends
                BY <1>1, <3>1, Zenon DEF Mixed, Appends, AtHand
            <4>2. \A f \in calls : f.kind \in {"load", "more"}
                BY DEF WpInv, WpTyped, LoadRequest
            <4>3. ~Mixed => \A f \in calls : f.kind = "load"
                BY <4>1, <4>2, Zenon DEF WpInv, NewestLoads
            <4> QED
                BY <1>5, <2>2, <4>3, Zenon DEF WpInv, NewestLoads, KindKept
        <3>2. CASE newest' = newest
            BY <1>5, <2>2, <3>2, Zenon DEF WpInv, NewestLoads, KindKept
        <3> QED
            BY <2>3, <3>1, <3>2, Zenon
    <2>7. OneKey' /\ NewestKey' /\ OneLoad' /\ EmptiedSound' /\ PatchSound' /\ ReloadSound' /\ RowsMatch'
        BY <1>3, <1>5, <2>1, Zenon DEF KindKept, OneKey, NewestKey, OneLoad, EmptiedSound, PatchSound,
           ReloadSound, RowsMatch
    <2>8. OneWrite'
        BY <1>5, <1>6, Zenon DEF WpInv, OneWrite, KindKept
    <2>9. LockedOut'
        BY <1>1, <1>5, Zenon DEF LockedOut, KindKept
    <2>10. Explained'
        <3>1. CASE newest' = [n |-> asked, ok |-> TRUE]
            <4>1. newest'.ok = TRUE
                BY <3>1
            <4> QED
                BY <4>1, Zenon DEF Explained
        <3>2. CASE UNCHANGED <<sorry, view, newest>>
            BY <1>1, <1>5, <1>6, <2>2, <3>2, Zenon DEF WpInv, Explained, KindKept, Nothing
        <3> QED
            BY <2>3, <3>1, <3>2, Zenon
    <2> QED
        BY <2>5, <2>6, <2>7, <2>8, <2>9, <2>10, Zenon DEF WpInv
<1> QED
    BY <1>7, <1>8, Zenon

\* The next page is asked for.
LEMMA LoadMoreKeeps ==
    ASSUME WpInv, LoadMore
    PROVE  WpInv'
<1> DEFINE c == Call(choice, "more")
<1>0. choice \in PageKeys
    BY DEF WpInv, WpTyped
<1>1. /\ c \in LoadRequest /\ c.n = asked + 1 /\ c.key = choice /\ c.kind = "more" /\ c.seen = Unserved
      /\ asked + 1 \in Nat /\ \A f \in calls : f.n # asked + 1
    BY <1>0, CallIs DEF WpInv
<1>2. /\ Can("more") /\ view.of # {} /\ asked < MaxLoads /\ asked' = asked + 1 /\ calls' = calls \cup {c}
      /\ UNCHANGED <<pg, signed, gone, choice, view, newest, wr>>
    BY Zenon DEF LoadMore
<1>3. spin' \in BOOLEAN /\ sorry' \in BOOLEAN
    <2>1. spin' = Can("moreSpins") /\ sorry' = (sorry /\ ~Can("moreSpins"))
        BY Zenon DEF LoadMore
    <2>2. Can("moreSpins") \in BOOLEAN /\ (sorry /\ ~Can("moreSpins")) \in BOOLEAN
        BY SMT DEF Can
    <2> QED
        BY <2>1, <2>2, Zenon
<1> HIDE DEF c
<1>4. KindKept
    BY <1>2, KindStays
<1>5. ~Chosen /\ ~Emptied /\ ~Patched /\ ~Reloaded /\ ~Single
    BY <1>2, Facts, Zenon DEF Single, Chosen, FilteredFacts, EmptiedFacts, PatchedFacts, ReloadedFacts
<1>6. Busy' = Busy /\ (Pressed' <=> Pressed)
    BY <1>2, Zenon DEF Busy, Pressed
<1>7. asked \in Nat /\ newest.n \in Nat /\ newest.n <= asked /\ newest.n # asked + 1
    BY WpAssumption DEF WpInv, WpTyped
<1>8. WpTyped'
    <2>1. asked' \in 0 .. MaxLoads /\ newest'.n <= asked'
        BY <1>2, <1>7, WpAssumption
    <2>2. calls' \subseteq LoadRequest
        BY <1>1, <1>2, Zenon DEF WpInv, WpTyped
    <2>3. \A f \in calls' : 1 <= f.n /\ f.n <= asked'
        <3>1. \A f \in calls : f.n \in Nat /\ 1 <= f.n /\ f.n <= asked
            BY DEF WpInv, WpTyped, LoadRequest
        <3> QED
            BY <1>1, <1>2, <1>7, <3>1
    <2>4. \A f, g \in calls' : f.n = g.n => f = g
        BY <1>1, <1>2, Zenon DEF WpInv, WpTyped
    <2> QED
        BY <1>2, <1>3, <2>1, <2>2, <2>3, <2>4, Zenon DEF WpInv, WpTyped
<1>9. NewestLoads'
    BY <1>1, <1>2, <1>4, <1>7, Zenon DEF WpInv, NewestLoads, KindKept, Appends
<1>10. OneKey'
    BY <1>1, <1>2, <1>4, Zenon DEF WpInv, OneKey, KindKept
<1>11. NewestKey' /\ OneLoad' /\ EmptiedSound' /\ PatchSound' /\ ReloadSound'
    BY <1>4, <1>5, Zenon DEF KindKept, NewestKey, OneLoad, EmptiedSound, PatchSound, ReloadSound
<1>12. OneWrite' /\ RowsMatch'
    BY <1>2, <1>4, <1>6, Zenon DEF WpInv, OneWrite, RowsMatch, KindKept
<1>13. LockedOut'
    BY <1>2, <1>4, Zenon DEF WpInv, LockedOut, KindKept
<1>14. Explained'
    <2>1. Nothing.of = {}
        BY DEF Nothing
    <2>2. view' # Nothing
        BY <1>2, <2>1, Zenon
    <2>3. Nothing' = Nothing
        BY DEF Nothing
    <2> QED
        BY <2>2, <2>3, Zenon DEF Explained
<1> QED
    BY <1>8, <1>9, <1>10, <1>11, <1>12, <1>13, <1>14, Zenon DEF WpInv

\* The server answers a load: the request stays what it was, with what was seen.
LEMMA ServeLoadKeeps ==
    ASSUME WpInv, NEW f \in calls, ServeLoad(f)
    PROVE  WpInv'
<1> DEFINE g == [f EXCEPT !.seen = Done]
<1>1. /\ calls' = (calls \ {f}) \cup {g}
      /\ UNCHANGED <<pg, signed, gone, choice, spin, sorry, view, asked, newest, wr>>
    BY Zenon DEF ServeLoad
<1>2. f \in LoadRequest
    BY DEF WpInv, WpTyped
<1>3. Done \subseteq PageWrites
    BY DEF Done
<1>4. g \in LoadRequest /\ g.n = f.n /\ g.key = f.key /\ g.kind = f.kind /\ g.seen = Done
    BY <1>2, <1>3 DEF LoadRequest
<1>5. Acked \subseteq Done
    BY Zenon DEF Acked, Done
<1> HIDE DEF g
<1>6. KindKept
    BY <1>1, KindStays
<1>7. Busy' = Busy /\ (Pressed' <=> Pressed) /\ Acked' = Acked
    BY <1>1, Zenon DEF Busy, Pressed, Acked
<1>8. \A h \in calls' : h \in calls \/ h = g
    BY <1>1, Zenon
<1>9. WpTyped'
    <2>1. calls' \subseteq LoadRequest
        BY <1>4, <1>8, Zenon DEF WpInv, WpTyped
    <2>2. \A h \in calls' : 1 <= h.n /\ h.n <= asked'
        BY <1>1, <1>4, <1>8, Zenon DEF WpInv, WpTyped
    <2>3. \A e, h \in calls' : e.n = h.n => e = h
        <3>1. \A h \in calls' : h.n = f.n => h = g
            BY <1>1, Zenon DEF WpInv, WpTyped
        <3> QED
            BY <1>4, <1>8, <3>1, Zenon DEF WpInv, WpTyped
    <2> QED
        BY <1>1, <2>1, <2>2, <2>3, Zenon DEF WpInv, WpTyped
<1>10. NewestLoads'
    BY <1>1, <1>4, <1>6, <1>8, Zenon DEF WpInv, NewestLoads, KindKept
<1>11. OneKey' /\ NewestKey'
    BY <1>1, <1>4, <1>6, <1>8, Zenon DEF WpInv, OneKey, NewestKey, KindKept
<1>12. OneLoad'
    BY <1>1, <1>4, <1>6, <1>8, Zenon DEF WpInv, OneLoad, KindKept
<1>13. OneWrite' /\ RowsMatch'
    BY <1>1, <1>6, <1>7, Zenon DEF WpInv, OneWrite, RowsMatch, KindKept
<1>14. EmptiedSound' /\ PatchSound'
    BY <1>1, <1>6, <1>7, Zenon DEF WpInv, EmptiedSound, PatchSound, KindKept
<1>15. ReloadSound'
    BY <1>1, <1>4, <1>5, <1>6, <1>7, <1>8, Zenon DEF WpInv, ReloadSound, KindKept
<1>16. LockedOut'
    BY <1>1, <1>6, <1>7, Zenon DEF WpInv, LockedOut, KindKept
<1>17. Explained'
    <2>1. (\E h \in calls : h.n = newest.n) => \E h \in calls' : h.n = newest'.n
        BY <1>1, <1>4, Zenon
    <2>2. Nothing' = Nothing
        BY DEF Nothing
    <2> QED
        BY <1>1, <1>6, <1>7, <2>1, <2>2, Zenon DEF WpInv, Explained, KindKept
<1> QED
    BY <1>9, <1>10, <1>11, <1>12, <1>13, <1>14, <1>15, <1>16, <1>17, Zenon DEF WpInv

\* A request that ends leaves the newest one's number.
LEMMA EndedIs ==
    ASSUME WpTyped, NEW f, NEW ok \in BOOLEAN
    PROVE  /\ Ended(f, ok) \in [n : Nat, ok : BOOLEAN] /\ Ended(f, ok).n = newest.n
           /\ f.n = newest.n => Ended(f, ok).ok = ok
           /\ f.n # newest.n => Ended(f, ok) = newest
BY DEF WpTyped, Ended

\* The parts of the invariant that the end of a request leaves alone.
Untouched ==
    /\ UNCHANGED <<pg, signed, gone, choice, asked, wr>>
    /\ calls' \subseteq calls /\ newest'.n = newest.n
    /\ newest' \in [n : Nat, ok : BOOLEAN] /\ spin' \in BOOLEAN /\ sorry' \in BOOLEAN
    /\ view' \in [of : SUBSET PageKeys, seen : SUBSET PageWrites]
    /\ Keyless => view'.of \subseteq {1}
    /\ Single \/ Reloaded => calls' = {}

\* And it does leave them alone.
LEMMA RequestEnds ==
    ASSUME WpInv, Untouched
    PROVE  /\ WpTyped' /\ NewestLoads' /\ OneKey' /\ NewestKey' /\ OneLoad' /\ OneWrite'
           /\ KindKept /\ Busy' = Busy /\ (Pressed' <=> Pressed) /\ Acked' = Acked
<1>1. KindKept
    BY KindStays DEF Untouched
<1>2. Busy' = Busy /\ (Pressed' <=> Pressed) /\ Acked' = Acked
    BY Zenon DEF Untouched, Busy, Pressed, Acked
<1>3. WpTyped'
    BY Zenon DEF WpInv, WpTyped, Untouched
<1>4. NewestLoads'
    BY <1>1, Zenon DEF WpInv, NewestLoads, Untouched, KindKept
<1>5. OneKey' /\ NewestKey'
    BY <1>1, Zenon DEF WpInv, OneKey, NewestKey, Untouched, KindKept
<1>6. OneLoad'
    BY <1>1, Zenon DEF OneLoad, Untouched, KindKept
<1>7. OneWrite'
    BY <1>1, <1>2, Zenon DEF WpInv, OneWrite, KindKept
<1> QED
    BY <1>1, <1>2, <1>3, <1>4, <1>5, <1>6, <1>7, Zenon

\* Where loads do not overlap the one that ends was alone, and the newest.
LEMMA EndsAlone ==
    ASSUME WpInv, NEW f \in calls, calls' = calls \ {f}, Single \/ Reloaded
    PROVE  calls' = {} /\ f.n = newest.n
BY Zenon DEF WpInv, WpTyped, OneLoad

\* The newest request of a page of these kinds is a load.
LEMMA NewestIsLoad ==
    ASSUME WpInv, NEW f \in calls, f.n = newest.n, Keyless \/ Chosen \/ Lists
    PROVE  f.kind = "load" /\ Current(f)
<1>1. ~Mixed
    BY Facts, Zenon DEF Mixed, Keyless, FilteredFacts, ListFacts
<1> QED
    BY <1>1, Zenon DEF WpInv, NewestLoads, Current

\* The flag after a request is still a flag.
LEMMA SpinAfterIs ==
    ASSUME WpTyped, NEW f
    PROVE  SpinAfter(f) \in BOOLEAN
<1>1. CASE (f.kind = "load" /\ Current(f)) \/ (f.kind = "more" /\ Can("moreSpins"))
    <2>1. SpinAfter(f) = FALSE
        BY <1>1, Zenon DEF SpinAfter
    <2> QED
        BY <2>1
<1>2. CASE ~((f.kind = "load" /\ Current(f)) \/ (f.kind = "more" /\ Can("moreSpins")))
    <2>1. SpinAfter(f) = spin
        BY <1>2, Zenon DEF SpinAfter
    <2> QED
        BY <2>1, Zenon DEF WpTyped
<1> QED
    BY <1>1, <1>2, Zenon

\* An older answer that is not dropped is that of a page without a filter.
LEMMA OlderIs ==
    ASSUME WpInv, NEW f \in calls, f.n # newest.n, Chosen
    PROVE  ~Current(f)
<1>1. ~Single /\ ~Appends
    BY Facts, Zenon DEF WpInv, OneLoad, FilteredFacts, Appends
<1>2. f.kind \in {"load", "more"}
    BY DEF WpInv, WpTyped, LoadRequest
<1>3. f.kind = "load" /\ Can("latest")
    BY <1>1, <1>2, Zenon DEF WpInv, NewestLoads, Chosen, Single
<1> QED
    BY <1>3, Zenon DEF Current

\* The answer of a load arrives.
LEMMA LandLoadKeeps ==
    ASSUME WpInv, NEW f \in calls, LandLoad(f)
    PROVE  WpInv'
<1>1. /\ f.seen # Unserved /\ calls' = calls \ {f} /\ newest' = Ended(f, TRUE) /\ spin' = SpinAfter(f)
      /\ UNCHANGED <<pg, signed, gone, choice, asked, wr>>
    BY Zenon DEF LandLoad
<1>2. sorry' \in BOOLEAN /\ (sorry' <=> sorry /\ ~(Can("late") /\ Current(f)))
    BY Zenon DEF LandLoad
<1>3. /\ ~Current(f) => view' = view
      /\ Current(f) /\ f.kind = "more" => view' = [view EXCEPT !.of = @ \cup {f.key}]
      /\ Current(f) /\ f.kind # "more" => view' = [of |-> {f.key}, seen |-> f.seen]
    BY Zenon DEF LandLoad
<1>4. WpTyped /\ f \in LoadRequest /\ view \in [of : SUBSET PageKeys, seen : SUBSET PageWrites]
    BY DEF WpInv, WpTyped
<1>5. f.key \in PageKeys /\ f.seen \subseteq PageWrites /\ f.kind \in {"load", "more"}
    BY <1>1, <1>4 DEF LoadRequest
<1>6. /\ newest' \in [n : Nat, ok : BOOLEAN] /\ newest'.n = newest.n
      /\ f.n = newest.n => newest'.ok = TRUE
      /\ f.n # newest.n => newest' = newest
    BY <1>1, <1>4, EndedIs
<1>7. spin' \in BOOLEAN
    BY <1>1, <1>4, SpinAfterIs, Zenon
<1>8. /\ Current(f) /\ f.kind = "more" =>
            /\ view'.of = view.of \cup {f.key} /\ view'.seen = view.seen
            /\ view' \in [of : SUBSET PageKeys, seen : SUBSET PageWrites]
      /\ Current(f) /\ f.kind # "more" =>
            /\ view'.of = {f.key} /\ view'.seen = f.seen
            /\ view' \in [of : SUBSET PageKeys, seen : SUBSET PageWrites]
    BY <1>3, <1>4, <1>5
<1>9. view' \in [of : SUBSET PageKeys, seen : SUBSET PageWrites]
    BY <1>3, <1>4, <1>8, Zenon
<1>10. Keyless => f.key = 1 /\ choice = 1 /\ view.of \subseteq {1}
    BY Zenon DEF WpInv, OneKey
<1>11. Keyless => view'.of \subseteq {1}
    <2>1. CASE ~Current(f)
        BY <1>3, <1>10, <2>1, Zenon
    <2>2. CASE Current(f)
        BY <1>8, <1>10, <2>2
    <2> QED
        BY <2>1, <2>2, Zenon
<1>12. Single \/ Reloaded => calls' = {} /\ f.n = newest.n
    BY <1>1, EndsAlone, Zenon
<1>13. Untouched
    BY <1>1, <1>2, <1>6, <1>7, <1>9, <1>11, <1>12, Zenon DEF Untouched
<1>14. /\ WpTyped' /\ NewestLoads' /\ OneKey' /\ NewestKey' /\ OneLoad' /\ OneWrite'
       /\ KindKept /\ Busy' = Busy /\ (Pressed' <=> Pressed) /\ Acked' = Acked
    BY <1>13, RequestEnds
<1>15. MayLoad
    BY Zenon DEF WpInv, LockedOut
<1>16. EmptiedSound'
    <2> SUFFICES ASSUME Emptied PROVE ~sorry' /\ (Reloads => Busy' = {})
        BY <1>14, Zenon DEF EmptiedSound, KindKept
    <2> QED
        BY <1>2, <1>14, Zenon DEF WpInv, EmptiedSound
<1>17. PatchSound'
    <2> SUFFICES ASSUME Patched PROVE ~Pressed' /\ Acked' = {}
        BY <1>14, Zenon DEF PatchSound, KindKept
    <2>1. ~Pressed
        BY Zenon DEF WpInv, PatchSound
    <2>2. Acked = {}
        BY <2>1, Zenon DEF Pressed, Acked
    <2> QED
        BY <1>14, <2>1, <2>2, Zenon
<1>18. ReloadSound'
    <2> SUFFICES ASSUME Reloaded PROVE Busy' = {} /\ calls' = {} /\ Acked' \subseteq view'.seen
        BY <1>14, Zenon DEF ReloadSound, KindKept
    <2>1. Keyless
        BY Facts, Zenon DEF ReloadedFacts, Keyless
    <2>2. f.n = newest.n /\ calls' = {}
        BY <1>12, Zenon
    <2>3. f.kind = "load" /\ Current(f)
        BY <2>1, <2>2, NewestIsLoad
    <2>4. view'.seen = f.seen
        BY <1>8, <2>3
    <2>5. Acked \subseteq f.seen /\ Busy = {}
        BY <1>1, Zenon DEF WpInv, ReloadSound
    <2> QED
        BY <1>14, <2>2, <2>4, <2>5, Zenon
<1>19. RowsMatch'
    <2> SUFFICES ASSUME Keyless \/ Chosen, newest'.ok PROVE view'.of = {choice}
        BY <1>1, <1>14, Zenon DEF RowsMatch, KindKept
    <2>1. CASE f.n = newest.n
        <3>1. f.kind = "load" /\ Current(f)
            BY <2>1, NewestIsLoad
        <3>2. f.key = choice
            BY <1>10, <2>1, Zenon DEF WpInv, NewestKey
        <3>3. view'.of = {f.key}
            BY <1>8, <3>1
        <3> QED
            BY <3>2, <3>3, Zenon
    <2>2. CASE f.n # newest.n
        <3>1. view.of = {choice}
            BY <1>6, <2>2, Zenon DEF WpInv, RowsMatch
        <3>2. CASE ~Current(f)
            BY <1>3, <3>1, <3>2, Zenon
        <3>3. CASE Current(f)
            <4>1. Keyless
                BY <2>2, <3>3, OlderIs, Zenon
            <4> QED
                BY <1>8, <1>10, <3>1, <3>3, <4>1
        <3> QED
            BY <3>2, <3>3, Zenon
    <2> QED
        BY <2>1, <2>2, Zenon
<1>20. LockedOut'
    BY <1>14, <1>15, Zenon DEF LockedOut, KindKept
<1>21. Explained'
    <2>1. Nothing' = Nothing /\ Nothing.of = {}
        BY DEF Nothing
    <2>2. Current(f) => view'.of # {}
        BY <1>5, <1>8
    <2>3. Current(f) => view' # Nothing
        BY <2>1, <2>2, Zenon
    <2>4. (\E h \in calls : h.n = newest.n) /\ f.n # newest.n => \E h \in calls' : h.n = newest'.n
        BY <1>1, <1>6, Zenon
    <2>5. sorry => sorry' \/ view' # Nothing
        BY <1>2, <2>3, Zenon
    <2>6. view # Nothing => view' # Nothing
        BY <1>3, <2>3, Zenon
    <2> QED
        BY <1>1, <1>6, <1>14, <1>15, <2>1, <2>4, <2>5, <2>6, Zenon DEF WpInv, Explained, KindKept
<1> QED
    BY <1>14, <1>16, <1>17, <1>18, <1>19, <1>20, <1>21, Zenon DEF WpInv

\* A load fails.
LEMMA FailLoadKeeps ==
    ASSUME WpInv, NEW f \in calls, FailLoad(f)
    PROVE  WpInv'
<1>1. /\ calls' = calls \ {f} /\ newest' = Ended(f, FALSE) /\ spin' = SpinAfter(f)
      /\ UNCHANGED <<pg, signed, gone, choice, asked, wr>>
    BY Zenon DEF FailLoad
<1>2. sorry' \in BOOLEAN /\ (sorry' <=> sorry \/ (Current(f) /\ FailTold(f)))
    BY Zenon DEF FailLoad
<1>3. /\ Current(f) /\ f.kind = "load" /\ Can("clears") => view' = Nothing
      /\ ~(Current(f) /\ f.kind = "load" /\ Can("clears")) => view' = view
    BY Zenon DEF FailLoad
<1>4. /\ WpTyped /\ f.kind \in {"load", "more"}
      /\ view \in [of : SUBSET PageKeys, seen : SUBSET PageWrites]
      /\ Nothing \in [of : SUBSET PageKeys, seen : SUBSET PageWrites] /\ Nothing.of = {}
    BY DEF WpInv, WpTyped, LoadRequest, Nothing
<1>5. /\ newest' \in [n : Nat, ok : BOOLEAN] /\ newest'.n = newest.n
      /\ f.n = newest.n => newest'.ok = FALSE
      /\ f.n # newest.n => newest' = newest
    BY <1>1, <1>4, EndedIs
<1>6. spin' \in BOOLEAN
    BY <1>1, <1>4, SpinAfterIs, Zenon
<1>7. view' \in [of : SUBSET PageKeys, seen : SUBSET PageWrites]
    BY <1>3, <1>4, Zenon
<1>8. Keyless => view'.of \subseteq {1}
    BY <1>3, <1>4, Zenon DEF WpInv, OneKey
<1>9. Single \/ Reloaded => calls' = {} /\ f.n = newest.n
    BY <1>1, EndsAlone, Zenon
<1>10. Untouched
    BY <1>1, <1>2, <1>5, <1>6, <1>7, <1>8, <1>9, Zenon DEF Untouched
<1>11. /\ WpTyped' /\ NewestLoads' /\ OneKey' /\ NewestKey' /\ OneLoad' /\ OneWrite'
       /\ KindKept /\ Busy' = Busy /\ (Pressed' <=> Pressed) /\ Acked' = Acked
    BY <1>10, RequestEnds
<1>12. MayLoad
    BY Zenon DEF WpInv, LockedOut
<1>13. EmptiedSound'
    <2> SUFFICES ASSUME Emptied
                 PROVE  (sorry' => view'.of = {}) /\ calls' = {} /\ (Reloads => Busy' = {})
        BY <1>11, Zenon DEF EmptiedSound, KindKept
    <2>1. ~sorry /\ (Reloads => Busy = {})
        BY Zenon DEF WpInv, EmptiedSound
    <2>2. calls' = {} /\ f.n = newest.n
        BY <1>9, Zenon DEF Single
    <2>3. f.kind = "load" /\ Current(f)
        BY <2>2, NewestIsLoad DEF Emptied
    <2>4. view' = Nothing
        BY <1>3, <2>3, Zenon DEF Emptied
    <2> QED
        BY <1>4, <1>11, <2>1, <2>2, <2>4, Zenon
<1>14. PatchSound'
    <2> SUFFICES ASSUME Patched PROVE ~Pressed' /\ Acked' = {}
        BY <1>11, Zenon DEF PatchSound, KindKept
    <2>1. ~Pressed
        BY Zenon DEF WpInv, PatchSound
    <2>2. Acked = {}
        BY <2>1, Zenon DEF Pressed, Acked
    <2> QED
        BY <1>11, <2>1, <2>2, Zenon
<1>15. ReloadSound'
    <2> SUFFICES ASSUME Reloaded PROVE Busy' = {} /\ calls' = {} /\ ~newest'.ok
        BY <1>11, Zenon DEF ReloadSound, KindKept
    <2>1. f.n = newest.n /\ calls' = {}
        BY <1>9, Zenon
    <2>2. Busy = {}
        BY <1>1, Zenon DEF WpInv, ReloadSound
    <2> QED
        BY <1>5, <1>11, <2>1, <2>2, Zenon
<1>16. RowsMatch'
    <2> SUFFICES ASSUME Keyless \/ Chosen, newest'.ok PROVE view'.of = {choice}
        BY <1>1, <1>11, Zenon DEF RowsMatch, KindKept
    <2>1. f.n # newest.n
        BY <1>5, Zenon
    <2>2. view.of = {choice}
        BY <1>5, <2>1, Zenon DEF WpInv, RowsMatch
    <2>3. ~Single
        BY <1>9, <2>1, Zenon
    <2>4. Keyless => ~Can("clears")
        BY <2>3, Zenon DEF Single, Emptied
    <2>5. Chosen => ~Current(f)
        BY <2>1, OlderIs, Zenon
    <2> QED
        BY <1>3, <2>2, <2>4, <2>5, Zenon
<1>17. LockedOut'
    BY <1>11, <1>12, Zenon DEF LockedOut, KindKept
<1>18. Explained'
    <2> SUFFICES ASSUME Lists, ~newest'.ok
                 PROVE  \/ \E h \in calls' : h.n = newest'.n
                        \/ sorry' \/ view' # Nothing \/ gone'
                        \/ WriteTells /\ Busy' # {}
        <3>1. Nothing' = Nothing
            BY DEF Nothing
        <3> QED
            BY <1>11, <3>1, Zenon DEF Explained, KindKept
    <2>1. Current(f) /\ f.kind = "load" => sorry'
        <3>1. Can("tells")
            BY Zenon DEF Lists
        <3>2. f.kind = "load" => FailTold(f)
            BY <3>1, Zenon DEF FailTold
        <3> QED
            BY <1>2, <3>2, Zenon
    <2>2. CASE f.n = newest.n
        BY <2>1, <2>2, NewestIsLoad
    <2>3. CASE f.n # newest.n
        <3>1. (\E h \in calls : h.n = newest.n) => \E h \in calls' : h.n = newest'.n
            BY <1>1, <1>5, <2>3, Zenon
        <3>2. sorry => sorry'
            BY <1>2, Zenon
        <3>3. view # Nothing => view' # Nothing \/ sorry'
            BY <1>3, <2>1, Zenon
        <3> QED
            BY <1>1, <1>5, <1>11, <1>12, <2>3, <3>1, <3>2, <3>3, Zenon DEF WpInv, Explained
    <2> QED
        BY <2>2, <2>3, Zenon
<1> QED
    BY <1>11, <1>13, <1>14, <1>15, <1>16, <1>17, <1>18, Zenon DEF WpInv

\* The visitor is sent to the login page; nothing else moves.
LEMMA SessionExpiresKeeps ==
    ASSUME WpInv, SessionExpires
    PROVE  WpInv'
<1>1. /\ gone' = TRUE
      /\ UNCHANGED <<pg, signed, choice, spin, sorry, view, asked, calls, newest, wr>>
    BY Zenon DEF SessionExpires
<1>2. KindKept
    BY <1>1, KindStays
<1>3. Busy' = Busy /\ (Pressed' <=> Pressed) /\ Acked' = Acked
    BY <1>1, Zenon DEF Busy, Pressed, Acked
<1>4. WpTyped'
    BY <1>1, Zenon DEF WpInv, WpTyped
<1>5. NewestLoads' /\ OneKey' /\ NewestKey' /\ OneLoad'
    BY <1>1, <1>2, Zenon DEF WpInv, NewestLoads, OneKey, NewestKey, OneLoad, KindKept
<1>6. OneWrite' /\ EmptiedSound' /\ PatchSound'
    BY <1>1, <1>2, <1>3, Zenon DEF WpInv, OneWrite, EmptiedSound, PatchSound, KindKept
<1>7. ReloadSound' /\ RowsMatch' /\ LockedOut'
    BY <1>1, <1>2, <1>3, Zenon DEF WpInv, ReloadSound, RowsMatch, LockedOut, KindKept
<1>8. Explained'
    BY <1>1, Zenon DEF Explained
<1> QED
    BY <1>4, <1>5, <1>6, <1>7, <1>8, Zenon DEF WpInv

\* A write moves on: it alone, to r.
Moves(w, r) ==
    /\ wr' \in [PageWrites -> WriteRequest]
    /\ wr'[w] = r
    /\ \A v \in PageWrites : v # w => wr'[v] = wr[v]

\* An assignment to one write is such a move.
LEMMA WriteMoves ==
    ASSUME WpTyped, NEW w \in PageWrites, NEW r \in WriteRequest, wr' = [wr EXCEPT ![w] = r]
    PROVE  Moves(w, r)
BY DEF WpTyped, Moves

\* The parts of the invariant about loads, when only a write and the rows' writes move.
LEMMA LoadsKept ==
    ASSUME WpInv, UNCHANGED <<pg, signed, choice, spin, asked, calls, newest>>,
           NEW w \in PageWrites, NEW r \in WriteRequest, Moves(w, r),
           gone' \in BOOLEAN, sorry' \in BOOLEAN,
           view' \in [of : SUBSET PageKeys, seen : SUBSET PageWrites], view'.of = view.of,
           Keyless => r.key = 1
    PROVE  WpTyped' /\ NewestLoads' /\ OneKey' /\ NewestKey' /\ OneLoad' /\ RowsMatch' /\ KindKept
<1>1. KindKept
    BY KindStays
<1>2. WpTyped'
    BY Zenon DEF WpInv, WpTyped, Moves
<1>3. NewestLoads' /\ NewestKey' /\ OneLoad' /\ RowsMatch'
    BY <1>1, Zenon DEF WpInv, NewestLoads, NewestKey, OneLoad, RowsMatch, KindKept
<1>4. OneKey'
    BY <1>1, Zenon DEF WpInv, OneKey, Moves, KindKept
<1> QED
    BY <1>1, <1>2, <1>3, <1>4, Zenon

\* The button is pressed.
LEMMA SendWriteKeeps ==
    ASSUME WpInv, NEW w \in PageWrites, SendWrite(w)
    PROVE  WpInv'
<1> DEFINE r == [at |-> "sent", key |-> choice, kept |-> FALSE]
<1>1. /\ signed /\ wr[w].at = "idle" /\ WriteFree /\ wr' = [wr EXCEPT ![w] = r]
      /\ Does("early") \/ (~spin /\ (Does("form") \/ view.of # {}))
      /\ UNCHANGED <<pg, signed, gone, choice, spin, view, asked, calls, newest>>
    BY Zenon DEF SendWrite
<1>2. sorry' \in BOOLEAN /\ (sorry' <=> sorry /\ ~Does("tells"))
    BY Zenon DEF SendWrite
<1>3. r \in WriteRequest /\ r.at = "sent" /\ r.key = choice
    BY DEF WpInv, WpTyped, WriteRequest
<1> HIDE DEF r
<1>4. Moves(w, r)
    BY <1>1, <1>3, WriteMoves DEF WpInv
<1>5. Keyless => r.key = 1
    BY <1>3, Zenon DEF WpInv, OneKey
<1>6. WpTyped' /\ NewestLoads' /\ OneKey' /\ NewestKey' /\ OneLoad' /\ RowsMatch' /\ KindKept
    <2>1. /\ UNCHANGED <<pg, signed, choice, spin, asked, calls, newest>>
          /\ gone' \in BOOLEAN /\ view' \in [of : SUBSET PageKeys, seen : SUBSET PageWrites] /\ view'.of = view.of
        BY <1>1, Zenon DEF WpInv, WpTyped
    <2> QED
        BY <1>2, <1>3, <1>4, <1>5, <2>1, LoadsKept, Zenon
<1>7. Busy' = Busy \cup {w} /\ Acked' = Acked
    <2>1. wr'[w].at = "sent"
        BY <1>3, <1>4, Zenon DEF Moves
    <2>2. w \notin Acked
        BY <1>1 DEF Acked
    <2>3. Busy' = Busy \cup {w}
        BY <1>4, <2>1 DEF Moves, Busy
    <2>4. Acked' = Acked
        BY <1>1, <1>4, <2>1 DEF Moves, Acked
    <2> QED
        BY <2>3, <2>4
<1>8. FilteredFacts /\ EmptiedFacts /\ PatchedFacts /\ ReloadedFacts
    BY Facts
<1>9. OneWrite'
    <2> SUFFICES ASSUME WriteOnce PROVE \A u, v \in Busy' : u = v
        BY <1>6, Zenon DEF OneWrite, KindKept
    <2>1. Busy = {}
        BY <1>1, Zenon DEF WriteFree, WriteOnce
    <2> QED
        BY <1>7, <2>1, Zenon
<1>10. EmptiedSound'
    <2> SUFFICES ASSUME Emptied
                 PROVE  /\ sorry' => view'.of = {}
                        /\ calls' # {} => ~sorry'
                        /\ Reloads => calls' = {} /\ ~sorry'
        BY <1>6, Zenon DEF EmptiedSound, KindKept
    <2>1. (sorry => view.of = {}) /\ (calls # {} => ~sorry)
        BY Zenon DEF WpInv, EmptiedSound
    <2>2. Reloads => ~spin /\ view.of # {}
        BY <1>1, <1>8, Zenon DEF EmptiedFacts, Reloads
    <2>3. Reloads => calls = {}
        BY <2>2, NoneUnderWay, Zenon DEF Single
    <2> QED
        BY <1>1, <1>2, <2>1, <2>2, <2>3, Zenon
<1>11. PatchSound'
    <2> SUFFICES ASSUME Patched
                 PROVE  calls' = {} /\ (Retries => ~sorry') /\ Acked' \subseteq view'.seen
        BY <1>6, Zenon DEF PatchSound, KindKept
    <2>1. ~spin /\ (Retries => view.of # {} /\ Can("clears") /\ Keyless)
        BY <1>1, <1>8, Zenon DEF PatchedFacts, Retries, Keyless
    <2>2. calls = {}
        BY <2>1, NoneUnderWay, Zenon DEF Single
    <2>3. Retries => ~sorry
        BY <2>1, Zenon DEF WpInv, EmptiedSound, Emptied
    <2>4. Acked \subseteq view.seen
        BY Zenon DEF WpInv, PatchSound
    <2> QED
        BY <1>1, <1>2, <1>7, <2>2, <2>3, <2>4, Zenon
<1>12. ReloadSound'
    <2> SUFFICES ASSUME Reloaded PROVE calls' = {} /\ (newest'.ok => Acked' \subseteq view'.seen)
        BY <1>6, Zenon DEF ReloadSound, KindKept
    <2>1. calls = {}
        BY <1>1, <1>8, Zenon DEF ReloadedFacts, WriteFree
    <2> QED
        BY <1>1, <1>7, <2>1, Zenon DEF WpInv, ReloadSound
<1>13. LockedOut'
    BY <1>1, <1>6, Zenon DEF LockedOut, KindKept, MayLoad
<1>14. Explained'
    <2>1. Nothing' = Nothing
        BY DEF Nothing
    <2>2. sorry => sorry' \/ (WriteTells /\ Busy' # {})
        BY <1>2, <1>7, Zenon DEF WriteTells
    <2>3. Busy # {} => Busy' # {}
        BY <1>7, Zenon
    <2> QED
        BY <1>1, <1>6, <2>1, <2>2, <2>3, Zenon DEF WpInv, Explained, KindKept
<1> QED
    BY <1>6, <1>9, <1>10, <1>11, <1>12, <1>13, <1>14, Zenon DEF WpInv

\* The server does it: the browser does not know yet.
LEMMA ServeWriteKeeps ==
    ASSUME WpInv, NEW w \in PageWrites, ServeWrite(w)
    PROVE  WpInv'
<1> DEFINE r == [wr[w] EXCEPT !.at = "served"]
<1>1. /\ wr[w].at = "sent" /\ wr' = [wr EXCEPT ![w] = r]
      /\ UNCHANGED <<pg, signed, gone, choice, spin, sorry, view, asked, calls, newest>>
    BY DEF ServeWrite
<1>2. wr[w] \in WriteRequest
    BY DEF WpInv, WpTyped
<1>3. r \in WriteRequest /\ r.at = "served" /\ r.key = wr[w].key
    BY <1>2 DEF WriteRequest
<1> HIDE DEF r
<1>4. Moves(w, r)
    BY <1>1, <1>3, WriteMoves DEF WpInv
<1>5. Keyless => r.key = 1
    BY <1>3, Zenon DEF WpInv, OneKey
<1>6. WpTyped' /\ NewestLoads' /\ OneKey' /\ NewestKey' /\ OneLoad' /\ RowsMatch' /\ KindKept
    <2>1. /\ UNCHANGED <<pg, signed, choice, spin, asked, calls, newest>>
          /\ gone' \in BOOLEAN /\ sorry' \in BOOLEAN
          /\ view' \in [of : SUBSET PageKeys, seen : SUBSET PageWrites] /\ view'.of = view.of
        BY <1>1, Zenon DEF WpInv, WpTyped
    <2> QED
        BY <1>3, <1>4, <1>5, <2>1, LoadsKept, Zenon
<1>7. Busy' = Busy /\ Acked' = Acked /\ Pressed
    <2>1. wr'[w].at = "served"
        BY <1>3, <1>4, Zenon DEF Moves
    <2>2. Busy' = Busy
        BY <1>1, <1>4, <2>1 DEF Moves, Busy
    <2>3. Acked' = Acked
        BY <1>1, <1>4, <2>1 DEF Moves, Acked
    <2>4. Pressed
        BY <1>1 DEF Pressed
    <2> QED
        BY <2>2, <2>3, <2>4
<1>8. OneWrite' /\ EmptiedSound' /\ PatchSound'
    BY <1>1, <1>6, <1>7, Zenon DEF WpInv, OneWrite, EmptiedSound, PatchSound, KindKept
<1>9. ReloadSound' /\ LockedOut'
    BY <1>1, <1>6, <1>7, Zenon DEF WpInv, ReloadSound, LockedOut, KindKept
<1>10. Explained'
    <2>1. Nothing' = Nothing
        BY DEF Nothing
    <2> QED
        BY <1>1, <1>6, <1>7, <2>1, Zenon DEF WpInv, Explained, KindKept
<1> QED
    BY <1>6, <1>8, <1>9, <1>10, Zenon DEF WpInv

\* A write fails.
LEMMA FailWriteKeeps ==
    ASSUME WpInv, NEW w \in PageWrites, FailWrite(w)
    PROVE  WpInv'
<1> DEFINE r == [wr[w] EXCEPT !.at = "lost", !.kept = wr[w].at = "served"]
<1>1. /\ wr[w].at \in {"sent", "served"} /\ wr' = [wr EXCEPT ![w] = r]
      /\ UNCHANGED <<pg, signed, gone, choice, spin, view, asked, calls, newest>>
    BY DEF FailWrite
<1>2. sorry' \in BOOLEAN /\ (sorry' <=> sorry \/ Does("tells"))
    BY Zenon DEF FailWrite
<1>3. wr[w] \in WriteRequest
    BY DEF WpInv, WpTyped
<1>4. r \in WriteRequest /\ r.at = "lost" /\ r.key = wr[w].key
    BY <1>3 DEF WriteRequest
<1> HIDE DEF r
<1>5. Moves(w, r)
    BY <1>1, <1>4, WriteMoves DEF WpInv
<1>6. Keyless => r.key = 1
    BY <1>4, Zenon DEF WpInv, OneKey
<1>7. WpTyped' /\ NewestLoads' /\ OneKey' /\ NewestKey' /\ OneLoad' /\ RowsMatch' /\ KindKept
    <2>1. /\ UNCHANGED <<pg, signed, choice, spin, asked, calls, newest>>
          /\ gone' \in BOOLEAN /\ view' \in [of : SUBSET PageKeys, seen : SUBSET PageWrites] /\ view'.of = view.of
        BY <1>1, Zenon DEF WpInv, WpTyped
    <2> QED
        BY <1>2, <1>4, <1>5, <1>6, <2>1, LoadsKept, Zenon
<1>8. Busy' \subseteq Busy /\ Acked' = Acked /\ Pressed
    <2>1. wr'[w].at = "lost"
        BY <1>4, <1>5, Zenon DEF Moves
    <2>2. Busy' \subseteq Busy
        BY <1>5, <2>1 DEF Moves, Busy
    <2>3. Acked' = Acked
        BY <1>1, <1>5, <2>1 DEF Moves, Acked
    <2>4. Pressed
        BY <1>1 DEF Pressed
    <2> QED
        BY <2>2, <2>3, <2>4
<1>9. Emptied \/ Patched => (sorry' <=> sorry)
    <2>1. Emptied \/ Patched => ~Does("tells")
        BY Facts, Zenon DEF EmptiedFacts, PatchedFacts
    <2> QED
        BY <1>2, <2>1, Zenon
<1>10. OneWrite' /\ EmptiedSound' /\ PatchSound'
    <2>1. Busy' # {} => Busy # {}
        BY <1>8, Zenon
    <2>2. OneWrite'
        BY <1>7, <1>8, Zenon DEF WpInv, OneWrite, KindKept
    <2>3. EmptiedSound'
        BY <1>1, <1>7, <1>9, <2>1, Zenon DEF WpInv, EmptiedSound, KindKept
    <2>4. PatchSound'
        BY <1>1, <1>7, <1>8, <1>9, Zenon DEF WpInv, PatchSound, KindKept
    <2> QED
        BY <2>2, <2>3, <2>4
<1>11. ReloadSound' /\ LockedOut'
    BY <1>1, <1>7, <1>8, Zenon DEF WpInv, ReloadSound, LockedOut, KindKept
<1>12. Explained'
    <2>1. Nothing' = Nothing
        BY DEF Nothing
    <2>2. WriteTells \/ sorry => sorry'
        BY <1>2, Zenon DEF WriteTells
    <2> QED
        BY <1>1, <1>7, <2>1, <2>2, Zenon DEF WpInv, Explained, KindKept
<1> QED
    BY <1>7, <1>10, <1>11, <1>12, Zenon DEF WpInv

\* The server's yes arrives.
LEMMA AckWriteKeeps ==
    ASSUME WpInv, NEW w \in PageWrites, AckWrite(w)
    PROVE  WpInv'
<1> DEFINE r == [wr[w] EXCEPT !.at = "acked"]
<1>1. /\ wr[w].at = "served" /\ wr' = [wr EXCEPT ![w] = r] /\ ~gone
      /\ UNCHANGED <<pg, signed, choice>>
    BY DEF AckWrite
<1>2. wr[w] \in WriteRequest
    BY DEF WpInv, WpTyped
<1>3. r \in WriteRequest /\ r.at = "acked" /\ r.key = wr[w].key /\ wr[w].key \in PageKeys
    BY <1>2 DEF WriteRequest
<1> HIDE DEF r
<1>4. Moves(w, r)
    BY <1>1, <1>3, WriteMoves DEF WpInv
<1>5. Keyless => wr[w].key = 1 /\ choice = 1 /\ \A v \in PageWrites : wr'[v].key = 1
    BY <1>3, <1>4, Zenon DEF WpInv, OneKey, Moves
<1>6. Busy' = Busy \ {w} /\ Acked' = Acked \cup {w} /\ Pressed /\ w \in Busy
    <2>1. wr'[w].at = "acked"
        BY <1>3, <1>4, Zenon DEF Moves
    <2>2. Busy' = Busy \ {w}
        BY <1>1, <1>4, <2>1 DEF Moves, Busy
    <2>3. Acked' = Acked \cup {w}
        BY <1>1, <1>4, <2>1 DEF Moves, Acked
    <2>4. Pressed
        BY <1>1 DEF Pressed
    <2>5. w \in Busy
        BY <1>1 DEF Busy
    <2> QED
        BY <2>2, <2>3, <2>4, <2>5
<1>7. MayLoad
    BY <1>6, Zenon DEF WpInv, LockedOut
<1>8. FilteredFacts /\ EmptiedFacts /\ PatchedFacts /\ ReloadedFacts /\ ListFacts
    BY Facts
<1>9. WriteOnce => \A u, v \in Busy' : u = v
    BY <1>6, Zenon DEF WpInv, OneWrite
<1>10. CASE Does("reloads")
    <2>1. BeginLoad(wr[w].key) /\ gone' = gone
        BY <1>10, Zenon DEF AckWrite
    <2>2. ~Chosen /\ ~Patched
        BY <1>8, <1>10, Zenon DEF FilteredFacts, PatchedFacts
    <2>3. Single => Emptied
        BY <2>2, Zenon DEF Single, Chosen
    <2>4. Reloaded \/ Emptied => WriteOnce
        BY <1>8, <1>10, Zenon DEF ReloadedFacts, EmptiedFacts, WriteOnce
    <2>5. Reloaded \/ Emptied => Busy' = {}
        BY <1>6, <2>4, Zenon DEF WpInv, OneWrite
    <2>6. Single \/ Reloaded => calls = {}
        BY <1>6, <1>10, <2>3, Zenon DEF WpInv, EmptiedSound, ReloadSound, Reloads
    <2>7. Single => Can("spins")
        BY <1>8, <2>3, Zenon DEF EmptiedFacts
    <2>8. choice' \in PageKeys /\ gone' \in BOOLEAN /\ wr' \in [PageWrites -> WriteRequest]
        BY <1>1, <1>4, <2>1, Zenon DEF WpInv, WpTyped, Moves
    <2>9. /\ UNCHANGED <<pg, signed>>
          /\ Keyless => wr[w].key = 1 /\ choice' = 1 /\ \A v \in PageWrites : wr'[v].key = 1
          /\ Chosen => choice' = wr[w].key
          /\ Reloaded => Busy' = {}
          /\ Patched => ~Pressed'
          /\ Emptied /\ Reloads => Busy' = {}
        BY <1>1, <1>5, <2>2, <2>5, Zenon
    <2> QED
        BY <1>3, <1>7, <1>9, <2>1, <2>6, <2>7, <2>8, <2>9, LoadBegins
<1>11. CASE ~Does("reloads")
    <2>1. /\ view' = (IF Does("patches") THEN [view EXCEPT !.seen = @ \cup {w}] ELSE view)
          /\ gone' = Does("leaves")
          /\ UNCHANGED <<asked, calls, newest, spin, sorry>>
        BY <1>11, Zenon DEF AckWrite
    <2>2. gone' \in BOOLEAN
        BY <2>1, SMT DEF Does
    <2>3. view \in [of : SUBSET PageKeys, seen : SUBSET PageWrites]
        BY DEF WpInv, WpTyped
    <2>4. Does("patches") =>
            /\ view'.of = view.of /\ view'.seen = view.seen \cup {w}
            /\ view' \in [of : SUBSET PageKeys, seen : SUBSET PageWrites]
        BY <2>1, <2>3
    <2>5. ~Does("patches") => view' = view
        BY <2>1, Zenon
    <2>6. view' \in [of : SUBSET PageKeys, seen : SUBSET PageWrites] /\ view'.of = view.of
        BY <2>3, <2>4, <2>5, Zenon
    <2>7. sorry' \in BOOLEAN /\ UNCHANGED <<pg, signed, choice, spin, asked, calls, newest>>
        BY <1>1, <2>1, Zenon DEF WpInv, WpTyped
    <2>8. Keyless => r.key = 1
        BY <1>3, <1>5, Zenon
    <2>9. WpTyped' /\ NewestLoads' /\ OneKey' /\ NewestKey' /\ OneLoad' /\ RowsMatch' /\ KindKept
        BY <1>3, <1>4, <2>2, <2>6, <2>7, <2>8, LoadsKept, Zenon
    <2>10. OneWrite'
        BY <1>9, <2>9, Zenon DEF OneWrite, KindKept
    <2>11. EmptiedSound'
        BY <1>11, <2>1, <2>6, <2>9, Zenon DEF WpInv, EmptiedSound, KindKept, Reloads
    <2>12. PatchSound'
        <3> SUFFICES ASSUME Patched
                     PROVE  calls' = {} /\ (Retries => ~sorry') /\ Acked' \subseteq view'.seen
            BY <2>9, Zenon DEF PatchSound, KindKept
        <3>1. calls = {} /\ (Retries => ~sorry) /\ Acked \subseteq view.seen
            BY <1>6, Zenon DEF WpInv, PatchSound
        <3>2. view'.seen = view.seen \cup {w}
            BY <1>8, <2>4, Zenon DEF PatchedFacts
        <3> QED
            BY <1>6, <2>1, <3>1, <3>2, Zenon
    <2>13. ReloadSound'
        BY <1>8, <1>11, <2>9, Zenon DEF ReloadSound, ReloadedFacts, KindKept
    <2>14. LockedOut'
        BY <1>7, <2>9, Zenon DEF LockedOut, KindKept
    <2>15. Explained'
        <3>1. Nothing' = Nothing /\ Nothing.seen = {}
            BY DEF Nothing
        <3>2. Does("patches") => view' # Nothing
            BY <2>4, <3>1, Zenon
        <3>3. view # Nothing => view' # Nothing
            BY <2>5, <3>2, Zenon
        <3>4. Lists /\ WriteTells => view' # Nothing
            BY <1>8, <3>2, Zenon DEF ListFacts, WriteTells
        <3> QED
            BY <1>1, <1>7, <2>1, <2>9, <3>1, <3>3, <3>4, Zenon DEF WpInv, Explained, KindKept
    <2> QED
        BY <2>9, <2>10, <2>11, <2>12, <2>13, <2>14, <2>15, Zenon DEF WpInv
<1> QED
    BY <1>10, <1>11, Zenon

\* A stuttering step keeps everything.
LEMMA WpStutter ==
    ASSUME WpInv, UNCHANGED wpVars
    PROVE  WpInv'
<1>1. UNCHANGED <<pg, signed, gone, choice, spin, sorry, view, asked, calls, newest, wr>>
    BY DEF wpVars
<1>2. KindKept
    BY <1>1, KindStays
<1>3. Busy' = Busy /\ (Pressed' <=> Pressed) /\ Acked' = Acked /\ Nothing' = Nothing
    BY <1>1, Zenon DEF Busy, Pressed, Acked, Nothing
<1>4. WpTyped'
    BY <1>1, Zenon DEF WpInv, WpTyped
<1>5. NewestLoads' /\ OneKey' /\ NewestKey' /\ OneLoad'
    BY <1>1, <1>2, Zenon DEF WpInv, NewestLoads, OneKey, NewestKey, OneLoad, KindKept
<1>6. OneWrite' /\ EmptiedSound' /\ PatchSound'
    BY <1>1, <1>2, <1>3, Zenon DEF WpInv, OneWrite, EmptiedSound, PatchSound, KindKept
<1>7. ReloadSound' /\ RowsMatch' /\ LockedOut'
    BY <1>1, <1>2, <1>3, Zenon DEF WpInv, ReloadSound, RowsMatch, LockedOut, KindKept
<1>8. Explained'
    BY <1>1, <1>2, <1>3, Zenon DEF WpInv, Explained, KindKept
<1> QED
    BY <1>4, <1>5, <1>6, <1>7, <1>8, Zenon DEF WpInv

\* Every step of a page keeps the invariant.
LEMMA WpMove ==
    ASSUME WpInv, [WpNext]_wpVars
    PROVE  WpInv'
<1>1. CASE \E k \in PageKeys : Choose(k)
    BY <1>1, ChooseKeeps
<1>2. CASE LoadAgain
    BY <1>2, LoadAgainKeeps
<1>3. CASE LoadMore
    BY <1>3, LoadMoreKeeps
<1>4. CASE RequestStep
    BY <1>4, ServeLoadKeeps, LandLoadKeeps, FailLoadKeeps DEF RequestStep
<1>5. CASE SessionExpires
    BY <1>5, SessionExpiresKeeps
<1>6. CASE \E w \in PageWrites : SendWrite(w) \/ ServeWrite(w) \/ AckWrite(w) \/ FailWrite(w)
    BY <1>6, SendWriteKeeps, ServeWriteKeeps, AckWriteKeeps, FailWriteKeeps
<1>7. CASE UNCHANGED wpVars
    BY <1>7, WpStutter
<1> QED
    BY <1>1, <1>2, <1>3, <1>4, <1>5, <1>6, <1>7 DEF WpNext

\* A page starts with its first load, its rows at hand, or nothing it may ask for.
LEMMA WpStart ==
    ASSUME WpInit
    PROVE  WpInv
<1> DEFINE c == [n |-> 1, key |-> 1, kind |-> "load", seen |-> Unserved]
           begins == MayLoad /\ ~gone /\ ~Can("manual") /\ ~AtHand(1)
<1>1. /\ pg \in DOMAIN Page /\ signed \in BOOLEAN /\ choice = 1 /\ sorry = FALSE
      /\ view = (IF AtHand(1) THEN [of |-> {1}, seen |-> {}] ELSE Nothing)
      /\ asked = (IF begins THEN 1 ELSE 0)
      /\ calls = (IF begins THEN {c} ELSE {})
      /\ wr = [w \in PageWrites |-> [at |-> "idle", key |-> 1, kept |-> FALSE]]
    BY DEF WpInit
<1>2. newest = [n |-> asked, ok |-> asked = 0 /\ AtHand(1)]
    BY DEF WpInit
<1>3. gone = (~signed /\ Can("login"))
    BY DEF WpInit
<1>4. /\ MayLoad => spin = (Can("waits") \/ (Can("spins") /\ ~Can("manual") /\ ~Can("home")))
      /\ ~MayLoad => spin = (Can("waits") /\ ~Can("ends"))
    BY Zenon DEF WpInit
<1>5. begins \in BOOLEAN /\ gone \in BOOLEAN /\ spin \in BOOLEAN
    <2>1. gone \in BOOLEAN
        BY <1>3
    <2>2. spin \in BOOLEAN
        <3>1. (Can("waits") \/ (Can("spins") /\ ~Can("manual") /\ ~Can("home"))) \in BOOLEAN
            BY DEF Can
        <3>2. (Can("waits") /\ ~Can("ends")) \in BOOLEAN
            BY DEF Can
        <3> QED
            BY <1>4, <3>1, <3>2, Zenon
    <2> QED
        BY <2>1, <2>2
<1>6. c \in LoadRequest /\ c.n = 1 /\ c.key = 1 /\ c.kind = "load" /\ c.seen = Unserved
    BY DEF LoadRequest, PageKeys
<1>7. FilteredFacts /\ EmptiedFacts /\ PatchedFacts /\ SignedFacts /\ ListFacts
    BY <1>1, KindFacts
<1> HIDE DEF c, begins
<1>8. (begins => asked = 1 /\ calls = {c}) /\ (~begins => asked = 0 /\ calls = {})
    BY <1>1, Zenon
<1>9. asked \in 0 .. 1 /\ 0 .. 1 \subseteq 0 .. MaxLoads
    BY <1>8, WpAssumption
<1>10. /\ newest \in [n : Nat, ok : BOOLEAN] /\ newest.n = asked
       /\ newest.ok <=> (asked = 0 /\ AtHand(1))
    <2> DEFINE o == asked = 0 /\ AtHand(1)
    <2>1. newest = [n |-> asked, ok |-> o] /\ o \in BOOLEAN /\ asked \in Nat
        BY <1>2, <1>9 DEF AtHand, Can
    <2> HIDE DEF o
    <2>2. newest \in [n : Nat, ok : BOOLEAN] /\ newest.n = asked /\ newest.ok = o
        BY <2>1
    <2> QED
        BY <2>2, Zenon DEF o
<1>11. /\ view \in [of : SUBSET PageKeys, seen : SUBSET PageWrites]
       /\ view.of \subseteq {1}
       /\ AtHand(1) => view.of = {1}
       /\ ~AtHand(1) => view = Nothing /\ view.of = {}
    BY <1>1 DEF Nothing, PageKeys
<1>12. /\ wr \in [PageWrites -> WriteRequest]
       /\ \A w \in PageWrites : wr[w].at = "idle" /\ wr[w].key = 1
    BY <1>1 DEF WriteRequest, PageKeys
<1>13. Busy = {} /\ Acked = {} /\ ~Pressed
    BY <1>12 DEF Busy, Acked, Pressed
<1>14. \A f \in calls : f = c /\ begins
    BY <1>8, Zenon
<1>15. begins => MayLoad /\ ~gone /\ ~Can("manual") /\ ~AtHand(1)
    BY Zenon DEF begins
<1>16. \A f \in calls : f.n = newest.n /\ f.key = choice /\ f.kind = "load" /\ f.seen = Unserved
    BY <1>1, <1>6, <1>8, <1>10, <1>14, Zenon
<1>17. WpTyped
    <2>1. choice \in PageKeys
        BY <1>1 DEF PageKeys
    <2>2. asked \in 0 .. MaxLoads /\ newest.n <= asked
        BY <1>9, <1>10
    <2>3. calls \subseteq LoadRequest /\ \A f, g \in calls : f.n = g.n => f = g
        BY <1>6, <1>14, Zenon
    <2>4. \A f \in calls : 1 <= f.n /\ f.n <= asked
        BY <1>6, <1>8, <1>14
    <2> QED
        BY <1>1, <1>5, <1>10, <1>11, <1>12, <2>1, <2>2, <2>3, <2>4, Zenon DEF WpTyped
<1>18. NewestLoads /\ NewestKey
    <2>1. "load" # "more"
        OBVIOUS
    <2> QED
        BY <1>16, <2>1, Zenon DEF NewestLoads, NewestKey
<1>19. OneKey
    BY <1>1, <1>6, <1>11, <1>12, <1>14, Zenon DEF OneKey
<1>20. OneLoad
    <2> SUFFICES ASSUME Single, calls # {} PROVE spin
        BY <1>16, Zenon DEF OneLoad
    <2>1. MayLoad /\ ~AtHand(1)
        BY <1>14, <1>15, Zenon
    <2>2. ~Can("props")
        BY <2>1, Zenon DEF AtHand
    <2> QED
        BY <1>4, <1>7, <2>1, <2>2, Zenon DEF Single, Chosen, FilteredFacts, EmptiedFacts, PatchedFacts
<1>21. OneWrite /\ EmptiedSound /\ PatchSound /\ ReloadSound
    BY <1>1, <1>13, <1>16, Zenon DEF OneWrite, EmptiedSound, PatchSound, ReloadSound
<1>22. RowsMatch
    BY <1>1, <1>10, <1>11, Zenon DEF RowsMatch
<1>23. LockedOut
    <2> SUFFICES ASSUME ~MayLoad PROVE calls = {} /\ view.of = {}
        BY <1>13, Zenon DEF LockedOut
    <2>1. ~AtHand(1)
        BY <1>7, Zenon DEF SignedFacts, AtHand, MayLoad
    <2> QED
        BY <1>8, <1>11, <1>15, <2>1, Zenon
<1>24. Explained
    <2> SUFFICES ASSUME Lists, ~newest.ok
                 PROVE  (\E f \in calls : f.n = newest.n) \/ gone \/ (spin /\ ~MayLoad)
        BY Zenon DEF Explained
    <2>1. CASE begins
        BY <1>8, <1>16, <2>1, Zenon
    <2>2. CASE ~begins
        <3>1. ~AtHand(1) /\ ~Can("manual")
            BY <1>7, <1>8, <1>10, <2>2, Zenon DEF ListFacts
        <3>2. gone \/ ~MayLoad
            BY <2>2, <3>1, Zenon DEF begins
        <3>3. ~MayLoad => spin
            BY <1>4, <1>7, Zenon DEF ListFacts, MayLoad
        <3> QED
            BY <3>2, <3>3, Zenon
    <2> QED
        BY <2>1, <2>2, Zenon
<1> QED
    BY <1>17, <1>18, <1>19, <1>20, <1>21, <1>22, <1>23, <1>24, Zenon DEF WpInv

\* What the screens of an empty list come to.
LEMMA EmptyShown ==
    ASSUME WpInv, Can("tells"), Shows("none")
    PROVE  Lists /\ ~spin /\ ~sorry /\ view = Nothing
<1> DEFINE S == Page[pg].screens
<1>1. PICK i \in DOMAIN S :
        S[i] = "none" /\ Applies("none") /\ \A j \in 1 .. i - 1 : ~Applies(S[j])
    BY Zenon DEF Shows
<1>2. view = Nothing
    BY <1>1 DEF Applies
<1>3. RuleEmpty(Page[pg].loads, Page[pg].writes, S)
    BY PagesKeepRules, Zenon DEF WpInv, WpTyped, PageRules
<1>4. /\ \E j \in 1 .. i - 1 : S[j] = "spinner" \/ S[j] = "first"
      /\ \E j \in 1 .. i - 1 : S[j] = "sorry" \/ S[j] = "bare"
    BY <1>1, <1>3, Zenon DEF RuleEmpty, Can
<1>5. (~Applies("spinner") \/ ~Applies("first")) /\ (~Applies("sorry") \/ ~Applies("bare"))
    BY <1>1, <1>4, Zenon
<1>6. ~spin /\ ~sorry
    BY <1>2, <1>5 DEF Applies
<1> QED
    BY <1>1, <1>2, <1>6, Zenon DEF Lists

\* The invariant says that the screen can be believed.
LEMMA WpSound ==
    ASSUME WpInv
    PROVE  WpTypeOK /\ RowsOfChoice /\ OwnWriteShown /\ NoFalseEmpty
<1>1. WpTypeOK
    <2>1. view.of \subseteq PageKeys /\ view.seen \subseteq PageWrites
        BY DEF WpInv, WpTyped
    <2>2. asked \in Nat
        BY WpAssumption DEF WpInv, WpTyped
    <2>3. \A f \in calls : f.n \in 1 .. asked /\ f.key \in PageKeys /\ f.kind \in {"load", "more"}
        <3> SUFFICES ASSUME NEW f \in calls
                     PROVE  f.n \in 1 .. asked /\ f.key \in PageKeys /\ f.kind \in {"load", "more"}
            OBVIOUS
        <3>1. f \in LoadRequest /\ 1 <= f.n /\ f.n <= asked
            BY DEF WpInv, WpTyped
        <3> QED
            BY <2>2, <3>1 DEF LoadRequest
    <2>4. \A w \in PageWrites : wr[w].at \in {"idle", "sent", "served", "acked", "lost"}
        BY DEF WpInv, WpTyped, WriteRequest
    <2> QED
        BY <2>1, <2>3, <2>4, Zenon DEF WpInv, WpTyped, WpTypeOK
<1>2. RowsOfChoice
    <2> SUFFICES ASSUME newest.ok, {"latest", "calm"} \cap Page[pg].loads # {} \/ ~Can("keyed")
                 PROVE  view.of = {choice}
        BY Zenon DEF RowsOfChoice
    <2>1. Keyless \/ Chosen
        <3>1. {"latest", "calm"} \cap Page[pg].loads # {} => Can("latest") \/ Can("calm")
            BY Zenon DEF Can
        <3> QED
            BY <3>1, Zenon DEF Keyless, Chosen
    <2> QED
        BY <2>1, Zenon DEF WpInv, RowsMatch
<1>3. OwnWriteShown
    <2> SUFFICES ASSUME newest.ok, Steady, {"reloads", "patches"} \cap Page[pg].writes # {}
                 PROVE  \A w \in PageWrites : wr[w].at = "acked" => w \in view.seen
        BY Zenon DEF OwnWriteShown
    <2>1. Reloaded \/ Patched
        <3>1. Does("reloads") \/ Does("patches")
            BY Zenon DEF Does
        <3> QED
            BY <3>1, Zenon DEF Reloaded, Patched
    <2>2. Acked \subseteq view.seen
        BY <2>1, Zenon DEF WpInv, ReloadSound, PatchSound
    <2> QED
        BY <2>2, Zenon DEF Acked
<1>4. NoFalseEmpty
    <2> SUFFICES ASSUME PageQuiet, Can("tells"), Shows("none"), ~newest.ok PROVE FALSE
        BY Zenon DEF NoFalseEmpty
    <2>1. Lists /\ ~spin /\ ~sorry /\ view = Nothing
        BY EmptyShown
    <2> QED
        BY <2>1, Zenon DEF WpInv, Explained, PageQuiet
<1> QED
    BY <1>1, <1>2, <1>3, <1>4, Zenon

-------------------------------------------------------------------------------
(* The components together *)

\* The four share no state: a step is a step or a stutter of each.
LEMMA ProgressEach ==
    ASSUME [ProgressNext]_progressVars
    PROVE  [CcNext]_ccVars /\ [WpNext]_wpVars /\ [RtpNext]_rtpVars /\ [BatchNext]_batchVars
<1>1. CASE UNCHANGED progressVars
    <2>1. UNCHANGED <<ccVars, wpVars, rtpVars, batchVars>>
        BY <1>1 DEF progressVars
    <2> QED
        BY <2>1
<1>2. CASE ProgressNext
    BY <1>2 DEF ProgressNext
<1> QED
    BY <1>1, <1>2

ProgressInv == CcInv /\ WpInv /\ RtpInv /\ BatchInv

\* Every part of the invariant holds whoever moves.
THEOREM ProgressInvariance == ProgressSpec => []ProgressInv
<1>1. ProgressInit => ProgressInv
    BY CcStart, WpStart, RtpStart, BatchStart DEF ProgressInit, ProgressInv
<1>2. ProgressInv /\ [ProgressNext]_progressVars => ProgressInv'
    <2> SUFFICES ASSUME ProgressInv, [ProgressNext]_progressVars PROVE ProgressInv'
        OBVIOUS
    <2>1. [CcNext]_ccVars /\ [WpNext]_wpVars /\ [RtpNext]_rtpVars /\ [BatchNext]_batchVars
        BY ProgressEach
    <2>2. CcInv'
        BY <2>1, CcMove DEF ProgressInv
    <2>3. RtpInv'
        BY <2>1, RtpStep DEF ProgressInv
    <2>4. BatchInv'
        BY <2>1, BatchMove DEF ProgressInv
    <2>5. WpInv'
        BY <2>1, WpMove DEF ProgressInv
    <2> QED
        BY <2>2, <2>3, <2>4, <2>5 DEF ProgressInv
<1> QED
    BY <1>1, <1>2, PTL DEF ProgressSpec

\* A recurring template spawns at most one challenge for a period, however many
\* sweeps run at once, run late or are cut short (challenge-templates.ts).
THEOREM OneChallengePerPeriodAlways == ProgressSpec => []OneChallengePerPeriod
<1>1. ProgressInv => OneChallengePerPeriod
    BY OnePerStart DEF ProgressInv
<1> QED
    BY <1>1, ProgressInvariance, PTL

\* The cached loader never answers older data than its invalidations allow, loads
\* once at a time while no lock runs out, and leaves no lock behind, for any
\* number of callers, writes and polls (lib/cache.ts).
THEOREM CacheSoundAlways == ProgressSpec => []CacheSound
<1>1. ProgressInv => CacheSound
    BY CcSound DEF ProgressInv, CacheSound
<1> QED
    BY <1>1, ProgressInvariance, PTL

\* What a page shows can be believed once nothing is under way: the rows are those of
\* the filter selected, a confirmed write is among them, and an empty list is the
\* answer to a load, for any number of loads and writes (apps/web).
THEOREM PagesTruthfulAlways == ProgressSpec => []PagesTruthful
<1>1. ProgressInv => PagesTruthful
    BY WpSound DEF ProgressInv, PagesTruthful
<1> QED
    BY <1>1, ProgressInvariance, PTL

\* The loader, the pages, the sweep and the batches keep to their types.
THEOREM ProgressTypeCorrect == ProgressSpec => []ProgressTypeOK
<1>1. ProgressInv => ProgressTypeOK
    BY CcSound, WpSound DEF ProgressInv, RtpInv, RtpTyped, BatchInv, BatchTyped, ProgressTypeOK
<1> QED
    BY <1>1, ProgressInvariance, PTL
================================================================================
