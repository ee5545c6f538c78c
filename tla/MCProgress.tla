------------------------------ MODULE MCProgress ------------------------------
(* Components that must come to an end: the cached loader, the pages of the    *)
(* web client, the sweep of recurring templates and the calls of               *)
(* submitBatchPayout.  They share no state, so a behaviour of them all shows   *)
(* no more than the behaviours of each: `focus` says whose behaviour this is,  *)
(* and the others stay where they begin.                                       *)
EXTENDS ReadCache, WebPages, RecurringTemplates, BatchPayout

VARIABLE focus

CONSTANTS w1, w2, p1, none

\* Two callers, two sweeps or two workers of one process
Actors == {w1, w2}
MCProcesses == {p1}
MCHomes == [w \in Actors |-> p1]

progressVars == <<ccVars, wpVars, rtpVars, batchVars, focus>>

\* Components with several initial states begin in one of them when not in focus
ProgressInit ==
    /\ focus \in {"cache", "pages", "sweeps", "batches"}
    /\ CcInit /\ (focus = "cache" \/ \A c \in CcReaders : ccReq[c].mode = "cached")
    /\ WpInit /\ (focus = "pages" \/ (pg = "auditLog" /\ signed))
    /\ RtpInit
    /\ BatchInit

ProgressNext ==
    /\ UNCHANGED focus
    /\ \/ focus = "cache" /\ CcNext /\ UNCHANGED <<wpVars, rtpVars, batchVars>>
       \/ focus = "pages" /\ WpNext /\ UNCHANGED <<ccVars, rtpVars, batchVars>>
       \/ focus = "sweeps" /\ RtpNext /\ UNCHANGED <<ccVars, wpVars, batchVars>>
       \/ focus = "batches" /\ BatchNext /\ UNCHANGED <<ccVars, wpVars, rtpVars>>

\* The steps each component's fairness is about, those of one actor at a time
FairStep(a) ==
    /\ UNCHANGED focus
    /\ \/ focus = "cache" /\ CallerStep(a) /\ UNCHANGED <<wpVars, rtpVars, batchVars>>
       \/ focus = "pages" /\ RequestStep /\ UNCHANGED <<ccVars, rtpVars, batchVars>>
       \/ focus = "sweeps" /\ SweepStep(a) /\ UNCHANGED <<ccVars, wpVars, batchVars>>
       \/ focus = "batches" /\ BatchStep(a) /\ UNCHANGED <<ccVars, wpVars, rtpVars>>

ProgressSpec ==
    /\ ProgressInit /\ [][ProgressNext]_progressVars
    /\ \A a \in Actors : WF_progressVars(FairStep(a))

\* Type correctness of the components.
ProgressTypeOK == CcTypeOK /\ WpTypeOK /\ RtpTypeOK /\ BatchTypeOK

Waits(a) ==
    \/ focus = "cache" /\ ~CcAt(a, "done")
    \/ focus = "pages" /\ spin /\ MayLoad /\ ~gone
    \/ focus = "sweeps" /\ sweep[a].pc # "idle"
    \/ focus = "batches" /\ pc[a] \notin {"returned", "threw"}

\* Nobody waits for ever.  Every caller of the cached loader is answered, for
\* waiting has a deadline (lib/cache.ts:46).  A page that shows a spinner stops
\* (an answer, an error or another page), provided the visitor is signed in or
\* the page needs no sign-in.  A sweep that waits for a lock it holds itself is
\* ended by the statement time-out (challenge-templates.ts:160).  Every call of
\* submitBatchPayout ends: no worker waits for ever for another one's load of
\* the base sequence (packages/stellar/src/sequence.ts:59).
NobodyWaitsForever == \A a \in Actors : Waits(a) ~> ~Waits(a)

\* The cache answers truly and loads once: no version older than the last
\* invalidation that nothing crossed, one loader at a time, and a lock that is
\* held has a holder who releases it or lets it expire (lib/cache.ts:46).
CacheSound == CacheFresh /\ OneLoader /\ LockHasHolder

\* A page shows the rows of the choice on the screen, not of one that was
\* overtaken; the user's own write stays shown; a failed load is not an empty
\* list (admin/payouts/page.tsx:83, notification-bell.tsx:114).
PagesTruthful == RowsOfChoice /\ OwnWriteShown /\ NoFalseEmpty
===============================================================================
