-------------------------- MODULE RecurringTemplates --------------------------
(***************************************************************************)
(* The daily sweep that spawns a challenge from a recurring template       *)
(* (services/challenge-templates.ts) and the routes that pause, resume and *)
(* delete the template.  Two sweeps may overlap: a job that stalls is run  *)
(* again.  Days are counted from Monday 25 December 2023 = 0.              *)
(***************************************************************************)
EXTENDS Integers, FiniteSets

CONSTANTS
    SweepDays,     \* the days on which something happens
    Sweepers,      \* concurrent sweeps
    RecurrenceRule, \* of the template: "daily", "weekly" or "biweekly"
    MaxSweeps      \* bound on sweeps started

ASSUME RtpAssumption ==
    /\ SweepDays \subseteq Nat /\ SweepDays # {}
    /\ MaxSweeps \in Nat

VARIABLES
    today, template, spawned,
    rowLock,         \* sweeps whose transaction holds the template's row
    sweep, sweeps

rtpVars == <<today, template, spawned, rowLock, sweep, sweeps>>

-----------------------------------------------------------------------------
(* The calendar of 2023 to 2025 *)
YearOf(d) == IF d < 7 THEN 2023 ELSE IF d < 373 THEN 2024 ELSE 2025
YearStart(y) == CASE y = 2023 -> -358 [] y = 2024 -> 7 [] y = 2025 -> 373

\* The week of the Thursday in the same week as d
isoWeek(d) ==
    LET thursday == d - (d % 7) + 3
    IN (thursday - YearStart(YearOf(thursday)) + 7) \div 7

computeNextStartDate(d) ==
    CASE RecurrenceRule = "daily"    -> d + 1
      [] RecurrenceRule = "weekly"   -> d + 7 - (d % 7)
      [] RecurrenceRule = "biweekly" -> d + 14 - (d % 7)

\* The calendar year of the start with its ISO week, which may be another year's
periodKeyForRule(start) ==
    CASE RecurrenceRule = "daily"    -> <<YearOf(start), start>>
      [] RecurrenceRule = "weekly"   -> <<YearOf(start), isoWeek(start)>>
      [] RecurrenceRule = "biweekly" -> <<YearOf(start), (isoWeek(start) + 1) \div 2>>

NoPeriod == <<0, 0>>
Resting == [pc |-> "idle", key |-> NoPeriod, start |-> 0]

RtpInit ==
    /\ today = CHOOSE d \in SweepDays : \A e \in SweepDays : d <= e
    /\ template = [status |-> "active", last |-> NoPeriod]
    /\ spawned = {}
    /\ rowLock = {}
    /\ sweep = [s \in Sweepers |-> Resting]
    /\ sweeps = 0

SweepTo(s, pc) == sweep' = [sweep EXCEPT ![s].pc = pc]
EndSweep(s) == sweep' = [sweep EXCEPT ![s] = Resting]

\* spawnDueChallengesFromAllTemplates: only active templates are listed
StartSweep(s) ==
    /\ sweep[s].pc = "idle" /\ sweeps < MaxSweeps
    /\ template.status = "active"
    /\ sweeps' = sweeps + 1
    /\ SweepTo(s, "read")
    /\ UNCHANGED <<today, template, spawned, rowLock>>

\* A deleted template, or one whose last period is this one, is skipped; a
\* template paused since the list was read is not
ReadTemplate(s) ==
    /\ sweep[s].pc = "read"
    /\ LET start == computeNextStartDate(today)
           key == periodKeyForRule(start)
       IN IF template.status = "deleted" \/ template.last = key
          THEN EndSweep(s)
          ELSE sweep' = [sweep EXCEPT ![s] =
                           [pc |-> "lock", key |-> key, start |-> start]]
    /\ UNCHANGED <<today, template, spawned, rowLock, sweeps>>

\* Fault: the row is read without a lock
LockShared(s) == TRUE

\* SELECT ... FOR UPDATE waits for the transaction that holds the row
LockFree(s) == rowLock = {}

LockTemplate(s) ==
    /\ sweep[s].pc = "lock" /\ LockFree(s)
    /\ rowLock' = rowLock \cup {s}
    /\ SweepTo(s, "count")
    /\ UNCHANGED <<today, template, spawned, sweeps>>

\* Is there a challenge of the template for this period?
CountPeriod(s) ==
    /\ sweep[s].pc = "count"
    /\ SweepTo(s, IF \E c \in spawned : c.key = sweep[s].key THEN "mark" ELSE "insert")
    /\ UNCHANGED <<today, template, spawned, rowLock, sweeps>>

\* The challenge, its questions and the template's last period commit together
CommitSpawn(s) ==
    /\ sweep[s].pc = "insert"
    /\ spawned' = spawned \cup {[key |-> sweep[s].key, start |-> sweep[s].start,
                                 nth |-> Cardinality(spawned)]}
    /\ template' = [template EXCEPT !.last = sweep[s].key]
    /\ rowLock' = rowLock \ {s}
    /\ EndSweep(s)
    /\ UNCHANGED <<today, sweeps>>

\* Any statement may fail or time out, and the transaction is rolled back.
\* markTemplateSpawned runs on another connection and waits for the lock this
\* transaction holds, so the time-out is its only way on
RollBack(s) ==
    /\ sweep[s].pc \in {"lock", "count", "mark", "insert"}
    /\ rowLock' = rowLock \ {s}
    /\ EndSweep(s)
    /\ UNCHANGED <<today, template, spawned, sweeps>>

\* The routes: one conditional UPDATE, which waits for the row's lock
UpdateTemplate(from, to) ==
    /\ rowLock = {} /\ template.status \in from
    /\ template' = [template EXCEPT !.status = to]
    /\ UNCHANGED <<today, spawned, rowLock, sweep, sweeps>>

pauseChallengeTemplate == UpdateTemplate({"active"}, "paused")
resumeChallengeTemplate == UpdateTemplate({"paused"}, "active")
softDeleteChallengeTemplate == UpdateTemplate({"active", "paused"}, "deleted")

NextDay ==
    /\ \E d \in SweepDays : d > today
    /\ today' = CHOOSE d \in SweepDays :
                   d > today /\ \A e \in SweepDays : e > today => d <= e
    /\ UNCHANGED <<template, spawned, rowLock, sweep, sweeps>>

SweepStep(s) ==
    \/ ReadTemplate(s) \/ LockTemplate(s) \/ CountPeriod(s)
    \/ CommitSpawn(s) \/ RollBack(s)

RtpNext ==
    \/ pauseChallengeTemplate \/ resumeChallengeTemplate
    \/ softDeleteChallengeTemplate \/ NextDay
    \/ \E s \in Sweepers : StartSweep(s) \/ SweepStep(s)

\* The worker goes on with its statements, and the database answers or times out
RtpFairness == \A s \in Sweepers : WF_rtpVars(SweepStep(s))

RtpSpec == RtpInit /\ [][RtpNext]_rtpVars /\ RtpFairness

-----------------------------------------------------------------------------
Keys == {NoPeriod} \cup {periodKeyForRule(computeNextStartDate(d)) : d \in SweepDays}
Starts == {computeNextStartDate(d) : d \in SweepDays}

\* Type correctness of the template, the spawned challenges and the sweeps.
RtpTypeOK ==
    /\ today \in SweepDays
    /\ template \in [status : {"active", "paused", "deleted"}, last : Keys]
    /\ spawned \subseteq [key : Keys, start : Starts, nth : Nat]
    /\ rowLock \subseteq Sweepers
    /\ sweep \in [Sweepers -> [pc : {"idle", "read", "lock", "count", "mark", "insert"},
                               key : Keys, start : Starts \cup {0}]]
    /\ sweeps \in 0..MaxSweeps

\* However sweeps overlap, fail or are repeated on the days of one period, the
\* brand is asked to fund one challenge per start date, and the template's last
\* period is one a challenge exists for (challenge-templates.ts:143-221).
OneChallengePerPeriod ==
    /\ \A c, d \in spawned : c.start = d.start => c = d
    /\ template.last = NoPeriod \/ \E c \in spawned : c.key = template.last
===============================================================================
