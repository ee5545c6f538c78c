------------------------- MODULE PayoutPipelineProofs -------------------------
(***************************************************************************)
(* The payout of a challenge pays nobody twice without a trace, keeps its  *)
(* records honest and its runs apart, for any winners, workers, attempts   *)
(* and number of failures.                                                 *)
(*                                                                         *)
(* Two runs past the status check at once make every winner lost, so a     *)
(* statement about winners that are not lost is about one run.  That run   *)
(* has taken up only winners without a 'sent' row (InStep), each of whom   *)
(* is unpaid until the run pays them (Unrepeated); and when it leaves, each *)
(* winner it paid has a 'sent' row or is lost.                              *)
(***************************************************************************)
EXTENDS PayoutPipeline, SequenceTheorems, WellFoundedInduction, TLAPS

Busy(w) == At(w) \in PastCheck

\* What a run knows by itself
RunSound(w) ==
    LET r == run[w] IN
    /\ r.at \in {"list", "unlock"} => r.batch
    /\ r.at \in {"list", "check"} => r.recs = {} /\ r.next = 1
    /\ r.at \in {"list", "check", "create", "settle"} => r.mine = {} /\ r.noted = {}
    /\ r.mine \subseteq r.recs /\ r.ok \subseteq r.recs /\ r.noted \subseteq r.recs
    /\ r.at \in {"settle", "note"} => plan.escrow
    /\ r.at = "submit" => r.mine \subseteq lost
    /\ r.at = "record" => r.mine \subseteq r.ok \cup lost
    /\ r.at = "record" => \A u \in r.ok : paid[u] > 0

\* How far its loops over the winners have come
LoopSound(w) ==
    LET r == run[w] IN
    \A i \in 1 .. Len(Rank) : i < r.next =>
       /\ r.at = "note" /\ Rank[i] \in r.recs => Rank[i] \in r.noted
       /\ r.at = "record" /\ Rank[i] \in r.ok /\ ~Shares(Rank[i]) => Rank[i] \in r.noted
       /\ r.at = "record" /\ Rank[i] \in r.recs /\ r.ok = r.recs =>
             RecordOf(w, Rank[i]) \in r.noted

RunsSound == \A w \in Workers : run[w] # Idle => RunSound(w) /\ LoopSound(w)

\* Past the status check a run is alone and the challenge is not settled, or
\* everybody is lost.
Alone == \A v, w \in Workers : v # w /\ Busy(v) /\ Busy(w) => lost = Winners
Underway == \A w \in Workers : Busy(w) => status = "ended" \/ lost = Winners

InStep ==
    \A w \in Workers : Busy(w) =>
        \A u \in run[w].recs \ lost : row[u] = "sent" <=> u \in run[w].noted

\* A winner no run has left unrecorded is paid once, by a run that still knows of
\* it or has marked the row; the winners a run has yet to pay are unpaid.
Unrepeated(u) ==
    /\ paid[u] <= 1
    /\ paid[u] = 1 => row[u] = "sent" \/ \E w \in Workers : Busy(w) /\ u \in run[w].mine
    /\ \A w \in Workers : Busy(w) /\ u \in run[w].recs \ run[w].mine => paid[u] = 0
PaymentsSound == \A u \in Winners : u \in lost \/ Shares(u) \/ Unrepeated(u)

\* The loop over the allocations leaves nobody out.
Handled(w, u) == u \in plan.blocked \/ u \in run[w].recs \/ row[u] = "sent"
Complete ==
    lost = {} => \A w \in Workers : Busy(w) =>
        \A i \in 1 .. Len(Rank) :
            At(w) # "create" \/ i < run[w].next => Handled(w, Rank[i])

LedgerInv == RunsSound /\ Alone /\ Underway /\ InStep /\ PaymentsSound /\ Complete
             /\ RecordsHonest

\* A run holds what keeps the others out.
Holds(w) ==
    /\ run[w].batch => lock
    /\ ~run[w].batch => job.state = "active" /\ job.by = w
LockInv ==
    /\ job.state \in {"waiting", "active"} => job.attempts < MaxAttempts
    /\ ~overrun => \A w \in Workers : run[w] # Idle => Holds(w)
    /\ RunsAlone

PipelineInv == PayoutTypeOK /\ LedgerInv /\ LockInv

USE PipelineAssumption

-------------------------------------------------------------------------------
(* Winners, records and runs *)

\* The ranking lists every winner.
LEMMA Ranked ==
    /\ Len(Rank) \in Nat /\ DOMAIN Rank = 1 .. Len(Rank)
    /\ \A i \in 1 .. Len(Rank) : Rank[i] \in Winners
    /\ \A u \in Winners : \E i \in 1 .. Len(Rank) : Rank[i] = u
BY DEF Winners, Range

\* A non-empty set of numbers has a least one.
LEMMA LeastIndex ==
    ASSUME NEW S \in SUBSET Nat, S # {}
    PROVE  \E i \in S : \A j \in S : i <= j
<1>1. PICK i \in S : \A j \in S : ~ (<<j, i>> \in OpToRel(<, Nat))
  BY NatLessThanWellFounded, WFMin
<1>2. \A j \in Nat : j < i => <<j, i>> \in OpToRel(<, Nat)
  BY SMT DEF OpToRel
<1>3. \A j \in S : ~ (j < i)
  BY <1>1, <1>2, Zenon
<1> QED
  BY <1>3

\* payoutRecords.find answers with a record of the same address: the winner's own
\* if nobody shares it.
LEMMA FoundRecord ==
    ASSUME PayoutTypeOK, NEW w \in Workers, NEW u \in Winners, u \in run[w].recs
    PROVE  /\ RecordOf(w, u) \in run[w].recs /\ RecordOf(w, u) \in Winners
           /\ plan.address[RecordOf(w, u)] = plan.address[u]
           /\ ~Shares(u) => RecordOf(w, u) = u
           /\ RecordOf(w, u) # u => Shares(RecordOf(w, u))
<1> DEFINE same == {i \in 1 .. Len(Rank) : /\ Rank[i] \in run[w].recs
                                           /\ plan.address[Rank[i]] = plan.address[u]}
<1>1. same \in SUBSET Nat /\ same # {}
  BY Ranked
<1>2. (CHOOSE i \in same : \A j \in same : i <= j) \in same
  <2> HIDE DEF same
  <2> QED BY <1>1, LeastIndex
<1>3. RecordOf(w, u) = Rank[CHOOSE i \in same : \A j \in same : i <= j]
  BY DEF RecordOf
<1>4. \E i \in same : RecordOf(w, u) = Rank[i]
  <2> HIDE DEF same
  <2> QED BY <1>2, <1>3
<1> QED
  BY <1>4, Ranked DEF Shares

\* The label of a slot says whether a run is in it.
LEMMA RunType ==
    ASSUME PayoutTypeOK, NEW w \in Workers
    PROVE  /\ run[w] = Idle <=> At(w) = "idle"
           /\ run[w] # Idle <=> run[w] \in Run
           /\ At(w) \in Labels <=> run[w] \in Run
           /\ Busy(w) => At(w) \in Labels
BY DEF PayoutTypeOK, Run, Idle, At, Labels, Busy, PastCheck

\* A step of w leaves the other slots alone.
Moves(w) == \A v \in Workers \ {w} : run'[v] = run[v]
\* No run starts or changes its kind.
Follows == \A v \in Workers : run'[v] # Idle =>
               run[v] # Idle /\ run'[v].batch = run[v].batch

\* A jump changes the label of its own run and nothing else.
LEMMA GotoEffect ==
    ASSUME PayoutTypeOK, NEW w \in Workers, At(w) \in Labels,
           NEW label \in Labels, Goto(w, label)
    PROVE  /\ run' \in [Workers -> Run \cup {Idle}] /\ Moves(w) /\ Follows
           /\ run'[w] = [run[w] EXCEPT !.at = label] /\ run'[w] \in Run
           /\ At(w)' = label /\ run'[w] # Idle
<1>1. run \in [Workers -> Run \cup {Idle}] /\ run[w] \in Run /\ run[w] # Idle
  BY RunType DEF PayoutTypeOK
<1>2. [run[w] EXCEPT !.at = label] \in Run
  BY <1>1 DEF Run
<1>3. run' = [run EXCEPT ![w] = [run[w] EXCEPT !.at = label]]
  BY <1>1 DEF Goto
<1>4. run'[w] = [run[w] EXCEPT !.at = label] /\ \A v \in Workers \ {w} : run'[v] = run[v]
  BY <1>1, <1>3
<1>5. run'[w].batch = run[w].batch /\ run'[w].at = label
  BY <1>1, <1>4 DEF Run
<1>6. run'[w] # Idle
  BY <1>5 DEF Idle, Labels
<1> QED
  BY <1>1, <1>2, <1>3, <1>4, <1>5, <1>6 DEF Moves, Follows, At

\* A run that ends frees its own slot.
LEMMA IdleEffect ==
    ASSUME PayoutTypeOK, NEW w \in Workers, run' = [run EXCEPT ![w] = Idle]
    PROVE  /\ run' \in [Workers -> Run \cup {Idle}] /\ Moves(w) /\ Follows
           /\ run'[w] = Idle /\ At(w)' = "idle" /\ ~Busy(w)'
BY DEF PayoutTypeOK, Moves, Follows, At, Idle, Busy, PastCheck

-------------------------------------------------------------------------------
(* The locks *)

\* Whoever leaves job and lock alone, and starts no run, leaves the locks in order.
LEMMA LocksStay ==
    ASSUME LockInv, UNCHANGED <<job, lock, overrun>>, Follows
    PROVE  LockInv'
BY DEF LockInv, Holds, RunsAlone, Follows

\* One run of each kind at most, unless one went on without its lock.
LEMMA LocksHeld ==
    ASSUME job.state \in {"waiting", "active"} => job.attempts < MaxAttempts,
           ~overrun => \A w \in Workers : run[w] # Idle => Holds(w),
           ~overrun => \A v, w \in Workers :
               v # w /\ run[v] # Idle /\ run[w] # Idle => run[v].batch # run[w].batch
    PROVE  LockInv
BY DEF LockInv, RunsAlone
-------------------------------------------------------------------------------
(* What a step must keep *)

\* The facts about the slots that are not past the check, and about the others if
\* everybody is lost, survive any step of another slot.
LEMMA SoundStep ==
    ASSUME PayoutTypeOK, RunsSound, NEW w \in Workers, Moves(w), plan' = plan,
           lost \subseteq lost', \A u \in Winners : paid'[u] >= paid[u],
           paid' \in [Winners -> Nat],
           run'[w] # Idle => RunSound(w)' /\ LoopSound(w)'
    PROVE  RunsSound'
<1> SUFFICES ASSUME NEW v \in Workers, v # w, run'[v] # Idle
             PROVE  RunSound(v)' /\ LoopSound(v)'
  BY DEF RunsSound
<1>1. run'[v] = run[v] /\ run[v] \in Run /\ RunSound(v) /\ LoopSound(v)
  BY RunType DEF Moves, RunsSound
<1>2. \A u \in Winners : (Shares(u)' <=> Shares(u)) /\ RecordOf(v, u)' = RecordOf(v, u)
  BY <1>1 DEF Shares, RecordOf
<1>3. RunSound(v)'
  <2>1. run[v].ok \subseteq Winners /\ paid \in [Winners -> Nat]
    BY <1>1 DEF Run, PayoutTypeOK
  <2>2. run'[v].at = "record" => \A u \in run'[v].ok : paid'[u] > 0
    BY <1>1, <2>1 DEF RunSound
  <2> QED
    BY <1>1, <2>2 DEF RunSound
<1>4. LoopSound(v)'
  BY <1>1, <1>2, Ranked DEF LoopSound
<1> QED
  BY <1>3, <1>4

\* What runs know of themselves survives more losses.
LEMMA SoundStays ==
    ASSUME PayoutTypeOK, RunsSound, UNCHANGED <<plan, paid, run>>, lost \subseteq lost'
    PROVE  RunsSound'
<1>1. paid \in [Winners -> Nat] /\ \A u \in Winners : paid'[u] >= paid[u]
  BY DEF PayoutTypeOK
<1>2. PICK w \in Workers : TRUE
  OBVIOUS
<1>3. Moves(w)
  BY DEF Moves
<1>4. run'[w] # Idle => RunSound(w)' /\ LoopSound(w)'
  <2>1. \A u \in Winners : (Shares(u)' <=> Shares(u)) /\ RecordOf(w, u)' = RecordOf(w, u)
    BY DEF Shares, RecordOf
  <2> QED
    BY <2>1, Ranked DEF RunsSound, RunSound, LoopSound
<1> QED
  BY <1>1, <1>3, <1>4, SoundStep

\* A step of a run past the check: nobody else's word counts.
LEMMA BusyStep ==
    ASSUME PayoutTypeOK, LedgerInv, NEW w \in Workers, Busy(w), Moves(w), plan' = plan,
           lost \subseteq lost', lost' \subseteq Winners, paid' \in [Winners -> Nat],
           \A u \in Winners : paid'[u] >= paid[u],
           run'[w] # Idle => RunSound(w)' /\ LoopSound(w)',
           Busy(w)' => status' = status,
           Busy(w)' => \A u \in run'[w].recs \ lost' : row'[u] = "sent" <=> u \in run'[w].noted,
           \A u \in Winners : u \notin lost' /\ ~Shares(u) =>
               /\ paid'[u] <= 1
               /\ paid'[u] = 1 => row'[u] = "sent" \/ (Busy(w)' /\ u \in run'[w].mine)
               /\ Busy(w)' /\ u \in run'[w].recs \ run'[w].mine => paid'[u] = 0,
           lost' = {} /\ Busy(w)' =>
               \A i \in 1 .. Len(Rank) :
                   At(w)' # "create" \/ i < run'[w].next => Handled(w, Rank[i])',
           RecordsHonest'
    PROVE  LedgerInv'
<1>1. \A v \in Workers \ {w} : run'[v] = run[v] /\ (Busy(v)' => lost = Winners /\ lost' = Winners)
  BY DEF Moves, LedgerInv, Alone, Busy, At
<1>2. RunsSound'
  BY SoundStep DEF LedgerInv
<1>3. Alone'
  BY <1>1 DEF Alone
<1>4. Underway'
  BY <1>1 DEF LedgerInv, Underway
<1>5. InStep'
  <2> SUFFICES ASSUME NEW v \in Workers, Busy(v)', NEW u \in run'[v].recs \ lost'
               PROVE  row'[u] = "sent" <=> u \in run'[v].noted
    BY DEF InStep
  <2>1. CASE v = w
    BY <2>1
  <2>2. CASE v # w
    <3>1. lost' = Winners /\ run[v] \in Run /\ run'[v] = run[v]
      BY <1>1, <2>2, RunType DEF Busy, At
    <3>2. run'[v].recs \subseteq Winners
      BY <3>1 DEF Run
    <3> QED
      BY <3>1, <3>2
  <2> QED
    BY <2>1, <2>2
<1>6. PaymentsSound'
  <2> SUFFICES ASSUME NEW u \in Winners, u \notin lost', ~Shares(u)'
               PROVE  Unrepeated(u)'
    BY DEF PaymentsSound
  <2>1. ~Shares(u)
    BY DEF Shares
  <2>2. \A v \in Workers \ {w} : ~Busy(v)'
    BY <1>1
  <2> QED
    BY <2>1, <2>2 DEF Unrepeated
<1>7. Complete'
  <2> SUFFICES ASSUME lost' = {}, NEW v \in Workers, Busy(v)', NEW i \in 1 .. Len(Rank),
                      At(v)' # "create" \/ i < run'[v].next
               PROVE  Handled(v, Rank[i])'
    BY DEF Complete
  <2>1. Rank[i] \notin lost' /\ Rank[i] \in Winners
    BY Ranked
  <2>2. v = w
    BY <1>1, <2>1
  <2> QED
    BY <2>2
<1> QED
  BY <1>2, <1>3, <1>4, <1>5, <1>6, <1>7 DEF LedgerInv

\* A step of a run that is not past the check, before or after.
LEMMA QuietStep ==
    ASSUME PayoutTypeOK, LedgerInv, NEW w \in Workers, Moves(w), ~Busy(w), ~Busy(w)',
           UNCHANGED <<plan, status, row, paid>>, lost \subseteq lost', lost' \subseteq Winners,
           run'[w] # Idle => RunSound(w)' /\ LoopSound(w)'
    PROVE  LedgerInv'
<1>1. \A v \in Workers : Busy(v)' <=> Busy(v)
  BY DEF Moves, Busy, At
<1>2. \A v \in Workers : Busy(v) => run'[v] = run[v]
  BY <1>1 DEF Moves
<1>3. RunsSound'
  <2>1. paid \in [Winners -> Nat] /\ \A u \in Winners : paid'[u] >= paid[u]
    BY DEF PayoutTypeOK
  <2> QED
    BY <2>1, SoundStep DEF LedgerInv
<1>4. Alone' /\ Underway'
  BY <1>1 DEF LedgerInv, Alone, Underway
<1>5. InStep'
  BY <1>1, <1>2 DEF LedgerInv, InStep
<1>6. PaymentsSound'
  <2> SUFFICES ASSUME NEW u \in Winners, u \notin lost', ~Shares(u)'
               PROVE  Unrepeated(u)'
    BY DEF PaymentsSound
  <2>1. Unrepeated(u)
    BY DEF Shares, LedgerInv, PaymentsSound
  <2> QED
    BY <1>1, <1>2, <2>1 DEF Unrepeated
<1>7. Complete'
  BY <1>1, <1>2 DEF LedgerInv, Complete, Handled, At
<1>8. RecordsHonest'
  BY DEF LedgerInv, RecordsHonest, SentMeansPaid, SettledMeansSent
<1> QED
  BY <1>3, <1>4, <1>5, <1>6, <1>7, <1>8 DEF LedgerInv

\* A step that only rewrites rows: no 'sent' appears, and none goes but a lost one.
LEMMA RowStep ==
    ASSUME PayoutTypeOK, LedgerInv, UNCHANGED <<plan, status, paid, run>>,
           lost \subseteq lost', lost' \subseteq Winners,
           \A u \in Winners : row'[u] = "sent" => row[u] = "sent",
           \A u \in Winners : row[u] = "sent" => row'[u] = "sent" \/ u \in lost'
    PROVE  LedgerInv'
<1>1. \A v \in Workers : Busy(v)' <=> Busy(v)
  BY DEF Busy, At
<1>2. \A v \in Workers : Busy(v) => run[v].recs \subseteq Winners
  BY RunType DEF Run
<1>3. RunsSound'
  BY SoundStays DEF LedgerInv
<1>4. Alone' /\ Underway'
  BY <1>1 DEF LedgerInv, Alone, Underway
<1>5. InStep'
  BY <1>1, <1>2 DEF LedgerInv, InStep
<1>6. PaymentsSound'
  <2> SUFFICES ASSUME NEW u \in Winners, u \notin lost', ~Shares(u)'
               PROVE  Unrepeated(u)'
    BY DEF PaymentsSound
  <2>1. Unrepeated(u)
    BY DEF Shares, LedgerInv, PaymentsSound
  <2> QED
    BY <1>1, <2>1 DEF Unrepeated
<1>7. Complete'
  BY <1>1, Ranked DEF LedgerInv, Complete, Handled, At
<1>8. RecordsHonest'
  <2>1. SentMeansPaid'
    BY DEF LedgerInv, RecordsHonest, SentMeansPaid
  <2>2. SettledMeansSent'
    BY DEF LedgerInv, RecordsHonest, SettledMeansSent
  <2> QED
    BY <2>1, <2>2 DEF RecordsHonest
<1> QED
  BY <1>3, <1>4, <1>5, <1>6, <1>7, <1>8 DEF LedgerInv

\* A step on the queue or the locks leaves rows and payments as they are.
LEMMA LedgerStays ==
    ASSUME PayoutTypeOK, LedgerInv, UNCHANGED <<plan, status, row, paid, run, lost>>
    PROVE  LedgerInv'
<1>1. lost \subseteq lost' /\ lost' \subseteq Winners
  BY DEF PayoutTypeOK
<1> QED
  BY <1>1, RowStep

-------------------------------------------------------------------------------
(* Requests, queues and dead letters *)

\* The challenge ends.
LEMMA EndStep ==
    ASSUME PipelineInv, End
    PROVE  PipelineInv'
<1>1. UNCHANGED <<plan, row, paid, onChain, job, dlq, lock, run, retry, lost, overrun,
                  faults, ops>> /\ status' = "ended"
  BY DEF End, rows, queue, history, bounds
<1>2. PayoutTypeOK'
  BY <1>1 DEF PipelineInv, PayoutTypeOK
<1>3. LockInv'
  BY <1>1 DEF PipelineInv, LockInv, Holds, RunsAlone
<1>4. Underway' /\ RecordsHonest'
  BY <1>1 DEF PipelineInv, LedgerInv, Underway, RecordsHonest, SentMeansPaid, SettledMeansSent
<1>5. Alone' /\ InStep' /\ Complete'
  BY <1>1 DEF PipelineInv, LedgerInv, Alone, InStep, Complete, Handled, Busy, At
<1>6. RunsSound'
  BY <1>1, SoundStays DEF PipelineInv, LedgerInv
<1>7. PaymentsSound'
  BY <1>1 DEF PipelineInv, LedgerInv, PaymentsSound, Unrepeated, Shares, Busy, At
<1> QED
  BY <1>2, <1>3, <1>4, <1>5, <1>6, <1>7 DEF PipelineInv, LedgerInv

\* A job that is not there, and the one `add` makes of it, are jobs with attempts left.
LEMMA AbsentJob ==
    /\ Absent \in Job /\ Absent.state = "absent"
    /\ [Absent EXCEPT !.state = "waiting"] \in Job
    /\ [Absent EXCEPT !.state = "waiting"].attempts < MaxAttempts
    /\ [Absent EXCEPT !.state = "waiting"].state = "waiting"
<1>1. (CHOOSE w \in Workers : TRUE) \in Workers
  OBVIOUS
<1>2. 0 \in 0 .. MaxStalls /\ 0 \in 0 .. MaxAttempts /\ 0 < MaxAttempts
  OBVIOUS
<1> DEFINE b == CHOOSE w \in Workers : TRUE
<1>3. Absent = [state |-> "absent", attempts |-> 0, stalls |-> 0, by |-> b]
  BY DEF Absent
<1> HIDE DEF b
<1>4. [Absent EXCEPT !.state = "waiting"]
        = [state |-> "waiting", attempts |-> 0, stalls |-> 0, by |-> b]
  BY <1>3
<1>5. b \in Workers
  BY <1>1 DEF b
<1>6. Absent \in Job /\ Absent.state = "absent"
  BY <1>2, <1>3, <1>5 DEF Job, JobState
<1>7. [state |-> "waiting", attempts |-> 0, stalls |-> 0, by |-> b] \in Job
  BY <1>2, <1>5 DEF Job, JobState
<1> QED
  BY <1>2, <1>4, <1>6, <1>7

\* Failures stay within their bound.
LEMMA FaultBound ==
    ASSUME PayoutTypeOK, Fault \/ UNCHANGED faults
    PROVE  faults' \in 0 .. MaxFaults
BY DEF PayoutTypeOK, Fault

\* Queue.add never disturbs a job that runs.
LEMMA EnqueueStep ==
    ASSUME PipelineInv, Enqueue, UNCHANGED <<lock, run, overrun>>
    PROVE  job' \in Job /\ LockInv'
<1>1. CASE job.state = "absent"
  <2>1. job' = [Absent EXCEPT !.state = "waiting"]
    BY <1>1 DEF Enqueue
  <2>2. ~overrun => \A w \in Workers : run[w] # Idle => run[w].batch /\ lock
    BY <1>1 DEF PipelineInv, LockInv, Holds
  <2>3. ~overrun => \A w \in Workers : run[w] # Idle => Holds(w)'
    BY <2>2 DEF Holds
  <2> QED
    BY <2>1, <2>3, AbsentJob DEF PipelineInv, LockInv, RunsAlone
<1>2. CASE job.state # "absent"
  <2>1. job' = job
    BY <1>2 DEF Enqueue
  <2> QED
    BY <2>1 DEF PipelineInv, PayoutTypeOK, LockInv, Holds, RunsAlone
<1> QED
  BY <1>1, <1>2

\* The admin route that settles a challenge.
LEMMA AdminSettleStep ==
    ASSUME PipelineInv, AdminSettle
    PROVE  PipelineInv'
<1>1. UNCHANGED <<plan, status, row, paid, onChain, dlq, lock, run, retry, lost, overrun, faults>>
  BY DEF AdminSettle, rows, history
<1>2. job' \in Job /\ LockInv'
  BY <1>1, EnqueueStep DEF AdminSettle
<1>3. ops' \in 0 .. MaxOps
  BY DEF AdminSettle, PipelineInv, PayoutTypeOK
<1>4. PayoutTypeOK'
  BY <1>1, <1>2, <1>3 DEF PipelineInv, PayoutTypeOK
<1> QED
  BY <1>1, <1>2, <1>4, LedgerStays DEF PipelineInv

\* The admin's retry route reads the row.
LEMMA RetryReadStep ==
    ASSUME PipelineInv, NEW u \in Winners, RetryRead(u)
    PROVE  PipelineInv'
<1>1. UNCHANGED <<plan, status, row, paid, onChain, job, dlq, lock, run, lost, overrun, faults, ops>>
  BY DEF RetryRead, rows, queue, history, bounds
<1>2. PayoutTypeOK'
  BY <1>1 DEF RetryRead, PipelineInv, PayoutTypeOK
<1>3. Follows
  BY <1>1 DEF Follows
<1> QED
  BY <1>1, <1>2, <1>3, LedgerStays, LocksStay DEF PipelineInv

\* The UPDATE of a retried row that was paid meanwhile is what makes it lost.
LEMMA RetryWriteStep ==
    ASSUME PipelineInv, NEW u \in Winners, RetryWrite(u)
    PROVE  PipelineInv'
<1>1. UNCHANGED <<plan, status, paid, onChain, job, dlq, lock, run, overrun, faults, ops>>
  BY DEF RetryWrite, queue, bounds
<1>2. PayoutTypeOK'
  BY <1>1 DEF RetryWrite, PipelineInv, PayoutTypeOK
<1>3. Follows
  BY <1>1 DEF Follows
<1>4. /\ lost \subseteq lost' /\ lost' \subseteq Winners
      /\ \A v \in Winners : row'[v] = "sent" => row[v] = "sent"
      /\ \A v \in Winners : row[v] = "sent" => row'[v] = "sent" \/ v \in lost'
  BY DEF RetryWrite, PipelineInv, PayoutTypeOK
<1> QED
  BY <1>1, <1>2, <1>3, <1>4, RowStep, LocksStay DEF PipelineInv

\* It adds the job.
LEMMA RetryEnqueueStep ==
    ASSUME PipelineInv, NEW u \in Winners, RetryEnqueue(u)
    PROVE  PipelineInv'
<1>1. UNCHANGED <<plan, status, row, paid, onChain, dlq, lock, run, lost, overrun, faults, ops>>
  BY DEF RetryEnqueue, rows, history, bounds
<1>2. job' \in Job /\ LockInv'
  BY <1>1, EnqueueStep DEF RetryEnqueue
<1>3. PayoutTypeOK'
  BY <1>1, <1>2 DEF RetryEnqueue, PipelineInv, PayoutTypeOK
<1> QED
  BY <1>1, <1>2, <1>3, LedgerStays DEF PipelineInv

\* An attempt that fails makes the job wait for another or fail, never run on.
LEMMA AttemptFailsEffect ==
    ASSUME PayoutTypeOK, LockInv, job.state = "active", NEW retriable \in BOOLEAN,
           AttemptFails(retriable)
    PROVE  /\ job' \in Job /\ dlq' \in {"none", "due", "waiting", "lost"}
           /\ job'.state \in {"waiting", "failed"} /\ job'.by = job.by
           /\ job'.state \in {"waiting", "active"} => job'.attempts < MaxAttempts
<1>1. job \in Job /\ job.attempts \in 0 .. MaxAttempts /\ job.attempts < MaxAttempts
  BY DEF PayoutTypeOK, Job, LockInv
<1>2. job.attempts + 1 \in 0 .. MaxAttempts
  BY <1>1
<1>3. dlq' \in {"none", "due", "waiting", "lost"}
  BY DEF AttemptFails, ForwardToDlq, PayoutTypeOK
<1>4. /\ job' \in Job /\ job'.state \in {"waiting", "failed"} /\ job'.by = job.by
      /\ job'.attempts = job.attempts + 1
  BY <1>1, <1>2 DEF AttemptFails, Job, JobState
<1>5. job'.state = "waiting" => job.attempts + 1 < MaxAttempts
  BY <1>1 DEF AttemptFails, Job
<1> QED
  BY <1>3, <1>4, <1>5

\* A stalled job leaves the slot that runs it without a job: an overrun.
LEMMA StallStep ==
    ASSUME PipelineInv, Stall
    PROVE  PipelineInv'
<1>1. UNCHANGED <<plan, status, row, paid, onChain, lock, run, retry, lost, ops>>
  BY DEF Stall, rows
<1>2. /\ job' \in Job /\ dlq' \in {"none", "due", "waiting", "lost"}
      /\ job'.state \in {"waiting", "active"} => job'.attempts < MaxAttempts
  <2>1. CASE job.stalls < MaxStalls /\ job' = [job EXCEPT !.state = "waiting", !.stalls = @ + 1]
             /\ UNCHANGED dlq
    <3>1. job \in Job /\ job.stalls \in Nat /\ job.stalls + 1 \in 0 .. MaxStalls
      BY <2>1 DEF PipelineInv, PayoutTypeOK, Job
    <3>2. job' \in Job /\ job'.attempts = job.attempts
      BY <2>1, <3>1 DEF Job, JobState
    <3>3. job.attempts < MaxAttempts
      BY DEF Stall, PipelineInv, LockInv
    <3> QED
      BY <2>1, <3>2, <3>3 DEF PipelineInv, PayoutTypeOK
  <2>2. CASE AttemptFails(FALSE)
    BY <2>2, AttemptFailsEffect DEF Stall, PipelineInv
  <2> QED
    BY <2>1, <2>2 DEF Stall
<1>3. overrun' \in BOOLEAN /\ faults' \in 0 .. MaxFaults
  <2>1. (Fault /\ overrun' = TRUE) \/ UNCHANGED <<faults, overrun>>
    BY DEF Stall
  <2>2. faults' \in 0 .. MaxFaults
    BY <2>1, FaultBound DEF PipelineInv
  <2> QED
    BY <2>1, <2>2 DEF PipelineInv, PayoutTypeOK
<1>4. PayoutTypeOK'
  BY <1>1, <1>2, <1>3 DEF PipelineInv, PayoutTypeOK
<1>5. ~overrun' => ~overrun /\ ~(run[job.by] # Idle /\ ~run[job.by].batch)
  BY DEF Stall
<1>6. ~overrun' => \A w \in Workers : run[w] # Idle => run[w].batch /\ lock
  <2> SUFFICES ASSUME ~overrun', NEW w \in Workers, run[w] # Idle
               PROVE  run[w].batch /\ lock
    OBVIOUS
  <2>1. Holds(w)
    BY <1>5 DEF PipelineInv, LockInv
  <2>2. run[w] \in Run /\ run[w].batch \in BOOLEAN
    BY RunType DEF PipelineInv, Run
  <2> QED
    BY <1>5, <2>1, <2>2 DEF Holds
<1>7. LockInv'
  BY <1>1, <1>2, <1>5, <1>6 DEF PipelineInv, LockInv, Holds, RunsAlone
<1> QED
  BY <1>1, <1>4, <1>7, LedgerStays DEF PipelineInv

\* The batch lock expires under a run.
LEMMA LockExpiresStep ==
    ASSUME PipelineInv, LockExpires
    PROVE  PipelineInv'
<1>1. UNCHANGED <<plan, status, row, paid, onChain, job, dlq, run, retry, lost, ops>>
  BY DEF LockExpires, rows, queue
<1>2. overrun' \in BOOLEAN /\ faults' \in 0 .. MaxFaults /\ lock' = FALSE
  <2>1. (Fault /\ overrun' = TRUE) \/ UNCHANGED <<faults, overrun>>
    BY DEF LockExpires
  <2>2. faults' \in 0 .. MaxFaults
    BY <2>1, FaultBound DEF PipelineInv
  <2> QED
    BY <2>1, <2>2 DEF LockExpires, PipelineInv, PayoutTypeOK
<1>3. PayoutTypeOK'
  BY <1>1, <1>2 DEF PipelineInv, PayoutTypeOK
<1>4. ~overrun' => ~overrun /\ \A w \in Workers : ~(run[w] # Idle /\ run[w].batch)
  BY DEF LockExpires
<1>5. LockInv'
  BY <1>1, <1>4 DEF PipelineInv, LockInv, Holds, RunsAlone
<1> QED
  BY <1>1, <1>3, <1>5, LedgerStays DEF PipelineInv

\* BullMQ trims a finished job.
LEMMA TrimStep ==
    ASSUME PipelineInv, Trim
    PROVE  PipelineInv'
<1>1. UNCHANGED <<plan, status, row, paid, onChain, dlq, lock, run, retry, lost, overrun,
                  faults, ops>> /\ job' = Absent
  BY DEF Trim, rows, history, bounds
<1>2. PayoutTypeOK'
  BY <1>1, AbsentJob DEF PipelineInv, PayoutTypeOK
<1>3. ~overrun => \A w \in Workers : run[w] # Idle => run[w].batch /\ lock
  BY DEF Trim, PipelineInv, LockInv, Holds
<1>4. ~overrun => \A w \in Workers : run[w] # Idle => Holds(w)'
  BY <1>1, <1>3 DEF Holds
<1>5. LockInv'
  BY <1>1, <1>4, AbsentJob DEF PipelineInv, LockInv, RunsAlone
<1> QED
  BY <1>1, <1>2, <1>5, LedgerStays DEF PipelineInv

\* The failed job is forwarded to the dead-letter queue.
LEMMA DeadLetterStep ==
    ASSUME PipelineInv, DlqFails \/ Forward
    PROVE  PipelineInv'
<1>1. UNCHANGED <<plan, status, row, paid, onChain, job, lock, run, retry, lost, overrun, faults, ops>>
      /\ dlq' \in {"lost", "waiting"}
  BY DEF DlqFails, Forward, rows, history, bounds
<1>2. PayoutTypeOK'
  BY <1>1 DEF PipelineInv, PayoutTypeOK
<1>3. Follows
  BY <1>1 DEF Follows
<1> QED
  BY <1>1, <1>2, <1>3, LedgerStays, LocksStay DEF PipelineInv

\* The dead-letter worker reconciles the rows.
LEMMA ReconcileStep ==
    ASSUME PipelineInv, Reconcile
    PROVE  PipelineInv'
<1>1. UNCHANGED <<plan, status, paid, onChain, job, lock, run, retry, lost, overrun, faults, ops>>
  BY DEF Reconcile, history, bounds
<1>2. PayoutTypeOK'
  BY <1>1 DEF Reconcile, PipelineInv, PayoutTypeOK
<1>3. Follows
  BY <1>1 DEF Follows
<1>4. \A u \in Winners : row'[u] = "sent" <=> row[u] = "sent"
  BY DEF Reconcile, Stranded, PipelineInv, PayoutTypeOK
<1>5. lost \subseteq lost' /\ lost' \subseteq Winners
  BY <1>1 DEF PipelineInv, PayoutTypeOK
<1> QED
  BY <1>1, <1>2, <1>3, <1>4, <1>5, RowStep, LocksStay DEF PipelineInv

-------------------------------------------------------------------------------
(* A run starts and ends *)

\* A new run starts with nothing taken up, paid or noted.
LEMMA BeginEffect ==
    ASSUME PayoutTypeOK, NEW w \in Workers, NEW label \in {"list", "check"},
           NEW b \in BOOLEAN, Begin(w, label, b), label = "list" => b
    PROVE  /\ run' \in [Workers -> Run \cup {Idle}] /\ Moves(w)
           /\ run'[w] # Idle /\ run'[w].batch = b /\ ~Busy(w)'
           /\ RunSound(w)' /\ LoopSound(w)'
<1> DEFINE r == [at |-> label, batch |-> b, next |-> 1, recs |-> {}, ok |-> {},
                 mine |-> {}, noted |-> {}]
<1>1. r \in Run
  BY Ranked DEF Run, Labels
<1>2. /\ r.at = label /\ r.batch = b /\ r.next = 1 /\ r.recs = {} /\ r.ok = {}
      /\ r.mine = {} /\ r.noted = {}
  OBVIOUS
<1>3. run' = [run EXCEPT ![w] = r]
  BY DEF Begin
<1> HIDE DEF r
<1>4. run' \in [Workers -> Run \cup {Idle}] /\ run'[w] = r /\ Moves(w)
  BY <1>1, <1>3 DEF PayoutTypeOK, Moves
<1>5. run'[w] # Idle /\ ~Busy(w)'
  BY <1>2, <1>4 DEF Idle, Busy, At, PastCheck
<1>6. RunSound(w)' /\ LoopSound(w)'
  BY <1>2, <1>4 DEF RunSound, LoopSound
<1> QED
  BY <1>2, <1>4, <1>5, <1>6

\* A slot takes the waiting job.
LEMMA StartJobStep ==
    ASSUME PipelineInv, NEW w \in Workers, StartJob(w)
    PROVE  PipelineInv'
<1>1. UNCHANGED <<plan, status, row, paid, onChain, dlq, lock, retry, lost, overrun, faults, ops>>
  BY DEF StartJob, rows, history, bounds
<1>2. /\ run' \in [Workers -> Run \cup {Idle}] /\ Moves(w)
      /\ run'[w] # Idle /\ run'[w].batch = FALSE /\ ~Busy(w)'
      /\ RunSound(w)' /\ LoopSound(w)'
  BY BeginEffect DEF StartJob, PipelineInv
<1>3. /\ job' \in Job /\ job'.state = "active" /\ job'.by = w
      /\ job'.attempts = job.attempts /\ job.attempts < MaxAttempts
  BY DEF StartJob, PipelineInv, PayoutTypeOK, Job, JobState, LockInv
<1>4. PayoutTypeOK'
  BY <1>1, <1>2, <1>3 DEF PipelineInv, PayoutTypeOK
<1>5. ~Busy(w)
  BY DEF StartJob, Busy, At, Idle, PastCheck
<1>6. LedgerInv'
  BY <1>1, <1>2, <1>5, QuietStep DEF PipelineInv, PayoutTypeOK
<1>7. ~overrun => \A v \in Workers \ {w} : run'[v] # Idle => run'[v].batch /\ lock
  <2>1. ~overrun => \A v \in Workers : run[v] # Idle => run[v].batch /\ lock
    BY DEF StartJob, PipelineInv, LockInv, Holds
  <2> QED
    BY <1>2, <2>1 DEF Moves
<1>8. ~overrun => \A v \in Workers : run'[v] # Idle => Holds(v)'
  BY <1>1, <1>2, <1>3, <1>7 DEF Holds
<1>9. RunsAlone'
  <2> SUFFICES ASSUME NEW v \in Workers, NEW x \in Workers, v # x, ~overrun,
                      run'[v] # Idle, run'[x] # Idle
               PROVE  run'[v].batch # run'[x].batch
    BY <1>1 DEF RunsAlone
  <2>1. CASE v = w
    BY <1>2, <1>7, <2>1
  <2>2. CASE x = w
    BY <1>2, <1>7, <2>2
  <2>3. CASE v # w /\ x # w
    BY <1>2, <2>3 DEF PipelineInv, LockInv, RunsAlone, Moves
  <2> QED
    BY <2>1, <2>2, <2>3
<1> QED
  BY <1>1, <1>3, <1>4, <1>6, <1>8, <1>9 DEF PipelineInv, LockInv

\* The daily run takes the batch lock.
LEMMA StartBatchStep ==
    ASSUME PipelineInv, NEW w \in Workers, StartBatch(w)
    PROVE  PipelineInv'
<1>1. UNCHANGED <<plan, status, row, paid, onChain, job, dlq, retry, lost, overrun, faults>>
      /\ lock' = TRUE
  BY DEF StartBatch, rows, queue, history
<1>2. /\ run' \in [Workers -> Run \cup {Idle}] /\ Moves(w)
      /\ run'[w] # Idle /\ run'[w].batch = TRUE /\ ~Busy(w)'
      /\ RunSound(w)' /\ LoopSound(w)'
  BY BeginEffect DEF StartBatch, PipelineInv
<1>3. ops' \in 0 .. MaxOps
  BY DEF StartBatch, PipelineInv, PayoutTypeOK
<1>4. PayoutTypeOK'
  BY <1>1, <1>2, <1>3 DEF PipelineInv, PayoutTypeOK
<1>5. ~Busy(w)
  BY DEF StartBatch, Busy, At, Idle, PastCheck
<1>6. LedgerInv'
  BY <1>1, <1>2, <1>5, QuietStep DEF PipelineInv, PayoutTypeOK
<1>7. ~overrun => \A v \in Workers \ {w} : run'[v] # Idle =>
          ~run'[v].batch /\ job.state = "active" /\ job.by = v
  <2>1. ~overrun => \A v \in Workers : run[v] # Idle =>
            ~run[v].batch /\ job.state = "active" /\ job.by = v
    BY DEF StartBatch, PipelineInv, LockInv, Holds
  <2> QED
    BY <1>2, <2>1 DEF Moves
<1>8. ~overrun => \A v \in Workers : run'[v] # Idle => Holds(v)'
  BY <1>1, <1>2, <1>7 DEF Holds
<1>9. RunsAlone'
  <2> SUFFICES ASSUME NEW v \in Workers, NEW x \in Workers, v # x, ~overrun,
                      run'[v] # Idle, run'[x] # Idle
               PROVE  run'[v].batch # run'[x].batch
    BY <1>1 DEF RunsAlone
  <2>1. CASE v = w
    BY <1>2, <1>7, <2>1
  <2>2. CASE x = w
    BY <1>2, <1>7, <2>2
  <2>3. CASE v # w /\ x # w
    BY <1>2, <2>3 DEF PipelineInv, LockInv, RunsAlone, Moves
  <2> QED
    BY <2>1, <2>2, <2>3
<1> QED
  BY <1>1, <1>4, <1>6, <1>8, <1>9 DEF PipelineInv, LockInv

\* Outside the payment a run may be sent on to the end.
LEMMA GotoSound ==
    ASSUME PayoutTypeOK, RunsSound, NEW w \in Workers, At(w) \in Labels,
           NEW label \in {"check", "end", "unlock"}, Goto(w, label),
           label = "check" => At(w) = "list", label = "unlock" => run[w].batch
    PROVE  /\ run' \in [Workers -> Run \cup {Idle}] /\ Moves(w) /\ Follows
           /\ ~Busy(w)' /\ RunSound(w)' /\ LoopSound(w)'
<1>1. /\ run' \in [Workers -> Run \cup {Idle}] /\ Moves(w) /\ Follows
      /\ run'[w] = [run[w] EXCEPT !.at = label] /\ At(w)' = label
  BY GotoEffect DEF Labels
<1>2. run[w] \in Run /\ RunSound(w)
  BY RunType DEF RunsSound
<1>3. /\ run'[w].at = label /\ run'[w].next = run[w].next /\ run'[w].recs = run[w].recs
      /\ run'[w].batch = run[w].batch
      /\ run'[w].ok = run[w].ok /\ run'[w].mine = run[w].mine /\ run'[w].noted = run[w].noted
  BY <1>1, <1>2 DEF Run
<1>4. ~Busy(w)' /\ LoopSound(w)'
  BY <1>1, <1>3 DEF Busy, PastCheck, LoopSound
<1>5. RunSound(w)'
  BY <1>2, <1>3 DEF RunSound, At
<1> QED
  BY <1>1, <1>4, <1>5

\* The daily run finds the challenge, or has nothing to do.
LEMMA ListStep ==
    ASSUME PipelineInv, NEW w \in Workers, List(w)
    PROVE  PipelineInv'
<1>1. UNCHANGED <<plan, status, row, paid, onChain, job, dlq, lock, retry, lost, overrun, faults, ops>>
  BY DEF List, rows, queue, history, bounds
<1>2. PICK label \in {"check", "unlock"} : Goto(w, label)
  BY DEF List
<1>3. At(w) = "list" /\ At(w) \in Labels /\ ~Busy(w)
  BY DEF List, Labels, Busy, PastCheck
<1>4. /\ run' \in [Workers -> Run \cup {Idle}] /\ Moves(w) /\ Follows
      /\ ~Busy(w)' /\ RunSound(w)' /\ LoopSound(w)'
  <2>1. run[w].batch
    BY <1>3, RunType DEF PipelineInv, LedgerInv, RunsSound, RunSound, At
  <2> QED
    BY <1>2, <1>3, <2>1, GotoSound DEF PipelineInv, LedgerInv
<1>5. PayoutTypeOK'
  BY <1>1, <1>4 DEF PipelineInv, PayoutTypeOK
<1>6. LedgerInv'
  BY <1>1, <1>3, <1>4, QuietStep DEF PipelineInv, PayoutTypeOK
<1> QED
  BY <1>1, <1>4, <1>5, <1>6, LocksStay DEF PipelineInv

\* The daily run releases the lock.
LEMMA UnlockStep ==
    ASSUME PipelineInv, NEW w \in Workers, Unlock(w)
    PROVE  PipelineInv'
<1>1. UNCHANGED <<plan, status, row, paid, onChain, job, dlq, retry, lost, overrun, faults, ops>>
      /\ lock' = FALSE
  BY DEF Unlock, rows, queue, history, bounds
<1>2. At(w) = "unlock" /\ ~Busy(w) /\ run[w] # Idle
  BY RunType DEF Unlock, Busy, PastCheck, Labels, PipelineInv
<1>3. /\ run' \in [Workers -> Run \cup {Idle}] /\ Moves(w) /\ Follows
      /\ run'[w] = Idle /\ ~Busy(w)'
  BY IdleEffect DEF Unlock, PipelineInv
<1>4. PayoutTypeOK'
  BY <1>1, <1>3 DEF PipelineInv, PayoutTypeOK
<1>5. LedgerInv'
  BY <1>1, <1>2, <1>3, QuietStep DEF PipelineInv, PayoutTypeOK
<1>6. run[w].batch
  BY <1>2 DEF PipelineInv, LedgerInv, RunsSound, RunSound, At
<1>7. ~overrun => \A v \in Workers : run'[v] # Idle => run[v] # Idle /\ run'[v] = run[v] /\ ~run[v].batch
  BY <1>2, <1>3, <1>6 DEF PipelineInv, LockInv, RunsAlone, Moves
<1>8. ~overrun => \A v \in Workers : run'[v] # Idle => Holds(v)'
  BY <1>1, <1>7 DEF PipelineInv, LockInv, Holds
<1>9. LockInv'
  BY <1>1, <1>3, <1>8 DEF PipelineInv, LockInv, RunsAlone, Follows
<1> QED
  BY <1>4, <1>5, <1>9 DEF PipelineInv

\* A run ends.
LEMMA FinishStep ==
    ASSUME PipelineInv, NEW w \in Workers, Finish(w)
    PROVE  PipelineInv'
<1>1. UNCHANGED <<plan, status, row, paid, onChain, dlq, lock, retry, lost, overrun, faults, ops>>
  BY DEF Finish, rows, history, bounds
<1>2. At(w) = "end" /\ ~Busy(w) /\ run[w] # Idle /\ At(w) \in Labels
  BY RunType DEF Finish, Busy, PastCheck, Labels, PipelineInv
<1>3. CASE run[w].batch /\ Goto(w, "unlock") /\ UNCHANGED job
  <2>1. /\ run' \in [Workers -> Run \cup {Idle}] /\ Moves(w) /\ Follows
        /\ ~Busy(w)' /\ RunSound(w)' /\ LoopSound(w)'
    BY <1>2, <1>3, GotoSound DEF PipelineInv, LedgerInv
  <2>2. PayoutTypeOK'
    BY <1>1, <1>3, <2>1 DEF PipelineInv, PayoutTypeOK
  <2>3. LedgerInv'
    BY <1>1, <1>2, <2>1, QuietStep DEF PipelineInv, PayoutTypeOK
  <2> QED
    BY <1>1, <1>3, <2>1, <2>2, <2>3, LocksStay DEF PipelineInv
<1>4. CASE run' = [run EXCEPT ![w] = Idle]
  <2>1. /\ run' \in [Workers -> Run \cup {Idle}] /\ Moves(w) /\ Follows
        /\ run'[w] = Idle /\ ~Busy(w)'
    BY <1>4, IdleEffect DEF PipelineInv
  <2>2. LedgerInv'
    BY <1>1, <1>2, <2>1, QuietStep DEF PipelineInv, PayoutTypeOK
  <2>3. CASE Owns(w) /\ job' = [job EXCEPT !.state = "completed"]
    <3>1. job' \in Job /\ job'.state = "completed"
      BY <2>3 DEF PipelineInv, PayoutTypeOK, Job, JobState
    <3>2. PayoutTypeOK'
      BY <1>1, <2>1, <3>1 DEF PipelineInv, PayoutTypeOK
    <3>3. ~overrun => \A v \in Workers : run'[v] # Idle => run'[v].batch /\ lock
      BY <2>1, <2>3 DEF PipelineInv, LockInv, Holds, Owns, Moves
    <3>4. ~overrun => \A v \in Workers : run'[v] # Idle => Holds(v)'
      BY <1>1, <3>3 DEF Holds
    <3>5. LockInv'
      BY <1>1, <2>1, <3>1, <3>4 DEF PipelineInv, LockInv, RunsAlone, Follows
    <3> QED
      BY <2>2, <3>2, <3>5 DEF PipelineInv
  <2>4. CASE UNCHANGED job
    <3>1. PayoutTypeOK'
      BY <1>1, <2>1, <2>4 DEF PipelineInv, PayoutTypeOK
    <3> QED
      BY <1>1, <2>1, <2>2, <2>4, <3>1, LocksStay DEF PipelineInv
  <2> QED
    BY <1>3, <2>3, <2>4 DEF Finish
<1> QED
  BY <1>3, <1>4 DEF Finish

\* Two runs past the check: from here on nothing is promised.
LEMMA CheckStep ==
    ASSUME PipelineInv, NEW w \in Workers, Check(w)
    PROVE  PipelineInv'
<1>1. UNCHANGED <<plan, status, row, paid, onChain, job, dlq, lock, retry, overrun, faults, ops>>
  BY DEF Check, rows, queue, bounds
<1>2. At(w) = "check" /\ At(w) \in Labels /\ ~Busy(w) /\ run[w] # Idle
  BY RunType DEF Check, Labels, Busy, PastCheck, PipelineInv
<1>3. lost \subseteq lost' /\ lost' \subseteq Winners
  BY DEF Check, PipelineInv, PayoutTypeOK
<1>4. CASE status # "ended"
  <2>1. Goto(w, "end")
    BY <1>4 DEF Check
  <2>2. /\ run' \in [Workers -> Run \cup {Idle}] /\ Moves(w) /\ Follows
        /\ ~Busy(w)' /\ RunSound(w)' /\ LoopSound(w)'
    BY <1>2, <2>1, GotoSound DEF PipelineInv, LedgerInv
  <2>3. PayoutTypeOK'
    BY <1>1, <1>3, <2>2 DEF PipelineInv, PayoutTypeOK
  <2>4. LedgerInv'
    BY <1>1, <1>2, <1>3, <2>2, QuietStep DEF PipelineInv
  <2> QED
    BY <1>1, <2>2, <2>3, <2>4, LocksStay DEF PipelineInv
<1>5. CASE status = "ended"
  <2>1. Goto(w, "create")
    BY <1>5 DEF Check
  <2>2. /\ run' \in [Workers -> Run \cup {Idle}] /\ Moves(w) /\ Follows
        /\ run'[w] = [run[w] EXCEPT !.at = "create"] /\ At(w)' = "create"
    BY <1>2, <2>1, GotoEffect DEF PipelineInv, Labels
  <2>3. run[w] \in Run /\ RunSound(w) /\ run[w].at = "check"
    BY <1>2, RunType DEF PipelineInv, LedgerInv, RunsSound, At
  <2>4. /\ run'[w].at = "create" /\ run'[w].next = 1 /\ run'[w].recs = {} /\ run'[w].ok = {}
        /\ run'[w].mine = {} /\ run'[w].noted = {}
    BY <2>2, <2>3 DEF Run, RunSound
  <2>5. \A v \in Workers \ {w} : run'[v] = run[v] /\ (Busy(v)' <=> Busy(v))
                                /\ (Busy(v) => lost' = Winners)
    BY <1>5, <2>2 DEF Moves, Busy, At, Check
  <2>6. PayoutTypeOK'
    BY <1>1, <1>3, <2>2 DEF PipelineInv, PayoutTypeOK
  <2>7. RunsSound'
    <3>1. RunSound(w)' /\ LoopSound(w)'
      BY <2>4 DEF RunSound, LoopSound
    <3>2. paid \in [Winners -> Nat] /\ paid' = paid /\ \A u \in Winners : paid'[u] >= paid[u]
      BY <1>1 DEF PipelineInv, PayoutTypeOK
    <3> QED
      BY <1>1, <1>3, <2>2, <3>1, <3>2, SoundStep DEF PipelineInv, LedgerInv
  <2>8. Alone' /\ Underway'
    BY <1>1, <1>5, <2>5 DEF Alone, Underway
  <2>9. InStep'
    BY <1>1, <1>3, <2>4, <2>5 DEF PipelineInv, LedgerInv, InStep
  <2>10. PaymentsSound'
    <3> SUFFICES ASSUME NEW u \in Winners, u \notin lost', ~Shares(u)'
                 PROVE  Unrepeated(u)'
      BY DEF PaymentsSound
    <3>1. Unrepeated(u)
      BY <1>1, <1>3 DEF Shares, PipelineInv, LedgerInv, PaymentsSound
    <3>2. \A v \in Workers : ~Busy(v)
      BY <1>2, <2>5
    <3> QED
      BY <1>1, <2>4, <2>5, <3>1, <3>2 DEF Unrepeated
  <2>11. Complete'
    <3> SUFFICES ASSUME lost' = {}, NEW v \in Workers, Busy(v)', NEW i \in 1 .. Len(Rank),
                        At(v)' # "create" \/ i < run'[v].next
                 PROVE  FALSE
      BY DEF Complete
    <3>1. v # w
      BY <2>4, Ranked DEF At
    <3> QED
      BY <2>5, <3>1, Ranked
  <2>12. RecordsHonest'
    BY <1>1, <1>3 DEF PipelineInv, LedgerInv, RecordsHonest, SentMeansPaid, SettledMeansSent
  <2> QED
    BY <1>1, <2>2, <2>6, <2>7, <2>8, <2>9, <2>10, <2>11, <2>12, LocksStay DEF PipelineInv, LedgerInv
<1> QED
  BY <1>4, <1>5

-------------------------------------------------------------------------------
(* Past the check *)

\* What the invariant says of the run past the status check.
LEMMA BusyFacts ==
    ASSUME PipelineInv, NEW w \in Workers, Busy(w)
    PROVE  /\ run[w] \in Run /\ run[w] # Idle /\ At(w) \in Labels
           /\ RunSound(w) /\ LoopSound(w) /\ run[w].recs \subseteq Winners
           /\ \A u \in run[w].recs \ lost : row[u] = "sent" <=> u \in run[w].noted
           /\ \A u \in Winners : u \notin lost /\ ~Shares(u) =>
                 /\ paid[u] <= 1
                 /\ paid[u] = 1 => row[u] = "sent" \/ u \in run[w].mine
                 /\ u \in run[w].recs \ run[w].mine => paid[u] = 0
           /\ lost = {} => \A i \in 1 .. Len(Rank) :
                 At(w) # "create" \/ i < run[w].next => Handled(w, Rank[i])
<1>1. run[w] \in Run /\ run[w] # Idle /\ At(w) \in Labels /\ run[w].recs \subseteq Winners
  BY RunType DEF PipelineInv, Run
<1>2. RunSound(w) /\ LoopSound(w)
  BY <1>1 DEF PipelineInv, LedgerInv, RunsSound
<1>3. \A u \in run[w].recs \ lost : row[u] = "sent" <=> u \in run[w].noted
  BY DEF PipelineInv, LedgerInv, InStep
<1>4. ASSUME NEW u \in Winners, u \notin lost, ~Shares(u)
      PROVE  /\ paid[u] <= 1
             /\ paid[u] = 1 => row[u] = "sent" \/ u \in run[w].mine
             /\ u \in run[w].recs \ run[w].mine => paid[u] = 0
  <2>1. Unrepeated(u)
    BY <1>4 DEF PipelineInv, LedgerInv, PaymentsSound
  <2>2. \A v \in Workers \ {w} : ~Busy(v)
    BY <1>4 DEF PipelineInv, LedgerInv, Alone
  <2> QED
    BY <2>1, <2>2 DEF Unrepeated
<1>5. lost = {} => \A i \in 1 .. Len(Rank) :
          At(w) # "create" \/ i < run[w].next => Handled(w, Rank[i])
  BY DEF PipelineInv, LedgerInv, Complete
<1> QED
  BY <1>1, <1>2, <1>3, <1>4, <1>5

\* The tables stay honest if every new 'sent' is of an address that was paid, and
\* whoever settles the challenge has seen to everybody.
LEMMA HonestStep ==
    ASSUME PipelineInv, NEW w \in Workers, Busy(w), plan' = plan, lost \subseteq lost',
           paid' \in [Winners -> Nat], \A u \in Winners : paid'[u] >= paid[u],
           \A u \in Winners : row'[u] = "sent" =>
               \/ row[u] = "sent" \/ plan.escrow
               \/ \E v \in Winners : plan.address[v] = plan.address[u] /\ paid'[v] > 0,
           \/ status' = status \/ status' = "payout_failed"
           \/ lost' = {} => \A u \in Winners \ plan.blocked : \E v \in Winners :
                                plan.address[v] = plan.address[u] /\ row'[v] = "sent"
    PROVE  RecordsHonest'
<1>1. SentMeansPaid'
  <2> SUFFICES ASSUME NEW u \in Winners, row'[u] = "sent", ~plan.escrow
               PROVE  \E v \in Winners : plan.address[v] = plan.address[u] /\ paid'[v] > 0
    BY DEF SentMeansPaid
  <2>1. CASE row[u] = "sent"
    <3>1. PICK v \in Winners : plan.address[v] = plan.address[u] /\ paid[v] > 0
      BY <2>1 DEF PipelineInv, LedgerInv, RecordsHonest, SentMeansPaid
    <3>2. paid[v] \in Nat /\ paid'[v] \in Nat /\ paid'[v] >= paid[v]
      BY DEF PipelineInv, PayoutTypeOK
    <3> QED
      BY <3>1, <3>2
  <2> QED
    BY <2>1
<1>2. SettledMeansSent'
  <2>1. status = "ended" \/ lost = Winners
    BY DEF PipelineInv, LedgerInv, Underway
  <2> QED
    BY <2>1 DEF SettledMeansSent
<1> QED
  BY <1>1, <1>2 DEF RecordsHonest

\* A step that rewrites the record of its own run moves that run only.
LEMMA RunEffect ==
    ASSUME PayoutTypeOK, NEW w \in Workers, run[w] \in Run, NEW r \in Run,
           run' = [run EXCEPT ![w] = r], r.batch = run[w].batch
    PROVE  /\ run' \in [Workers -> Run \cup {Idle}] /\ Moves(w) /\ Follows
           /\ run'[w] = r /\ At(w)' = r.at
<1>1. run' \in [Workers -> Run \cup {Idle}] /\ run'[w] = r /\ Moves(w)
  BY DEF PayoutTypeOK, Moves
<1>2. run[w] # Idle
  BY RunType
<1> QED
  BY <1>1, <1>2 DEF Follows, Moves, At

\* The loop over the allocations takes up one winner.
LEMMA CreateStep ==
    ASSUME PipelineInv, NEW w \in Workers, Create(w)
    PROVE  PipelineInv'
<1> DEFINE u == Rank[run[w].next]
           recs == IF u \in plan.blocked \/ row'[u] = "sent" THEN run[w].recs
                                                          ELSE run[w].recs \cup {u}
           r == [run[w] EXCEPT !.next = run[w].next + 1, !.recs = recs]
<1>1. UNCHANGED <<plan, status, paid, onChain, job, dlq, lock, retry, lost, overrun, faults, ops>>
  BY DEF Create, queue, history, bounds
<1>2. At(w) = "create" /\ run[w].at = "create" /\ Busy(w)
  BY DEF Create, Busy, PastCheck, At
<1>3. run[w] \in Run /\ RunSound(w) /\ run[w].recs \subseteq Winners
  BY <1>2, BusyFacts
<1>4. run[w].next \in 1 .. Len(Rank) /\ run[w].next + 1 \in 1 .. Len(Rank) + 1 /\ u \in Winners
  BY <1>3, Ranked DEF Create, Run
<1>5. recs \subseteq Winners
  BY <1>3, <1>4
<1>6. run' = [run EXCEPT ![w] = r]
  BY <1>3 DEF Create, PipelineInv, PayoutTypeOK
<1> HIDE DEF recs
<1>7. /\ r \in Run /\ r.at = "create" /\ r.batch = run[w].batch /\ r.next = run[w].next + 1
      /\ r.recs = recs /\ r.ok = run[w].ok /\ r.mine = run[w].mine /\ r.noted = run[w].noted
  BY <1>2, <1>3, <1>4, <1>5 DEF Run
<1> HIDE DEF r
<1>8. /\ run' \in [Workers -> Run \cup {Idle}] /\ Moves(w) /\ Follows
      /\ run'[w] = r /\ At(w)' = r.at
  BY <1>3, <1>6, <1>7, RunEffect DEF PipelineInv
<1>9. /\ row' \in [Winners -> {"none", "pending", "sent", "failed"}]
      /\ \A x \in Winners : row'[x] = "sent" <=> row[x] = "sent"
      /\ recs = run[w].recs \/ (recs = run[w].recs \cup {u} /\ row[u] # "sent")
      /\ u \in recs \/ u \in plan.blocked \/ row'[u] = "sent"
  BY <1>4 DEF Create, Upsert, PipelineInv, PayoutTypeOK, recs
<1>10. PayoutTypeOK'
  BY <1>1, <1>8, <1>9 DEF PipelineInv, PayoutTypeOK
<1>11. run[w].mine = {} /\ run[w].noted = {} /\ run[w].ok \subseteq run[w].recs
  BY <1>2, <1>3 DEF RunSound
<1>12. RunSound(w)' /\ LoopSound(w)'
  BY <1>7, <1>8, <1>9, <1>11 DEF RunSound, LoopSound
<1>13. paid' \in [Winners -> Nat] /\ \A x \in Winners : paid'[x] >= paid[x]
  BY <1>1 DEF PipelineInv, PayoutTypeOK
<1>14. \A x \in recs \ lost : row'[x] = "sent" <=> x \in r.noted
  BY SMTT(30), <1>2, <1>3, <1>4, <1>7, <1>9, <1>11, BusyFacts
<1>15. \A x \in Winners : x \notin lost /\ ~Shares(x) =>
           /\ paid[x] <= 1 /\ (paid[x] = 1 => row'[x] = "sent")
           /\ x \in recs => paid[x] = 0
  BY SMTT(30), <1>2, <1>9, <1>11, BusyFacts DEF PipelineInv, PayoutTypeOK
<1>16. lost = {} => \A i \in 1 .. Len(Rank) : i < r.next => Handled(w, Rank[i])'
  <2> SUFFICES ASSUME lost = {}, NEW i \in 1 .. Len(Rank), i < r.next
               PROVE  Rank[i] \in plan.blocked \/ Rank[i] \in recs \/ row'[Rank[i]] = "sent"
    BY <1>1, <1>7, <1>8 DEF Handled
  <2>1. CASE i < run[w].next
    <3>1. Handled(w, Rank[i])
      BY <1>2, <2>1, BusyFacts
    <3> QED
      BY <1>9, <3>1, Ranked DEF Handled
  <2>2. CASE i = run[w].next
    BY <1>9, <2>2
  <2> QED
    BY <1>4, <1>7, <2>1, <2>2
<1>17. RecordsHonest'
  BY <1>1, <1>2, <1>9, <1>13, HonestStep
<1>18. LedgerInv'
  BY <1>1, <1>2, <1>7, <1>8, <1>12, <1>13, <1>14, <1>15, <1>16, <1>17, BusyStep
     DEF PipelineInv, PayoutTypeOK
<1> QED
  BY <1>1, <1>8, <1>10, <1>18, LocksStay DEF PipelineInv

\* The loop over the allocations is over.
LEMMA CreatedStep ==
    ASSUME PipelineInv, NEW w \in Workers, Created(w)
    PROVE  PipelineInv'
<1>1. UNCHANGED <<plan, row, paid, onChain, job, dlq, lock, retry, lost, overrun, faults, ops>>
  BY DEF Created, rows, queue, history, bounds
<1>2. At(w) = "create" /\ run[w].at = "create" /\ Busy(w)
  BY DEF Created, Busy, PastCheck, At
<1>3. run[w] \in Run /\ RunSound(w) /\ At(w) \in Labels /\ run[w].next \in Nat
  BY <1>2, BusyFacts DEF Run
<1>4. run[w].mine = {} /\ run[w].noted = {} /\ run[w].ok \subseteq run[w].recs
  BY <1>2, <1>3 DEF RunSound
<1>5. lost = {} => \A i \in 1 .. Len(Rank) : Handled(w, Rank[i])
  BY <1>2, <1>3, BusyFacts, Ranked DEF Created
<1>6. /\ paid' \in [Winners -> Nat] /\ \A x \in Winners : paid'[x] >= paid[x]
      /\ lost \subseteq lost' /\ lost' \subseteq Winners
  BY <1>1 DEF PipelineInv, PayoutTypeOK
<1>7. \A x \in Winners : x \notin lost /\ ~Shares(x) =>
          /\ paid[x] <= 1 /\ (paid[x] = 1 => row[x] = "sent")
          /\ x \in run[w].recs => paid[x] = 0
  BY <1>2, <1>4, BusyFacts
<1>8. CASE run[w].recs = {} /\ status' = "settled" /\ Goto(w, "end")
  <2>1. /\ run' \in [Workers -> Run \cup {Idle}] /\ Moves(w) /\ Follows
        /\ ~Busy(w)' /\ RunSound(w)' /\ LoopSound(w)'
    BY <1>3, <1>8, GotoSound DEF PipelineInv, LedgerInv
  <2>2. lost' = {} => \A u \in Winners \ plan.blocked : row'[u] = "sent"
    BY <1>1, <1>5, <1>8, Ranked DEF Handled
  <2>3. RecordsHonest'
    BY <1>1, <1>2, <1>6, <2>2, HonestStep
  <2>4. LedgerInv'
    BY <1>1, <1>2, <1>6, <1>7, <2>1, <2>3, BusyStep DEF PipelineInv
  <2>5. PayoutTypeOK'
    BY <1>1, <1>8, <2>1 DEF PipelineInv, PayoutTypeOK
  <2> QED
    BY <1>1, <2>1, <2>4, <2>5, LocksStay DEF PipelineInv
<1>9. CASE /\ run[w].recs # {} /\ Goto(w, IF plan.escrow THEN "settle" ELSE "submit")
           /\ UNCHANGED status
  <2>1. PICK label \in {"settle", "submit"} :
           Goto(w, label) /\ (label = "settle" => plan.escrow)
    BY <1>9
  <2>2. /\ run' \in [Workers -> Run \cup {Idle}] /\ Moves(w) /\ Follows
        /\ run'[w] = [run[w] EXCEPT !.at = label] /\ At(w)' = label
    BY <1>3, <2>1, GotoEffect DEF PipelineInv, Labels
  <2>3. /\ run'[w].at = label /\ run'[w].next = run[w].next /\ run'[w].recs = run[w].recs
        /\ run'[w].ok = run[w].ok /\ run'[w].mine = run[w].mine /\ run'[w].noted = run[w].noted
    BY <1>3, <2>2 DEF Run
  <2>4. RunSound(w)' /\ LoopSound(w)'
    BY <1>1, <1>4, <2>1, <2>3 DEF RunSound, LoopSound
  <2>5. lost' = {} => \A i \in 1 .. Len(Rank) : Handled(w, Rank[i])'
    BY <1>1, <1>5, <2>3 DEF Handled
  <2>6. RecordsHonest'
    BY <1>1, <1>2, <1>6, <1>9, HonestStep
  <2>7. \A x \in run'[w].recs \ lost' : row'[x] = "sent" <=> x \in run'[w].noted
    BY <1>1, <1>2, <2>3, BusyFacts
  <2>8. LedgerInv'
    BY <1>1, <1>2, <1>4, <1>6, <1>7, <1>9, <2>2, <2>3, <2>4, <2>5, <2>6, <2>7, BusyStep
       DEF PipelineInv
  <2>9. PayoutTypeOK'
    BY <1>1, <1>9, <2>2 DEF PipelineInv, PayoutTypeOK
  <2> QED
    BY <1>1, <2>2, <2>8, <2>9, LocksStay DEF PipelineInv
<1> QED
  BY <1>8, <1>9 DEF Created

\* A payment adds one to those it pays.
LEMMA PayEffect ==
    ASSUME PayoutTypeOK, NEW w, NEW S, Pay(w, S)
    PROVE  /\ paid' \in [Winners -> Nat]
           /\ \A u \in Winners : paid[u] \in Nat /\ paid'[u] >= paid[u]
           /\ \A u \in Winners : paid'[u] = IF u \in S THEN paid[u] + 1 ELSE paid[u]
BY DEF PayoutTypeOK, Pay

\* The escrow contract pays all recipients or nobody.
LEMMA ContractEffect ==
    ASSUME PayoutTypeOK, NEW w, NEW yes \in BOOLEAN, ContractPays(w, yes)
    PROVE  /\ paid' \in [Winners -> Nat] /\ onChain' \in BOOLEAN
           /\ \A u \in Winners : paid[u] \in Nat /\ paid'[u] >= paid[u]
           /\ \A u \in Winners : paid'[u] = IF yes /\ u \in run[w].recs THEN paid[u] + 1 ELSE paid[u]
<1>1. CASE yes
  <2>1. Pay(w, run[w].recs) /\ onChain' = TRUE
    BY <1>1 DEF ContractPays
  <2> QED
    BY <1>1, <2>1, PayEffect
<1>2. CASE ~yes
  <2>1. UNCHANGED <<paid, onChain>>
    BY <1>2 DEF ContractPays
  <2>2. onChain' \in BOOLEAN
    BY <2>1 DEF PayoutTypeOK
  <2> QED
    BY <1>2, <2>1, <2>2 DEF PayoutTypeOK
<1> QED
  BY <1>1, <1>2

\* The settlement is submitted to the contract.
LEMMA EscrowSettlesStep ==
    ASSUME PipelineInv, NEW w \in Workers, EscrowSettles(w)
    PROVE  PipelineInv'
<1>1. UNCHANGED <<plan, status, row, job, dlq, lock, retry, lost, overrun, ops>>
  BY DEF EscrowSettles, queue, history
<1>2. At(w) = "settle" /\ run[w].at = "settle" /\ Busy(w)
  BY DEF EscrowSettles, Busy, PastCheck, At
<1>3. run[w] \in Run /\ RunSound(w) /\ run[w].recs \subseteq Winners
  BY <1>2, BusyFacts
<1>4. /\ run[w].mine = {} /\ run[w].noted = {} /\ run[w].ok \subseteq run[w].recs
      /\ plan.escrow
  BY <1>2, <1>3 DEF RunSound
<1>5. PICK yes \in BOOLEAN :
         /\ ContractPays(w, yes)
         /\ Fault \/ UNCHANGED faults
         /\ run' = [run EXCEPT ![w].at = "note", ![w].next = 1,
                               ![w].mine = IF yes THEN run[w].recs ELSE {}]
  BY DEF EscrowSettles
<1> DEFINE M == IF yes THEN run[w].recs ELSE {}
           r == [run[w] EXCEPT !.at = "note", !.next = 1, !.mine = M]
<1>6. run' = [run EXCEPT ![w] = r]
  BY <1>3, <1>5 DEF PipelineInv, PayoutTypeOK
<1>7. /\ paid' \in [Winners -> Nat] /\ onChain' \in BOOLEAN
      /\ \A u \in Winners : paid[u] \in Nat /\ paid'[u] >= paid[u]
      /\ \A u \in Winners : paid'[u] = IF u \in M THEN paid[u] + 1 ELSE paid[u]
  BY <1>5, ContractEffect DEF PipelineInv
<1>8. M \subseteq run[w].recs /\ M \subseteq Winners /\ 1 \in 1 .. Len(Rank) + 1
  BY <1>3, Ranked
<1> HIDE DEF M
<1>9. /\ r \in Run /\ r.at = "note" /\ r.batch = run[w].batch /\ r.next = 1
      /\ r.recs = run[w].recs /\ r.ok = run[w].ok /\ r.mine = M /\ r.noted = run[w].noted
  BY <1>3, <1>8 DEF Run, Labels
<1> HIDE DEF r
<1>10. /\ run' \in [Workers -> Run \cup {Idle}] /\ Moves(w) /\ Follows
       /\ run'[w] = r /\ At(w)' = r.at
  BY <1>3, <1>6, <1>9, RunEffect DEF PipelineInv
<1>11. faults' \in 0 .. MaxFaults
  BY <1>5, FaultBound DEF PipelineInv
<1>12. PayoutTypeOK'
  BY <1>1, <1>7, <1>10, <1>11 DEF PipelineInv, PayoutTypeOK
<1>13. RunSound(w)' /\ LoopSound(w)'
  BY <1>1, <1>4, <1>8, <1>9, <1>10 DEF RunSound, LoopSound
<1>14. \A x \in run'[w].recs \ lost' : row'[x] = "sent" <=> x \in run'[w].noted
  BY <1>1, <1>2, <1>9, <1>10, BusyFacts
<1>15. \A x \in Winners : x \notin lost /\ ~Shares(x) =>
           /\ paid'[x] <= 1 /\ (paid'[x] = 1 => row[x] = "sent" \/ x \in M)
           /\ x \in run[w].recs \ M => paid'[x] = 0
  BY <1>2, <1>4, <1>7, <1>8, BusyFacts
<1>16. lost' = {} => \A i \in 1 .. Len(Rank) : Handled(w, Rank[i])'
  BY <1>1, <1>2, <1>9, <1>10, BusyFacts DEF Handled
<1>17. RecordsHonest'
  BY <1>1, <1>2, <1>7, HonestStep
<1>18. LedgerInv'
  <2>1. lost \subseteq lost' /\ lost' \subseteq Winners
    BY <1>1 DEF PipelineInv, PayoutTypeOK
  <2>2. Busy(w)'
    BY <1>9, <1>10 DEF Busy, PastCheck
  <2> QED
    BY <1>1, <1>2, <1>7, <1>9, <1>10, <1>13, <1>14, <1>15, <1>16, <1>17, <2>1, <2>2, BusyStep
       DEF PipelineInv
<1> QED
  BY <1>1, <1>10, <1>12, <1>18, LocksStay DEF PipelineInv

\* Falling back after an unseen settlement loses everybody the contract paid.
LEMMA EscrowFailsStep ==
    ASSUME PipelineInv, NEW w \in Workers, EscrowFails(w)
    PROVE  PipelineInv'
<1>1. UNCHANGED <<plan, status, row, job, dlq, lock, retry, overrun, ops>>
  BY DEF EscrowFails, queue
<1>2. At(w) = "settle" /\ run[w].at = "settle" /\ Busy(w)
  BY DEF EscrowFails, Busy, PastCheck, At
<1>3. run[w] \in Run /\ RunSound(w) /\ run[w].recs \subseteq Winners
  BY <1>2, BusyFacts
<1>4. /\ run[w].mine = {} /\ run[w].noted = {} /\ run[w].ok \subseteq run[w].recs
  BY <1>2, <1>3 DEF RunSound
<1>5. PICK yes \in BOOLEAN :
         /\ ContractPays(w, yes)
         /\ lost' = IF yes THEN lost \cup run[w].recs ELSE lost
         /\ run' = [run EXCEPT ![w].at = "submit",
                               ![w].mine = IF yes THEN run[w].recs ELSE {}]
  BY DEF EscrowFails
<1> DEFINE M == IF yes THEN run[w].recs ELSE {}
           r == [run[w] EXCEPT !.at = "submit", !.mine = M]
<1>6. run' = [run EXCEPT ![w] = r] /\ lost' = lost \cup M
  BY <1>3, <1>5 DEF PipelineInv, PayoutTypeOK
<1>7. /\ paid' \in [Winners -> Nat] /\ onChain' \in BOOLEAN
      /\ \A u \in Winners : paid[u] \in Nat /\ paid'[u] >= paid[u]
      /\ \A u \in Winners : paid'[u] = IF u \in M THEN paid[u] + 1 ELSE paid[u]
  BY <1>5, ContractEffect DEF PipelineInv
<1>8. M \subseteq run[w].recs /\ M \subseteq Winners
  BY <1>3
<1> HIDE DEF M
<1>9. /\ r \in Run /\ r.at = "submit" /\ r.batch = run[w].batch /\ r.next = run[w].next
      /\ r.recs = run[w].recs /\ r.ok = run[w].ok /\ r.mine = M /\ r.noted = run[w].noted
  BY <1>3, <1>8 DEF Run, Labels
<1> HIDE DEF r
<1>10. /\ run' \in [Workers -> Run \cup {Idle}] /\ Moves(w) /\ Follows
       /\ run'[w] = r /\ At(w)' = r.at
  BY <1>3, <1>6, <1>9, RunEffect DEF PipelineInv
<1>11. faults' \in 0 .. MaxFaults
  BY FaultBound DEF PipelineInv, EscrowFails
<1>12. lost \subseteq lost' /\ lost' \subseteq Winners
  BY <1>6, <1>8 DEF PipelineInv, PayoutTypeOK
<1>13. PayoutTypeOK'
  BY <1>1, <1>7, <1>10, <1>11, <1>12 DEF PipelineInv, PayoutTypeOK
<1>14. RunSound(w)' /\ LoopSound(w)'
  BY <1>4, <1>6, <1>8, <1>9, <1>10 DEF RunSound, LoopSound
<1>15. \A x \in run'[w].recs \ lost' : row'[x] = "sent" <=> x \in run'[w].noted
  BY <1>1, <1>2, <1>6, <1>9, <1>10, BusyFacts
<1>16. \A x \in Winners : x \notin lost' /\ ~Shares(x) =>
           /\ paid'[x] <= 1 /\ (paid'[x] = 1 => row[x] = "sent")
           /\ x \in run[w].recs => paid'[x] = 0
  BY <1>2, <1>4, <1>6, <1>7, BusyFacts
<1>17. lost' = {} => \A i \in 1 .. Len(Rank) : Handled(w, Rank[i])'
  BY <1>1, <1>2, <1>6, <1>9, <1>10, BusyFacts DEF Handled
<1>18. RecordsHonest'
  BY <1>1, <1>2, <1>7, <1>12, HonestStep
<1>19. LedgerInv'
  BY <1>1, <1>2, <1>7, <1>9, <1>10, <1>12, <1>14, <1>15, <1>16, <1>17, <1>18, BusyStep
     DEF PipelineInv
<1> QED
  BY <1>1, <1>10, <1>13, <1>19, LocksStay DEF PipelineInv

\* After a settlement one row is marked.
LEMMA NoteStep ==
    ASSUME PipelineInv, NEW w \in Workers, Note(w)
    PROVE  PipelineInv'
<1> DEFINE u == Rank[run[w].next]
           N == IF u \in run[w].recs THEN run[w].noted \cup {u} ELSE run[w].noted
           r == [run[w] EXCEPT !.next = run[w].next + 1, !.noted = N]
<1>1. UNCHANGED <<plan, status, paid, onChain, job, dlq, lock, retry, lost, overrun, faults, ops>>
  BY DEF Note, queue, history, bounds
<1>2. At(w) = "note" /\ run[w].at = "note" /\ Busy(w)
  BY DEF Note, Busy, PastCheck, At
<1>3. run[w] \in Run /\ RunSound(w) /\ LoopSound(w) /\ run[w].recs \subseteq Winners
  BY <1>2, BusyFacts
<1>4. run[w].next \in 1 .. Len(Rank) /\ run[w].next + 1 \in 1 .. Len(Rank) + 1 /\ u \in Winners
  BY <1>3, Ranked DEF Note, Run
<1>5. /\ run[w].noted \subseteq run[w].recs /\ run[w].mine \subseteq run[w].recs
      /\ run[w].ok \subseteq run[w].recs /\ plan.escrow
  BY <1>2, <1>3 DEF RunSound
<1>6. run' = [run EXCEPT ![w] = r]
  BY <1>3 DEF Note, PipelineInv, PayoutTypeOK, Run
<1>7. N \subseteq run[w].recs /\ N \subseteq Winners
  BY <1>3, <1>5
<1>8. /\ row' \in [Winners -> {"none", "pending", "sent", "failed"}]
      /\ \A x \in Winners : row'[x] = "sent" <=> row[x] = "sent" \/ (x = u /\ u \in run[w].recs)
  BY <1>4 DEF Note, PipelineInv, PayoutTypeOK
<1>9. \A x \in N : x \in run[w].noted \/ (x = u /\ u \in run[w].recs)
  OBVIOUS
<1>10. run[w].noted \subseteq N /\ (u \in run[w].recs => u \in N)
  OBVIOUS
<1> HIDE DEF N
<1>11. /\ r \in Run /\ r.at = "note" /\ r.batch = run[w].batch /\ r.next = run[w].next + 1
       /\ r.recs = run[w].recs /\ r.ok = run[w].ok /\ r.mine = run[w].mine /\ r.noted = N
  BY <1>2, <1>3, <1>4, <1>7 DEF Run
<1> HIDE DEF r
<1>12. /\ run' \in [Workers -> Run \cup {Idle}] /\ Moves(w) /\ Follows
       /\ run'[w] = r /\ At(w)' = r.at
  BY <1>3, <1>6, <1>11, RunEffect DEF PipelineInv
<1>13. PayoutTypeOK'
  BY <1>1, <1>8, <1>12 DEF PipelineInv, PayoutTypeOK
<1>14. RunSound(w)'
  BY <1>1, <1>5, <1>7, <1>11, <1>12 DEF RunSound
<1>15. LoopSound(w)'
  <2> SUFFICES ASSUME NEW i \in 1 .. Len(Rank), i < run[w].next + 1, Rank[i] \in run[w].recs
               PROVE  Rank[i] \in N
    BY <1>11, <1>12 DEF LoopSound
  <2>1. i < run[w].next \/ i = run[w].next
    BY <1>4
  <2> QED
    BY <1>2, <1>3, <1>10, <2>1 DEF LoopSound
<1>16. /\ paid' \in [Winners -> Nat] /\ \A x \in Winners : paid'[x] >= paid[x]
       /\ lost \subseteq lost' /\ lost' \subseteq Winners
  BY <1>1 DEF PipelineInv, PayoutTypeOK
<1>17. \A x \in run'[w].recs \ lost' : row'[x] = "sent" <=> x \in run'[w].noted
  BY <1>1, <1>2, <1>3, <1>8, <1>9, <1>10, <1>11, <1>12, BusyFacts
<1>18. \A x \in Winners : x \notin lost /\ ~Shares(x) =>
           /\ paid[x] <= 1 /\ (paid[x] = 1 => row'[x] = "sent" \/ x \in run[w].mine)
           /\ x \in run[w].recs \ run[w].mine => paid[x] = 0
  BY <1>2, <1>8, BusyFacts
<1>19. lost' = {} => \A i \in 1 .. Len(Rank) : Handled(w, Rank[i])'
  BY <1>1, <1>2, <1>8, <1>11, <1>12, BusyFacts, Ranked DEF Handled
<1>20. RecordsHonest'
  BY <1>1, <1>2, <1>5, <1>16, HonestStep
<1>21. LedgerInv'
  <2>1. Busy(w)'
    BY <1>11, <1>12 DEF Busy, PastCheck
  <2> QED
    BY <1>1, <1>2, <1>11, <1>12, <1>14, <1>15, <1>16, <1>17, <1>18, <1>19, <1>20, <2>1, BusyStep
       DEF PipelineInv
<1> QED
  BY <1>1, <1>12, <1>13, <1>21, LocksStay DEF PipelineInv

\* All rows are marked, and the challenge is settled.
LEMMA NotedStep ==
    ASSUME PipelineInv, NEW w \in Workers, Noted(w)
    PROVE  PipelineInv'
<1>1. UNCHANGED <<plan, row, paid, onChain, job, dlq, lock, retry, lost, overrun, faults, ops>>
      /\ status' = "settled"
  BY DEF Noted, rows, queue, history, bounds
<1>2. At(w) = "note" /\ run[w].at = "note" /\ Busy(w) /\ At(w) \in Labels
  BY DEF Noted, Busy, PastCheck, At, Labels
<1>3. run[w] \in Run /\ RunSound(w) /\ LoopSound(w) /\ run[w].recs \subseteq Winners
  BY <1>2, BusyFacts
<1>4. run[w].next \in Nat /\ run[w].next > Len(Rank)
  BY <1>3 DEF Noted, Run
<1>5. \A x \in run[w].recs : x \in run[w].noted
  BY <1>2, <1>3, <1>4, Ranked DEF LoopSound
<1>6. \A x \in run[w].recs \ lost : row[x] = "sent"
  BY <1>2, <1>5, BusyFacts
<1>7. /\ run' \in [Workers -> Run \cup {Idle}] /\ Moves(w) /\ Follows
      /\ ~Busy(w)' /\ RunSound(w)' /\ LoopSound(w)'
  BY <1>2, GotoSound DEF Noted, PipelineInv, LedgerInv
<1>8. PayoutTypeOK'
  BY <1>1, <1>7 DEF PipelineInv, PayoutTypeOK
<1>9. /\ paid' \in [Winners -> Nat] /\ \A x \in Winners : paid'[x] >= paid[x]
      /\ lost \subseteq lost' /\ lost' \subseteq Winners
  BY <1>1 DEF PipelineInv, PayoutTypeOK
<1>10. \A x \in Winners : x \notin lost /\ ~Shares(x) =>
           paid[x] <= 1 /\ (paid[x] = 1 => row[x] = "sent")
  BY <1>2, <1>3, <1>6, BusyFacts DEF RunSound
<1>11. lost' = {} => \A x \in Winners \ plan.blocked : row'[x] = "sent"
  BY <1>1, <1>2, <1>6, BusyFacts, Ranked DEF Handled
<1>12. RecordsHonest'
  BY <1>1, <1>2, <1>9, <1>11, HonestStep
<1>13. LedgerInv'
  BY <1>1, <1>2, <1>7, <1>9, <1>10, <1>12, BusyStep DEF PipelineInv
<1> QED
  BY <1>1, <1>7, <1>8, <1>13, LocksStay DEF PipelineInv

\* A mark throws, and the code falls back to paying directly.
LEMMA NoteFailsStep ==
    ASSUME PipelineInv, NEW w \in Workers, NoteFails(w)
    PROVE  PipelineInv'
<1>1. UNCHANGED <<plan, status, paid, onChain, job, dlq, lock, retry, overrun, ops>>
      /\ lost' = lost \cup run[w].mine
  BY DEF NoteFails, queue
<1>2. At(w) = "note" /\ run[w].at = "note" /\ Busy(w)
  BY DEF NoteFails, Busy, PastCheck, At
<1>3. run[w] \in Run /\ RunSound(w) /\ run[w].recs \subseteq Winners
  BY <1>2, BusyFacts
<1>4. /\ run[w].noted \subseteq run[w].recs /\ run[w].mine \subseteq run[w].recs
      /\ run[w].ok \subseteq run[w].recs /\ plan.escrow
  BY <1>2, <1>3 DEF RunSound
<1>5. PICK new \in SUBSET run[w].recs :
         /\ row' \in [Winners -> {"none", "pending", "sent", "failed"}]
         /\ \A x \in Winners : row'[x] = "sent" <=> row[x] = "sent" \/ x \in new
         /\ run' = [run EXCEPT ![w] = [run[w] EXCEPT !.at = "submit",
                                                    !.noted = run[w].noted \cup new]]
  <2>1. CASE UNCHANGED row /\ Goto(w, "submit")
    <3>1. run' = [run EXCEPT ![w] = [run[w] EXCEPT !.at = "submit"]]
      BY <1>3, <2>1 DEF Goto, PipelineInv, PayoutTypeOK
    <3>2. [run[w] EXCEPT !.at = "submit", !.noted = run[w].noted \cup {}]
            = [run[w] EXCEPT !.at = "submit"]
      BY <1>3 DEF Run
    <3>3. row' \in [Winners -> {"none", "pending", "sent", "failed"}] /\ row' = row
      BY <2>1 DEF PipelineInv, PayoutTypeOK
    <3> QED
      BY <3>1, <3>2, <3>3
  <2>2. CASE /\ run[w].next <= Len(Rank)
             /\ LET u == Rank[run[w].next] IN
                /\ u \in run[w].recs
                /\ row' = [row EXCEPT ![u] = "sent"]
                /\ run' = [run EXCEPT ![w].at = "submit", ![w].noted = @ \cup {u}]
    <3> DEFINE u == Rank[run[w].next]
    <3>1. u \in run[w].recs /\ u \in Winners
      BY <1>3, <2>2
    <3>2. run' = [run EXCEPT ![w] = [run[w] EXCEPT !.at = "submit",
                                                   !.noted = run[w].noted \cup {u}]]
      BY <1>3, <2>2 DEF PipelineInv, PayoutTypeOK, Run
    <3>3. row' \in [Winners -> {"none", "pending", "sent", "failed"}] /\ row' = [row EXCEPT ![u] = "sent"]
      BY <2>2 DEF PipelineInv, PayoutTypeOK
    <3>4. \A x \in Winners : row'[x] = "sent" <=> row[x] = "sent" \/ x \in {u}
      BY <3>1, <3>3 DEF PipelineInv, PayoutTypeOK
    <3> HIDE DEF u
    <3> QED
      BY <3>1, <3>2, <3>3, <3>4
  <2> QED
    BY <2>1, <2>2 DEF NoteFails
<1> DEFINE N == run[w].noted \cup new
           r == [run[w] EXCEPT !.at = "submit", !.noted = N]
<1>6. N \subseteq run[w].recs /\ N \subseteq Winners /\ run' = [run EXCEPT ![w] = r]
  BY <1>3, <1>4, <1>5
<1>7. \A x : x \in N <=> x \in run[w].noted \/ x \in new
  OBVIOUS
<1> HIDE DEF N
<1>8. /\ r \in Run /\ r.at = "submit" /\ r.batch = run[w].batch /\ r.next = run[w].next
      /\ r.recs = run[w].recs /\ r.ok = run[w].ok /\ r.mine = run[w].mine /\ r.noted = N
  BY <1>3, <1>6 DEF Run, Labels
<1> HIDE DEF r
<1>9. /\ run' \in [Workers -> Run \cup {Idle}] /\ Moves(w) /\ Follows
      /\ run'[w] = r /\ At(w)' = r.at
  BY <1>3, <1>6, <1>8, RunEffect DEF PipelineInv
<1>10. faults' \in 0 .. MaxFaults
  BY FaultBound DEF PipelineInv, NoteFails
<1>11. /\ paid' \in [Winners -> Nat] /\ \A x \in Winners : paid'[x] >= paid[x]
       /\ lost \subseteq lost' /\ lost' \subseteq Winners
  BY <1>1, <1>3, <1>4 DEF PipelineInv, PayoutTypeOK
<1>12. PayoutTypeOK'
  BY <1>1, <1>5, <1>9, <1>10, <1>11 DEF PipelineInv, PayoutTypeOK
<1>13. RunSound(w)' /\ LoopSound(w)'
  BY <1>1, <1>4, <1>6, <1>8, <1>9 DEF RunSound, LoopSound
<1>14. \A x \in run'[w].recs \ lost' : row'[x] = "sent" <=> x \in run'[w].noted
  BY <1>1, <1>2, <1>3, <1>5, <1>7, <1>8, <1>9, BusyFacts
<1>15. \A x \in Winners : x \notin lost' /\ ~Shares(x) =>
           /\ paid[x] <= 1 /\ (paid[x] = 1 => row'[x] = "sent")
           /\ x \in run[w].recs \ run[w].mine => paid[x] = 0
  BY <1>1, <1>2, <1>5, BusyFacts
<1>16. lost' = {} => \A i \in 1 .. Len(Rank) : Handled(w, Rank[i])'
  <2>1. lost' = {} => \A i \in 1 .. Len(Rank) : Handled(w, Rank[i])
    BY <1>2, <1>11, BusyFacts
  <2>2. \A x \in Winners : Handled(w, x) => Handled(w, x)'
    BY <1>1, <1>5, <1>8, <1>9 DEF Handled
  <2> QED
    BY <2>1, <2>2, Ranked
<1>17. RecordsHonest'
  BY <1>1, <1>2, <1>4, <1>11, HonestStep
<1>18. LedgerInv'
  BY <1>1, <1>2, <1>8, <1>9, <1>11, <1>13, <1>14, <1>15, <1>16, <1>17, BusyStep
     DEF PipelineInv
<1> QED
  BY <1>1, <1>9, <1>12, <1>18, LocksStay DEF PipelineInv

\* The batches are submitted, each paid or not.
LEMMA SubmitStep ==
    ASSUME PipelineInv, NEW w \in Workers, Submit(w)
    PROVE  PipelineInv'
<1>1. UNCHANGED <<plan, status, row, onChain, job, dlq, lock, retry, overrun, ops>>
  BY DEF Submit, queue
<1>2. At(w) = "submit" /\ run[w].at = "submit" /\ Busy(w)
  BY DEF Submit, Busy, PastCheck, At
<1>3. run[w] \in Run /\ RunSound(w) /\ run[w].recs \subseteq Winners
  BY <1>2, BusyFacts
<1>4. /\ run[w].noted \subseteq run[w].recs /\ run[w].mine \subseteq run[w].recs
      /\ run[w].mine \subseteq lost
  BY <1>2, <1>3 DEF RunSound
<1>ok. PICK ok \in SUBSET run[w].recs : \E unanswered \in SUBSET (run[w].recs \ ok) :
         /\ Fault \/ UNCHANGED faults
         /\ Pay(w, ok \cup unanswered)
         /\ lost' = lost \cup unanswered
         /\ run' = [run EXCEPT ![w].at = "record", ![w].next = 1, ![w].ok = ok,
                               ![w].mine = run[w].mine \cup ok \cup unanswered]
  BY DEF Submit, PipelineInv, PayoutTypeOK
<1>5. PICK unanswered \in SUBSET (run[w].recs \ ok) :
         /\ Fault \/ UNCHANGED faults
         /\ Pay(w, ok \cup unanswered)
         /\ lost' = lost \cup unanswered
         /\ run' = [run EXCEPT ![w].at = "record", ![w].next = 1, ![w].ok = ok,
                               ![w].mine = run[w].mine \cup ok \cup unanswered]
  BY <1>ok
<1> DEFINE M == run[w].mine \cup ok \cup unanswered
           r == [run[w] EXCEPT !.at = "record", !.next = 1, !.ok = ok, !.mine = M]
<1>6. run' = [run EXCEPT ![w] = r]
  <2>1. run' = [run EXCEPT ![w].at = "record", ![w].next = 1, ![w].ok = ok, ![w].mine = M]
    BY <1>5
  <2> HIDE DEF M
  <2> QED
    BY <1>3, <2>1 DEF PipelineInv, PayoutTypeOK
<1>7. /\ paid' \in [Winners -> Nat]
      /\ \A u \in Winners : paid[u] \in Nat /\ paid'[u] >= paid[u]
      /\ \A u \in Winners :
             paid'[u] = IF u \in ok \cup unanswered THEN paid[u] + 1 ELSE paid[u]
  BY <1>5, PayEffect DEF PipelineInv
<1>8. /\ M \subseteq run[w].recs /\ M \subseteq Winners /\ 1 \in 1 .. Len(Rank) + 1
      /\ ok \subseteq Winners /\ M \subseteq ok \cup lost'
      /\ lost \subseteq lost' /\ lost' \subseteq Winners
  BY <1>3, <1>4, <1>5, Ranked DEF PipelineInv, PayoutTypeOK
<1>9. ok \subseteq M
  OBVIOUS
<1> HIDE DEF M
<1>10. /\ r \in Run /\ r.at = "record" /\ r.batch = run[w].batch /\ r.next = 1
       /\ r.recs = run[w].recs /\ r.ok = ok /\ r.mine = M /\ r.noted = run[w].noted
  BY <1>3, <1>8 DEF Run, Labels
<1> HIDE DEF r
<1>11. /\ run' \in [Workers -> Run \cup {Idle}] /\ Moves(w) /\ Follows
       /\ run'[w] = r /\ At(w)' = r.at
  BY <1>3, <1>6, <1>10, RunEffect DEF PipelineInv
<1>12. faults' \in 0 .. MaxFaults
  BY <1>5, FaultBound DEF PipelineInv
<1>13. PayoutTypeOK'
  BY <1>1, <1>7, <1>8, <1>11, <1>12 DEF PipelineInv, PayoutTypeOK
<1>14. \A u \in ok : paid'[u] > 0
  BY <1>7, <1>8
<1>15. RunSound(w)' /\ LoopSound(w)'
  BY <1>4, <1>8, <1>10, <1>11, <1>14 DEF RunSound, LoopSound
<1>16. \A x \in run'[w].recs \ lost' : row'[x] = "sent" <=> x \in run'[w].noted
  BY <1>1, <1>2, <1>8, <1>10, <1>11, BusyFacts
<1>17. \A x \in Winners : x \notin lost' /\ ~Shares(x) =>
           /\ paid'[x] <= 1 /\ (paid'[x] = 1 => row[x] = "sent" \/ x \in M)
           /\ x \in run[w].recs \ M => paid'[x] = 0
  <2> SUFFICES ASSUME NEW x \in Winners, x \notin lost', ~Shares(x)
               PROVE  /\ paid'[x] <= 1 /\ (paid'[x] = 1 => row[x] = "sent" \/ x \in M)
                      /\ x \in run[w].recs \ M => paid'[x] = 0
    OBVIOUS
  <2>1. x \notin lost /\ x \notin run[w].mine /\ x \notin unanswered
    BY <1>4, <1>5, <1>8
  <2>2. /\ paid[x] <= 1 /\ (paid[x] = 1 => row[x] = "sent")
        /\ x \in run[w].recs => paid[x] = 0
    BY <1>2, <2>1, BusyFacts
  <2> QED
    BY <1>7, <1>9, <2>1, <2>2
<1>18. lost' = {} => \A i \in 1 .. Len(Rank) : Handled(w, Rank[i])'
  BY <1>1, <1>2, <1>8, <1>10, <1>11, BusyFacts DEF Handled
<1>19. RecordsHonest'
  BY <1>1, <1>2, <1>7, <1>8, HonestStep
<1>20. LedgerInv'
  <2>1. Busy(w)'
    BY <1>10, <1>11 DEF Busy, PastCheck
  <2> QED
    BY <1>1, <1>2, <1>7, <1>8, <1>10, <1>11, <1>15, <1>16, <1>17, <1>18, <1>19, <2>1, BusyStep
       DEF PipelineInv
<1> QED
  BY <1>1, <1>11, <1>13, <1>20, LocksStay DEF PipelineInv

-------------------------------------------------------------------------------
(* Results *)

\* A result is written to the rows of one address.
LEMMA RecordEffect ==
    ASSUME PipelineInv, NEW w \in Workers, At(w) = "record", NEW u \in run[w].recs,
           RecordResult(w, u)
    PROVE  /\ row' \in [Winners -> {"none", "pending", "sent", "failed"}]
           /\ NotedWith(w, u) \subseteq run[w].recs
           /\ \A x \in Winners : x \notin run[w].recs => row'[x] = row[x]
           /\ \A x \in run[w].recs \ lost : row'[x] = "sent" <=> x \in NotedWith(w, u)
           /\ \A x \in Winners : row'[x] = "sent" =>
                 \/ row[x] = "sent"
                 \/ \E v \in Winners : plan.address[v] = plan.address[x] /\ paid[v] > 0
<1>1. Busy(w) /\ run[w].at = "record"
  BY DEF Busy, PastCheck, At
<1>2. run[w] \in Run /\ RunSound(w) /\ run[w].recs \subseteq Winners
  BY <1>1, BusyFacts
<1>3. /\ RecordOf(w, u) \in run[w].recs /\ RecordOf(w, u) \in Winners
      /\ plan.address[RecordOf(w, u)] = plan.address[u]
  BY <1>2, FoundRecord DEF PipelineInv
<1>4. row' = [row EXCEPT ![RecordOf(w, u)] = IF u \in run[w].ok THEN "sent" ELSE "failed"]
  BY DEF RecordResult
<1>5. /\ row' \in [Winners -> {"none", "pending", "sent", "failed"}]
      /\ \A x \in Winners : x # RecordOf(w, u) => row'[x] = row[x]
      /\ row'[RecordOf(w, u)] = "sent" <=> u \in run[w].ok
  BY <1>3, <1>4 DEF PipelineInv, PayoutTypeOK
<1>6. NotedWith(w, u) \subseteq run[w].recs
  BY <1>2, <1>3 DEF NotedWith, RunSound
<1>7. \A x \in Winners : x \notin run[w].recs => row'[x] = row[x]
  BY <1>3, <1>5
<1>8. ASSUME NEW x \in run[w].recs \ lost
      PROVE  row'[x] = "sent" <=> x \in NotedWith(w, u)
  <2>1. row[x] = "sent" <=> x \in run[w].noted
    BY <1>1, <1>8, BusyFacts
  <2> QED
    BY <1>2, <1>5, <2>1 DEF NotedWith
<1>9. ASSUME NEW x \in Winners, row'[x] = "sent", row[x] # "sent"
      PROVE  \E v \in Winners : plan.address[v] = plan.address[x] /\ paid[v] > 0
  <2>1. x = RecordOf(w, u) /\ u \in run[w].ok
    BY <1>5, <1>9
  <2>2. paid[u] > 0 /\ u \in Winners
    BY <1>1, <1>2, <2>1 DEF RunSound
  <2> QED
    BY <1>3, <2>1, <2>2
<1> QED
  BY <1>5, <1>6, <1>7, <1>8, <1>9

\* Who has been paid once is paid and marked, or among the run's own.
LEMMA RecordPayments ==
    ASSUME PipelineInv, NEW w \in Workers, At(w) = "record",
           NEW x \in Winners, x \notin lost, ~Shares(x), paid[x] = 1
    PROVE  \/ x \notin run[w].recs /\ row[x] = "sent"
           \/ x \in run[w].recs /\ x \in run[w].mine /\ x \in run[w].ok
<1>1. Busy(w) /\ run[w].at = "record"
  BY DEF Busy, PastCheck, At
<1>2. run[w].mine \subseteq run[w].recs /\ run[w].mine \subseteq run[w].ok \cup lost
  BY <1>1, BusyFacts DEF RunSound
<1> QED
  BY <1>1, <1>2, BusyFacts

\* The loop over the results writes one of them.
LEMMA RecordStep ==
    ASSUME PipelineInv, NEW w \in Workers, Record(w)
    PROVE  PipelineInv'
<1> DEFINE u == Rank[run[w].next]
           N == IF u \in run[w].recs THEN NotedWith(w, u) ELSE run[w].noted
           r == [run[w] EXCEPT !.next = run[w].next + 1, !.noted = N]
<1>1. UNCHANGED <<plan, status, paid, onChain, job, dlq, lock, retry, lost, overrun, faults, ops>>
  BY DEF Record, queue, history, bounds
<1>2. At(w) = "record" /\ run[w].at = "record" /\ Busy(w)
  BY DEF Record, Busy, PastCheck, At
<1>3. run[w] \in Run /\ RunSound(w) /\ LoopSound(w) /\ run[w].recs \subseteq Winners
  BY <1>2, BusyFacts
<1>4. run[w].next \in 1 .. Len(Rank) /\ run[w].next + 1 \in 1 .. Len(Rank) + 1 /\ u \in Winners
  BY <1>3, Ranked DEF Record, Run
<1>5. /\ run[w].noted \subseteq run[w].recs /\ run[w].mine \subseteq run[w].recs
      /\ run[w].ok \subseteq run[w].recs /\ run[w].mine \subseteq run[w].ok \cup lost
      /\ \A x \in run[w].ok : paid[x] > 0
  BY <1>2, <1>3 DEF RunSound
<1>6. run' = [run EXCEPT ![w] = r]
  <2>1. CASE u \in run[w].recs
    <3>1. run' = [run EXCEPT ![w].next = run[w].next + 1, ![w].noted = N]
      BY <2>1 DEF Record, PipelineInv, PayoutTypeOK
    <3> HIDE DEF N
    <3> QED
      BY <1>3, <3>1 DEF PipelineInv, PayoutTypeOK
  <2>2. CASE u \notin run[w].recs
    <3>1. run' = [run EXCEPT ![w].next = run[w].next + 1]
      BY <2>2 DEF Record, PipelineInv, PayoutTypeOK
    <3>2. N = run[w].noted
      BY <2>2
    <3> HIDE DEF N
    <3> QED
      BY <1>3, <3>1, <3>2 DEF PipelineInv, PayoutTypeOK, Run
  <2> QED
    BY <2>1, <2>2
<1>7. /\ row' \in [Winners -> {"none", "pending", "sent", "failed"}]
      /\ N \subseteq run[w].recs
      /\ \A x \in Winners : x \notin run[w].recs => row'[x] = row[x]
      /\ \A x \in run[w].recs \ lost : row'[x] = "sent" <=> x \in N
      /\ \A x \in Winners : row'[x] = "sent" =>
            \/ row[x] = "sent"
            \/ \E v \in Winners : plan.address[v] = plan.address[x] /\ paid[v] > 0
  <2>1. CASE u \in run[w].recs
    <3>1. RecordResult(w, u) /\ N = NotedWith(w, u)
      BY <2>1 DEF Record
    <3> HIDE DEF u, N
    <3> QED
      BY <1>2, <2>1, <3>1, RecordEffect
  <2>2. CASE u \notin run[w].recs
    <3>1. row' = row /\ N = run[w].noted
      BY <2>2 DEF Record
    <3> HIDE DEF N
    <3> QED
      BY <1>2, <1>5, <3>1, BusyFacts DEF PipelineInv, PayoutTypeOK
  <2> QED
    BY <2>1, <2>2
<1>8. /\ \A x \in run[w].noted \ N : u \in run[w].recs \ run[w].ok /\ x = RecordOf(w, u)
      /\ u \in run[w].ok => RecordOf(w, u) \in N
  BY <1>5 DEF NotedWith
<1> HIDE DEF N
<1>9. /\ r \in Run /\ r.at = "record" /\ r.batch = run[w].batch /\ r.next = run[w].next + 1
      /\ r.recs = run[w].recs /\ r.ok = run[w].ok /\ r.mine = run[w].mine /\ r.noted = N
  <2>1. N \in SUBSET Winners
    BY <1>3, <1>7
  <2> QED
    BY <1>2, <1>3, <1>4, <2>1 DEF Run
<1> HIDE DEF r
<1>10. /\ run' \in [Workers -> Run \cup {Idle}] /\ Moves(w) /\ Follows
       /\ run'[w] = r /\ At(w)' = r.at
  BY <1>3, <1>6, <1>9, RunEffect DEF PipelineInv
<1>11. PayoutTypeOK'
  BY <1>1, <1>7, <1>10 DEF PipelineInv, PayoutTypeOK
<1>12. RunSound(w)'
  BY <1>1, <1>5, <1>7, <1>9, <1>10 DEF RunSound
<1>13. LoopSound(w)'
  <2>1. \A x \in Winners : (Shares(x)' <=> Shares(x)) /\ RecordOf(w, x)' = RecordOf(w, x)
    BY <1>1, <1>9, <1>10 DEF Shares, RecordOf
  <2> SUFFICES ASSUME NEW i \in 1 .. Len(Rank), i < run[w].next + 1
               PROVE  /\ Rank[i] \in run[w].ok /\ ~Shares(Rank[i]) => Rank[i] \in N
                      /\ Rank[i] \in run[w].recs /\ run[w].ok = run[w].recs =>
                            RecordOf(w, Rank[i]) \in N
    BY <1>9, <1>10, <2>1, Ranked DEF LoopSound
  <2>2. /\ Rank[i] \in Winners
        /\ u \in run[w].recs /\ RecordOf(w, u) # u => Shares(RecordOf(w, u)) /\ Shares(u)
    BY <1>4, FoundRecord, Ranked DEF PipelineInv
  <2>3. CASE i < run[w].next
    <3>1. /\ Rank[i] \in run[w].ok /\ ~Shares(Rank[i]) => Rank[i] \in run[w].noted
          /\ Rank[i] \in run[w].recs /\ run[w].ok = run[w].recs =>
                RecordOf(w, Rank[i]) \in run[w].noted
      BY <1>2, <1>3, <2>3 DEF LoopSound
    <3> QED
      BY <1>8, <2>2, <3>1
  <2>4. CASE i = run[w].next
    BY <1>5, <1>8, <2>2, <2>4
  <2> QED
    BY SMTT(30), <1>4, <2>3, <2>4
<1>14. /\ paid' \in [Winners -> Nat] /\ \A x \in Winners : paid'[x] >= paid[x]
       /\ lost \subseteq lost' /\ lost' \subseteq Winners
  BY <1>1 DEF PipelineInv, PayoutTypeOK
<1>15. \A x \in Winners : x \notin lost /\ ~Shares(x) =>
           /\ paid[x] <= 1 /\ (paid[x] = 1 => row'[x] = "sent" \/ x \in run[w].mine)
           /\ x \in run[w].recs \ run[w].mine => paid[x] = 0
  BY <1>2, <1>7, BusyFacts, RecordPayments
<1>16. lost' = {} => \A i \in 1 .. Len(Rank) : Handled(w, Rank[i])'
  <2>1. lost' = {} => \A i \in 1 .. Len(Rank) : Handled(w, Rank[i])
    BY <1>1, <1>2, BusyFacts
  <2>2. \A x \in Winners : Handled(w, x) => Handled(w, x)'
    BY <1>1, <1>7, <1>9, <1>10 DEF Handled
  <2> QED
    BY <2>1, <2>2, Ranked
<1>17. RecordsHonest'
  BY <1>1, <1>2, <1>7, <1>14, HonestStep
<1>18. LedgerInv'
  <2>1. Busy(w)'
    BY <1>9, <1>10 DEF Busy, PastCheck
  <2>2. \A x \in run'[w].recs \ lost' : row'[x] = "sent" <=> x \in run'[w].noted
    BY <1>1, <1>7, <1>9, <1>10
  <2> QED
    BY <1>1, <1>2, <1>9, <1>10, <1>12, <1>13, <1>14, <1>15, <1>16, <1>17, <2>1, <2>2, BusyStep
       DEF PipelineInv
<1> QED
  BY <1>1, <1>10, <1>11, <1>18, LocksStay DEF PipelineInv

\* The loop over the results is over.
LEMMA RecordedStep ==
    ASSUME PipelineInv, NEW w \in Workers, Recorded(w)
    PROVE  PipelineInv'
<1>1. UNCHANGED <<plan, row, paid, onChain, job, dlq, lock, retry, lost, overrun, faults, ops>>
  BY DEF Recorded, rows, queue, history, bounds
<1>2. At(w) = "record" /\ run[w].at = "record" /\ Busy(w) /\ At(w) \in Labels
  BY DEF Recorded, Busy, PastCheck, At, Labels
<1>3. run[w] \in Run /\ RunSound(w) /\ LoopSound(w) /\ run[w].recs \subseteq Winners
  BY <1>2, BusyFacts
<1>4. run[w].next \in Nat /\ run[w].next > Len(Rank)
  BY <1>3 DEF Recorded, Run
<1>5. run[w].ok \subseteq run[w].recs /\ run[w].noted \subseteq run[w].recs
  BY <1>3 DEF RunSound
<1>6. \A x \in run[w].recs :
         /\ x \in run[w].ok /\ ~Shares(x) => x \in run[w].noted
         /\ run[w].ok = run[w].recs => RecordOf(w, x) \in run[w].noted
  BY SMTT(30), <1>2, <1>3, <1>4, Ranked DEF LoopSound
<1>7. /\ run' \in [Workers -> Run \cup {Idle}] /\ Moves(w) /\ Follows
      /\ ~Busy(w)' /\ RunSound(w)' /\ LoopSound(w)'
  BY <1>2, GotoSound DEF Recorded, PipelineInv, LedgerInv
<1>8. PayoutTypeOK'
  BY <1>1, <1>7 DEF Recorded, PipelineInv, PayoutTypeOK
<1>9. /\ paid' \in [Winners -> Nat] /\ \A x \in Winners : paid'[x] >= paid[x]
      /\ lost \subseteq lost' /\ lost' \subseteq Winners
  BY <1>1 DEF PipelineInv, PayoutTypeOK
<1>10. \A x \in Winners : x \notin lost /\ ~Shares(x) =>
           paid[x] <= 1 /\ (paid[x] = 1 => row[x] = "sent")
  BY <1>2, <1>6, BusyFacts, RecordPayments
<1>11. \/ status' = "payout_failed"
       \/ lost' = {} => \A x \in Winners \ plan.blocked : \E v \in Winners :
                            plan.address[v] = plan.address[x] /\ row'[v] = "sent"
  <2> SUFFICES ASSUME status' # "payout_failed", lost' = {}, NEW x \in Winners \ plan.blocked
               PROVE  \E v \in Winners : plan.address[v] = plan.address[x] /\ row'[v] = "sent"
    OBVIOUS
  <2>1. run[w].ok = run[w].recs
    BY DEF Recorded
  <2>2. x \in run[w].recs \/ row[x] = "sent"
    BY <1>1, <1>2, BusyFacts, Ranked DEF Handled
  <2>3. CASE x \in run[w].recs
    <3>1. /\ RecordOf(w, x) \in run[w].recs /\ RecordOf(w, x) \in Winners
          /\ plan.address[RecordOf(w, x)] = plan.address[x]
      BY <2>3, FoundRecord DEF PipelineInv
    <3>2. RecordOf(w, x) \in run[w].noted
      BY <1>6, <2>1, <2>3
    <3>3. row[RecordOf(w, x)] = "sent"
      BY <1>1, <1>2, <3>1, <3>2, BusyFacts
    <3> QED
      BY <1>1, <3>1, <3>3
  <2> QED
    BY <1>1, <2>2, <2>3
<1>12. RecordsHonest'
  BY <1>1, <1>2, <1>9, <1>11, HonestStep
<1>13. LedgerInv'
  BY <1>1, <1>2, <1>7, <1>9, <1>10, <1>12, BusyStep DEF PipelineInv
<1> QED
  BY <1>1, <1>7, <1>8, <1>13, LocksStay DEF PipelineInv

-------------------------------------------------------------------------------
(* Failures *)

\* A process that stops leaves lost behind whom it paid and did not mark.
LEMMA CrashStep ==
    ASSUME PipelineInv, NEW w \in Workers, Crash(w)
    PROVE  PipelineInv'
<1>1. UNCHANGED <<plan, status, row, paid, onChain, job, dlq, lock, retry, overrun, ops>>
      /\ lost' = lost \cup (run[w].mine \ run[w].noted)
  BY DEF Crash, rows, queue
<1>2. run[w] \in Run /\ run[w] # Idle /\ run[w].mine \subseteq Winners
  BY RunType DEF Crash, PipelineInv, Run
<1>3. /\ run' \in [Workers -> Run \cup {Idle}] /\ Moves(w) /\ Follows
      /\ run'[w] = Idle /\ ~Busy(w)'
  BY IdleEffect DEF Crash, PipelineInv
<1>4. faults' \in 0 .. MaxFaults
  BY FaultBound DEF Crash, PipelineInv
<1>5. /\ paid' \in [Winners -> Nat] /\ \A x \in Winners : paid'[x] >= paid[x]
      /\ lost \subseteq lost' /\ lost' \subseteq Winners
  BY <1>1, <1>2 DEF PipelineInv, PayoutTypeOK
<1>6. PayoutTypeOK'
  BY <1>1, <1>3, <1>4, <1>5 DEF PipelineInv, PayoutTypeOK
<1>7. CASE Busy(w)
  <2>1. run[w].mine \subseteq run[w].recs
    BY <1>7, BusyFacts DEF RunSound
  <2>2. \A x \in Winners : x \notin lost' /\ ~Shares(x) =>
            paid[x] <= 1 /\ (paid[x] = 1 => row[x] = "sent")
    BY <1>1, <1>7, <2>1, BusyFacts
  <2>3. RecordsHonest'
    BY <1>1, <1>5, <1>7, HonestStep
  <2> QED
    BY <1>1, <1>3, <1>5, <1>6, <1>7, <2>2, <2>3, BusyStep, LocksStay DEF PipelineInv
<1>8. CASE ~Busy(w)
  <2>1. LedgerInv'
    BY <1>1, <1>3, <1>5, <1>8, QuietStep DEF PipelineInv
  <2> QED
    BY <1>1, <1>3, <1>6, <2>1, LocksStay DEF PipelineInv
<1> QED
  BY <1>7, <1>8

\* How a run leaves when an await throws, and what BullMQ makes of it.
LEMMA ThrowLocks ==
    ASSUME PipelineInv, NEW w \in Workers, At(w) \in Labels, UNCHANGED <<lock, overrun>>,
           \/ run[w].batch /\ Goto(w, "unlock") /\ UNCHANGED queue
           \/ /\ ~run[w].batch /\ run' = [run EXCEPT ![w] = Idle]
              /\ IF Owns(w) THEN AttemptFails(TRUE) ELSE UNCHANGED queue
    PROVE  /\ run' \in [Workers -> Run \cup {Idle}] /\ Moves(w) /\ ~Busy(w)'
           /\ run'[w] # Idle => RunSound(w)' /\ LoopSound(w)'
           /\ job' \in Job /\ dlq' \in {"none", "due", "waiting", "lost"} /\ LockInv'
<1>1. CASE run[w].batch /\ Goto(w, "unlock") /\ UNCHANGED queue
  <2>1. /\ run' \in [Workers -> Run \cup {Idle}] /\ Moves(w) /\ Follows
        /\ ~Busy(w)' /\ RunSound(w)' /\ LoopSound(w)'
    BY <1>1, GotoSound DEF PipelineInv, LedgerInv
  <2>2. UNCHANGED <<job, dlq>>
    BY <1>1 DEF queue
  <2>3. LockInv'
    BY <2>1, <2>2, LocksStay DEF PipelineInv
  <2> QED
    BY <2>1, <2>2, <2>3 DEF PipelineInv, PayoutTypeOK
<1>2. CASE /\ ~run[w].batch /\ run' = [run EXCEPT ![w] = Idle]
           /\ IF Owns(w) THEN AttemptFails(TRUE) ELSE UNCHANGED queue
  <2>1. /\ run' \in [Workers -> Run \cup {Idle}] /\ Moves(w) /\ Follows
        /\ run'[w] = Idle /\ ~Busy(w)'
    BY <1>2, IdleEffect DEF PipelineInv
  <2>2. CASE Owns(w)
    <3>1. /\ job' \in Job /\ dlq' \in {"none", "due", "waiting", "lost"}
          /\ job'.state \in {"waiting", "active"} => job'.attempts < MaxAttempts
      BY <1>2, <2>2, AttemptFailsEffect DEF PipelineInv, Owns
    <3>2. ~overrun => \A v \in Workers : run'[v] # Idle => run'[v].batch /\ lock
      BY <2>1, <2>2 DEF PipelineInv, LockInv, Holds, Owns, Moves
    <3>3. ~overrun => \A v \in Workers : run'[v] # Idle => Holds(v)'
      BY <3>2 DEF Holds
    <3>4. LockInv'
      BY <2>1, <3>1, <3>3 DEF PipelineInv, LockInv, RunsAlone, Follows
    <3> QED
      BY <2>1, <3>1, <3>4
  <2>3. CASE ~Owns(w)
    <3>1. UNCHANGED <<job, dlq>>
      BY <1>2, <2>3 DEF queue
    <3>2. LockInv'
      BY <2>1, <3>1, LocksStay DEF PipelineInv
    <3> QED
      BY <2>1, <3>1, <3>2 DEF PipelineInv, PayoutTypeOK
  <2> QED
    BY <2>2, <2>3
<1> QED
  BY <1>1, <1>2

\* An await outside the escrow try block throws.
LEMMA ThrowsStep ==
    ASSUME PipelineInv, NEW w \in Workers, Throws(w)
    PROVE  PipelineInv'
<1>1. UNCHANGED <<plan, status, onChain, lock, retry, overrun, ops>>
  BY DEF Throws
<1>2. At(w) \in {"check", "create", "submit", "record"} /\ At(w) \in Labels /\ run[w].at = At(w)
  BY DEF Throws, Labels, At
<1>3. run[w] \in Run /\ RunSound(w) /\ run[w] # Idle
  BY <1>2, RunType DEF PipelineInv, LedgerInv, RunsSound
<1>4. /\ run' \in [Workers -> Run \cup {Idle}] /\ Moves(w) /\ ~Busy(w)'
      /\ run'[w] # Idle => RunSound(w)' /\ LoopSound(w)'
      /\ job' \in Job /\ dlq' \in {"none", "due", "waiting", "lost"} /\ LockInv'
  BY <1>1, <1>2, ThrowLocks DEF Throws
<1>5. PICK some \in SUBSET run[w].recs :
        /\ At(w) # "submit" => some = {}
        /\ Pay(w, some)
        /\ \/ /\ UNCHANGED row
              /\ lost' = lost \cup some \cup (run[w].mine \ run[w].noted)
           \/ /\ At(w) = "record"
              /\ \E u \in run[w].recs :
                    /\ RecordResult(w, u)
                    /\ lost' = lost \cup (run[w].mine \ NotedWith(w, u))
  BY DEF Throws
<1>6. /\ paid' \in [Winners -> Nat]
      /\ \A u \in Winners : paid[u] \in Nat /\ paid'[u] >= paid[u]
      /\ \A u \in Winners : paid'[u] = IF u \in some THEN paid[u] + 1 ELSE paid[u]
  BY <1>5, PayEffect DEF PipelineInv
<1>7. faults' \in 0 .. MaxFaults
  BY FaultBound DEF Throws, PipelineInv
<1>8. /\ run[w].mine \subseteq run[w].recs /\ run[w].recs \subseteq Winners
      /\ At(w) = "check" => run[w].recs = {}
  BY <1>2, <1>3 DEF RunSound, Run
<1>9. lost \subseteq lost' /\ lost' \subseteq Winners
  BY <1>5, <1>8 DEF PipelineInv, PayoutTypeOK
<1>10. CASE At(w) = "check"
  <2>1. UNCHANGED <<row, lost>> /\ some = {}
    BY <1>5, <1>8, <1>10
  <2>2. paid' = paid
    BY <1>6, <2>1 DEF PipelineInv, PayoutTypeOK
  <2>3. PayoutTypeOK'
    BY <1>1, <1>4, <1>7, <2>1, <2>2 DEF PipelineInv, PayoutTypeOK
  <2>4. ~Busy(w)
    BY <1>10 DEF Busy, PastCheck
  <2>5. LedgerInv'
    BY <1>1, <1>4, <1>9, <2>1, <2>2, <2>4, QuietStep DEF PipelineInv
  <2> QED
    BY <1>4, <2>3, <2>5 DEF PipelineInv
<1>11. CASE At(w) # "check"
  <2>1. Busy(w)
    BY <1>2, <1>11 DEF Busy, PastCheck
  <2>2. /\ row' \in [Winners -> {"none", "pending", "sent", "failed"}]
        /\ \A x \in Winners : row'[x] = "sent" =>
              \/ row[x] = "sent"
              \/ \E v \in Winners : plan.address[v] = plan.address[x] /\ paid'[v] > 0
        /\ \A x \in Winners : x \notin lost' /\ ~Shares(x) =>
              paid'[x] <= 1 /\ (paid'[x] = 1 => row'[x] = "sent")
    <3>1. CASE UNCHANGED row /\ lost' = lost \cup some \cup (run[w].mine \ run[w].noted)
      <4>1. \A x \in Winners : x \notin lost' /\ ~Shares(x) =>
                paid'[x] <= 1 /\ (paid'[x] = 1 => row'[x] = "sent")
        BY <1>6, <1>8, <2>1, <3>1, BusyFacts
      <4> QED
        BY <3>1, <4>1 DEF PipelineInv, PayoutTypeOK
    <3>2. ASSUME At(w) = "record", NEW u \in run[w].recs, RecordResult(w, u),
                 lost' = lost \cup (run[w].mine \ NotedWith(w, u))
          PROVE  <2>2!1 /\ <2>2!2 /\ <2>2!3
      <4>1. paid' = paid
        BY <1>5, <1>6, <3>2 DEF PipelineInv, PayoutTypeOK
      <4>2. /\ row' \in [Winners -> {"none", "pending", "sent", "failed"}]
            /\ \A x \in Winners : x \notin run[w].recs => row'[x] = row[x]
            /\ \A x \in run[w].recs \ lost : row'[x] = "sent" <=> x \in NotedWith(w, u)
            /\ \A x \in Winners : row'[x] = "sent" =>
                  \/ row[x] = "sent"
                  \/ \E v \in Winners : plan.address[v] = plan.address[x] /\ paid[v] > 0
        BY <3>2, RecordEffect
      <4>3. \A x \in Winners : x \notin lost' /\ ~Shares(x) =>
                paid[x] <= 1 /\ (paid[x] = 1 => row'[x] = "sent")
        BY <2>1, <3>2, <4>2, BusyFacts, RecordPayments
      <4> QED
        BY <4>1, <4>2, <4>3
    <3> QED
      BY <1>5, <3>1, <3>2
  <2>3. PayoutTypeOK'
    BY <1>1, <1>4, <1>6, <1>7, <1>9, <2>2 DEF PipelineInv, PayoutTypeOK
  <2>4. RecordsHonest'
    BY <1>1, <1>6, <1>9, <2>1, <2>2, HonestStep
  <2>5. LedgerInv'
    BY <1>1, <1>4, <1>6, <1>9, <2>1, <2>2, <2>4, BusyStep DEF PipelineInv
  <2> QED
    BY <1>4, <2>3, <2>5 DEF PipelineInv
<1> QED
  BY <1>10, <1>11

-------------------------------------------------------------------------------
(* The theorems *)

\* The invariant holds before the challenge ends.
LEMMA PipelineInit ==
    ASSUME Init
    PROVE  PipelineInv
<1>1. \A w \in Workers : run[w] = Idle /\ At(w) = "idle" /\ ~Busy(w)
  BY DEF Init, At, Idle, Busy, PastCheck
<1>2. PayoutTypeOK
  <2>1. faults \in 0 .. MaxFaults /\ ops \in 0 .. MaxOps
    BY DEF Init
  <2>2. plan \in Plan /\ job \in Job /\ run \in [Workers -> Run \cup {Idle}]
    BY AbsentJob DEF Init
  <2>3. paid \in [Winners -> Nat] /\ row \in [Winners -> {"none", "pending", "sent", "failed"}]
        /\ retry \in [Winners -> {"no", "read", "written", "done"}]
    BY DEF Init
  <2> QED
    BY <2>1, <2>2, <2>3 DEF Init, PayoutTypeOK
<1>3. LockInv
  BY <1>1, AbsentJob DEF Init, LockInv, RunsAlone
<1>4. RunsSound /\ Alone /\ Underway /\ InStep /\ Complete
  BY <1>1 DEF RunsSound, Alone, Underway, InStep, Complete
<1>5. PaymentsSound
  BY <1>1 DEF Init, PaymentsSound, Unrepeated
<1>6. RecordsHonest
  BY DEF Init, RecordsHonest, SentMeansPaid, SettledMeansSent
<1> QED
  BY <1>2, <1>3, <1>4, <1>5, <1>6 DEF PipelineInv, LedgerInv

\* Every step keeps the invariant.
LEMMA PipelineStep ==
    ASSUME PipelineInv, [Next]_vars
    PROVE  PipelineInv'
<1>1. CASE UNCHANGED vars
  <2>1. UNCHANGED <<plan, status, row, paid, onChain, job, dlq, lock, run, retry, lost, overrun,
                    faults, ops>>
    BY <1>1 DEF vars
  <2>2. PayoutTypeOK' /\ Follows
    BY <2>1 DEF PipelineInv, PayoutTypeOK, Follows
  <2> QED
    BY <2>1, <2>2, LedgerStays, LocksStay DEF PipelineInv
<1>2. CASE End
  BY <1>2, EndStep
<1>3. CASE Admin
  BY <1>3, AdminSettleStep, RetryReadStep, RetryWriteStep, RetryEnqueueStep DEF Admin
<1>4. CASE Queues
  BY <1>4, StallStep, LockExpiresStep, TrimStep, DeadLetterStep, ReconcileStep DEF Queues
<1>5. ASSUME NEW w \in Workers, StartJob(w) \/ StartBatch(w)
      PROVE  PipelineInv'
  BY <1>5, StartJobStep, StartBatchStep
<1>6. ASSUME NEW w \in Workers, Step(w)
      PROVE  PipelineInv'
  BY <1>6, ListStep, CheckStep, CreateStep, CreatedStep, EscrowSettlesStep, NoteStep, NotedStep,
     SubmitStep, RecordStep, RecordedStep, FinishStep, UnlockStep DEF Step
<1>7. ASSUME NEW w \in Workers, Failure(w)
      PROVE  PipelineInv'
  BY <1>7, EscrowFailsStep, NoteFailsStep, ThrowsStep, CrashStep DEF Failure
<1> QED
  BY <1>1, <1>2, <1>3, <1>4, <1>5, <1>6, <1>7 DEF Next

\* The inductive invariant of the payout: what keeps runs apart, and what a run past
\* the status check knows about rows and payments.
THEOREM PipelineInvariance == Spec => []PipelineInv
<1>1. Init => PipelineInv
  BY PipelineInit
<1>2. PipelineInv /\ [Next]_vars => PipelineInv'
  BY PipelineStep
<1> QED
  BY <1>1, <1>2, PTL DEF Spec

\* Type correctness; in particular no job is tried more often than attempts allows,
\* whatever mixture of throws and stalls it goes through.
THEOREM PayoutTypeCorrect == Spec => []PayoutTypeOK
<1>1. PipelineInv => PayoutTypeOK
  BY DEF PipelineInv
<1> QED
  BY <1>1, PipelineInvariance, PTL

\* A winner with an address of their own is paid a second time only when an earlier
\* payment went unrecorded (processPayout's idempotency check).
THEOREM PaidTwiceOnlyIfLostAlways == Spec => []PaidTwiceOnlyIfLost
<1>1. PipelineInv => PaidTwiceOnlyIfLost
  BY DEF PipelineInv, LedgerInv, PaymentsSound, Unrepeated, PaidTwiceOnlyIfLost, PayoutTypeOK
<1> QED
  BY <1>1, PipelineInvariance, PTL

\* Rows marked sent were paid when there is no escrow, and a settled challenge leaves
\* nobody out.
THEOREM RecordsHonestAlways == Spec => []RecordsHonest
<1>1. PipelineInv => RecordsHonest
  BY DEF PipelineInv, LedgerInv
<1> QED
  BY <1>1, PipelineInvariance, PTL

\* The job id and the batch lock keep runs of one kind apart as long as no run outlives
\* its lock.
THEOREM RunsAloneAlways == Spec => []RunsAlone
<1>1. PipelineInv => RunsAlone
  BY DEF PipelineInv, LockInv
<1> QED
  BY <1>1, PipelineInvariance, PTL

KeepsSent(u) == row'[u] = "sent" \/ u \in lost' \/ Shares(u) \/ TakenBack(u)

\* A result written by the run's own loop takes back no mark but its own.
LEMMA ResultKeepsSent ==
    ASSUME PipelineInv, NEW w \in Workers, At(w) = "record", NEW x \in run[w].recs,
           RecordResult(w, x), NEW u \in Winners, row[u] = "sent", lost \subseteq lost'
    PROVE  KeepsSent(u)
<1>1. Busy(w)
  BY DEF Busy, PastCheck
<1>2. run[w].recs \subseteq Winners /\ x \in Winners
  BY <1>1, BusyFacts
<1>3. /\ RecordOf(w, x) \in run[w].recs /\ RecordOf(w, x) \in Winners
      /\ RecordOf(w, x) # x => Shares(RecordOf(w, x))
  BY <1>2, FoundRecord DEF PipelineInv
<1>4. /\ u # RecordOf(w, x) => row'[u] = row[u]
      /\ x \in run[w].ok => row'[RecordOf(w, x)] = "sent"
  BY <1>3 DEF RecordResult, PipelineInv, PayoutTypeOK
<1>5. CASE u = RecordOf(w, x) /\ x \notin run[w].ok /\ u \notin lost /\ ~Shares(u)
  <2>1. u = x /\ u \in run[w].noted
    BY <1>1, <1>3, <1>5, BusyFacts
  <2> QED
    BY <1>5, <2>1 DEF KeepsSent, TakenBack
<1> QED
  BY <1>4, <1>5 DEF KeepsSent

\* A 'sent' row is touched only in the ways KeepsSent names.
LEMMA RowKept ==
    ASSUME PipelineInv, [Next]_vars, NEW u \in Winners, row[u] = "sent"
    PROVE  KeepsSent(u)
<1>1. CASE row' = row
  BY <1>1 DEF KeepsSent
<1>2. ASSUME NEW v \in Winners, RetryWrite(v)
      PROVE  KeepsSent(u)
  BY <1>2 DEF RetryWrite, KeepsSent, PipelineInv, PayoutTypeOK
<1>3. CASE Reconcile
  BY <1>3 DEF Reconcile, Stranded, KeepsSent, PipelineInv, PayoutTypeOK
<1>4. ASSUME NEW w \in Workers, Create(w)
      PROVE  KeepsSent(u)
  BY <1>4 DEF Create, Upsert, KeepsSent, PipelineInv, PayoutTypeOK
<1>5. ASSUME NEW w \in Workers, Note(w) \/ NoteFails(w)
      PROVE  KeepsSent(u)
  BY <1>5 DEF Note, NoteFails, KeepsSent, PipelineInv, PayoutTypeOK
<1>6. ASSUME NEW w \in Workers, Record(w)
      PROVE  KeepsSent(u)
  <2>1. CASE row' = row
    BY <2>1 DEF KeepsSent
  <2>2. At(w) = "record" /\ lost' = lost
    BY <1>6 DEF Record, history
  <2>3. row' # row => \E x \in run[w].recs : RecordResult(w, x)
    BY <1>6 DEF Record
  <2> QED
    BY <2>1, <2>2, <2>3, ResultKeepsSent
<1>7. ASSUME NEW w \in Workers, Throws(w)
      PROVE  KeepsSent(u)
  <2>1. CASE row' = row
    BY <2>1 DEF KeepsSent
  <2>2. row' # row => /\ At(w) = "record" /\ lost \subseteq lost'
                      /\ \E x \in run[w].recs : RecordResult(w, x)
    BY <1>7 DEF Throws
  <2> QED
    BY <2>1, <2>2, ResultKeepsSent
<1>8. CASE UNCHANGED vars \/ End \/ AdminSettle \/ Stall \/ LockExpires \/ Trim \/ Forward \/ DlqFails
  <2>1. row' = row
    BY <1>8 DEF vars, End, AdminSettle, Stall, LockExpires, Trim, Forward, DlqFails, rows
  <2> QED
    BY <1>1, <2>1
<1>9. ASSUME NEW v \in Winners, RetryRead(v) \/ RetryEnqueue(v)
      PROVE  KeepsSent(u)
  BY <1>1, <1>9 DEF RetryRead, RetryEnqueue, rows
<1>10. ASSUME NEW w \in Workers,
              \/ StartJob(w) \/ StartBatch(w) \/ List(w) \/ Check(w) \/ Created(w) \/ EscrowSettles(w)
              \/ Noted(w) \/ Submit(w) \/ Recorded(w) \/ Finish(w) \/ Unlock(w)
              \/ EscrowFails(w) \/ Crash(w)
       PROVE  KeepsSent(u)
  <2>1. row' = row
    BY <1>10 DEF StartJob, StartBatch, List, Check, Created, EscrowSettles, Noted, Submit,
       Recorded, Finish, Unlock, EscrowFails, Crash, rows
  <2> QED
    BY <1>1, <2>1
<1> QED
  BY <1>2, <1>3, <1>4, <1>5, <1>6, <1>7, <1>8, <1>9, <1>10 DEF Next, Admin, Queues, Step, Failure

\* A row that says 'sent' goes on saying so: only an admin's retry, overlapping runs, a
\* shared address, or the run itself after a fallback from escrow take it back.
THEOREM SentStaysSentAlways == Spec => SentStaysSent
<1> DEFINE A == \A u \in Winners : row[u] = "sent" =>
                   row'[u] = "sent" \/ u \in lost' \/ Shares(u) \/ TakenBack(u)
<1>1. PipelineInv /\ [Next]_vars => [A]_vars
  BY RowKept DEF KeepsSent
<1>2. Spec => [][Next]_vars
  BY DEF Spec
<1>3. SentStaysSent <=> [][A]_vars
  BY DEF SentStaysSent
<1> HIDE DEF A
<1> QED
  BY <1>1, <1>2, <1>3, PipelineInvariance, PTL

===============================================================================
