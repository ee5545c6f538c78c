--------------------------- MODULE SessionLifecycle ---------------------------
(***************************************************************************)
(* One player in one challenge: the routes of routes/sessions.ts, the      *)
(* middleware in front of them, the queries they run on game_sessions and  *)
(* the timeout sweep.  A player's requests overlap (several tabs, client   *)
(* retries), so a request is interrupted between what it reads and every   *)
(* write that depends on it.  UNIQUE (user_id, challenge_id) leaves at     *)
(* most one row, but an abandoned row is replaced by a new one with a new  *)
(* id, while requests still hold the old id.                               *)
(*                                                                         *)
(* An answer is right, worth one point, or wrong, worth none; a null       *)
(* answer (the time ran out) is stored as no answer.  The last round ends  *)
(* the session.                                                            *)
(***************************************************************************)
EXTENDS Integers, FiniteSets, FiniteSetsExt

CONSTANTS Slots,         \* concurrent requests
          NRounds,       \* rounds of a session (3 in the code)
          MaxSessions    \* bound: rows ever inserted

ASSUME SessionAssumption == {NRounds, MaxSessions} \subseteq Nat \ {0}

VARIABLES row,           \* the row of game_sessions, or NoRow
          ids,           \* ids given out so far
          unlock,        \* warmup:unlock:<id> per id: none, running, over
          tokens,        \* ids with a challenge-token in Redis
          req,           \* the player's requests
          counted,       \* history: times each id was added to users.total_score
          exposed,       \* history of the row: its warm-up minimum has elapsed
          early,         \* history of the row: completed without an unlock key
          late,          \* history of the row: an answer recorded after its end
          reopened       \* history: a start turned a completed row active

vars == <<row, ids, unlock, tokens, req, counted, exposed, early, late, reopened>>
history == <<counted, exposed, early, late, reopened>>

Ids == 1 .. MaxSessions
Rounds == 1 .. NRounds
NoAnswer == "none"
Answers == {"right", "wrong", NoAnswer}
NoRow == [id |-> 0]
Fresh(i) ==
    [id |-> i, status |-> "warmup", warm |-> FALSE, started |-> FALSE,
     done |-> FALSE, ans |-> [r \in Rounds |-> NoAnswer], total |-> 0, hmac |-> -1]
Row == [id : Ids, status : {"warmup", "active", "completed", "abandoned"},
        warm : BOOLEAN,          \* warmup_completed_at
        started : BOOLEAN,       \* challenge_started_at
        done : BOOLEAN,          \* completed_at
        ans : [Rounds -> Answers], total : 0 .. NRounds,
        hmac : -1 .. NRounds]    \* the total integrity_hmac was computed from
Free == [at |-> "free"]
Request == [at : {"replace", "unlock", "warm", "activate", "delToken", "record",
                  "finish", "seal"},
            id : Ids, round : Rounds, ans : Answers, total : 0 .. NRounds]

At(s) == req[s].at
Done(s) == req' = [req EXCEPT ![s] = Free]
Begin(s, label, i) ==
    req' = [req EXCEPT ![s] = [at |-> label, id |-> i, round |-> 1,
                               ans |-> NoAnswer, total |-> 0]]
Mine(s) == row.id = req[s].id           \* WHERE id = $1 finds the row
Points(ans) == Cardinality({r \in Rounds : ans[r] = "right"})

Init ==
    /\ row = NoRow
    /\ ids = 0
    /\ unlock = [i \in Ids |-> "none"]
    /\ tokens = {}
    /\ req = [s \in Slots |-> Free]
    /\ counted = [i \in Ids |-> 0]
    /\ exposed = FALSE
    /\ early = FALSE
    /\ late = FALSE
    /\ reopened = FALSE

-------------------------------------------------------------------------------
(* POST /sessions/:challengeId/warmup-start *)

Insert ==
    /\ ids < MaxSessions
    /\ ids' = ids + 1
    /\ row' = Fresh(ids + 1)
    /\ exposed' = FALSE
    /\ early' = FALSE
    /\ late' = FALSE

\* claimSession: INSERT ... ON CONFLICT DO NOTHING; then getSession, to go on with
\* the row or to replace an abandoned one.
Claim(s) ==
    /\ req[s] = Free
    /\ \/ /\ row = NoRow
          /\ Insert
          /\ Begin(s, "unlock", ids + 1)
       \/ /\ row # NoRow
          /\ Begin(s, IF row.status = "abandoned" THEN "replace" ELSE "unlock", row.id)
          /\ UNCHANGED <<row, ids, exposed, early, late>>
    /\ UNCHANGED <<unlock, tokens, counted, reopened>>

\* WITH del AS (DELETE ... status = 'abandoned') INSERT ... WHERE EXISTS del, or,
\* when another request was faster, getSession.
Replace(s) ==
    /\ At(s) = "replace"
    /\ \/ /\ row.status = "abandoned"
          /\ Insert
          /\ Begin(s, "unlock", ids + 1)
       \/ /\ row.status # "abandoned"
          /\ Begin(s, "unlock", row.id)
          /\ UNCHANGED <<row, ids, exposed, early, late>>
    /\ UNCHANGED <<unlock, tokens, counted, reopened>>

\* The filter of abandonSession, markAbandonedSessions and errorHandler.
Unfinished == row # NoRow /\ row.status \in {"warmup", "active"}

Abandoned == [row EXCEPT !.status = "abandoned", !.done = TRUE]

\* warmup:unlock:<id> is stored.  Before that a refused device, a challenge that is
\* not active or a failing query may have led to errorHandler, which abandons
\* req.session; only warmup-start sets it.
SetUnlock(s) ==
    /\ At(s) = "unlock"
    /\ \/ /\ unlock' = [unlock EXCEPT ![req[s].id] = "running"]
          /\ UNCHANGED row
       \/ /\ row' = IF Mine(s) /\ Unfinished THEN Abandoned ELSE row
          /\ UNCHANGED unlock
    /\ Done(s)
    /\ UNCHANGED <<ids, tokens, history>>

\* WARMUP_MIN_SECONDS pass.
Elapse(i) ==
    /\ unlock[i] = "running"
    /\ unlock' = [unlock EXCEPT ![i] = "over"]
    /\ exposed' = (exposed \/ row.id = i)
    /\ UNCHANGED <<row, ids, tokens, req, counted, early, late, reopened>>

-------------------------------------------------------------------------------
(* POST /sessions/:challengeId/warmup-complete *)

\* Fault: a stored time is taken for a time that is over.
GetUnlockExists(s) ==
    /\ req[s] = Free
    /\ row # NoRow
    /\ Begin(s, "warm", row.id)
    /\ early' = (early \/ unlock[row.id] = "none")
    /\ UNCHANGED <<row, ids, unlock, tokens, counted, exposed, late, reopened>>

\* getSession and the unlock time: 400 WARMUP_TOO_FAST while it runs; without a
\* key there is no check.
GetUnlock(s) ==
    /\ req[s] = Free
    /\ row # NoRow
    /\ unlock[row.id] # "running"
    /\ Begin(s, "warm", row.id)
    /\ early' = (early \/ unlock[row.id] = "none")
    /\ UNCHANGED <<row, ids, unlock, tokens, counted, exposed, late, reopened>>

\* markWarmupCompleted: WHERE id = $1 AND warmup_completed_at IS NULL, or throw;
\* then the challenge token, unless the request breaks off before.
MarkWarm(s) ==
    /\ At(s) = "warm"
    /\ \/ /\ Mine(s)
          /\ ~row.warm
          /\ row' = [row EXCEPT !.warm = TRUE]
          /\ tokens' \in {tokens, tokens \cup {row.id}}
       \/ /\ Mine(s) => row.warm
          /\ UNCHANGED <<row, tokens>>
    /\ Done(s)
    /\ UNCHANGED <<ids, unlock, history>>

-------------------------------------------------------------------------------
(* POST /sessions/:challengeId/start *)

\* The token names a session id; getSession must return that session.  A token
\* lives ten minutes; one that expired is one that is not used any more.
StartRead(s) ==
    /\ req[s] = Free
    /\ row.id \in tokens
    /\ Begin(s, "activate", row.id)
    /\ UNCHANGED <<row, ids, unlock, tokens, history>>

\* markChallengeStarted: status = 'active', whatever it was
MarkStarted(s) ==
    /\ At(s) = "activate"
    /\ row' = IF Mine(s) THEN [row EXCEPT !.started = TRUE, !.status = "active"] ELSE row
    /\ reopened' = (reopened \/ (Mine(s) /\ row.status = "completed"))
    /\ Begin(s, "delToken", req[s].id)
    /\ UNCHANGED <<ids, unlock, tokens, counted, exposed, early, late>>

DelToken(s) ==
    /\ At(s) = "delToken"
    /\ tokens' = tokens \ {req[s].id}
    /\ Done(s)
    /\ UNCHANGED <<row, ids, unlock, history>>

-------------------------------------------------------------------------------
(* POST /sessions/:challengeId/answer/:round *)

\* getSession and the checks on the row it returned; a request that fails them,
\* or repeats the last round of an ended session, changes nothing.
AnswerRead(s) ==
    /\ req[s] = Free
    /\ row # NoRow
    /\ row.started
    /\ ~row.done
    /\ \E r \in Rounds, a \in Answers :
        /\ row.ans[r] = NoAnswer
        /\ req' = [req EXCEPT ![s] = [at |-> "record", id |-> row.id, round |-> r,
                                      ans |-> a, total |-> 0]]
    /\ UNCHANGED <<row, ids, unlock, tokens, history>>

\* recordRoundScore: upsert of the round and the columns of the row.  A row that
\* is gone is a foreign key error.
Record(s) ==
    /\ At(s) = "record"
    /\ \/ /\ Mine(s)
          /\ row' = [row EXCEPT !.ans[req[s].round] = req[s].ans]
          /\ late' = (late \/ row.done)
          /\ IF req[s].round = NRounds THEN Begin(s, "finish", row.id) ELSE Done(s)
       \/ /\ ~Mine(s)
          /\ Done(s)
          /\ UNCHANGED <<row, late>>
    /\ UNCHANGED <<ids, unlock, tokens, counted, exposed, early, reopened>>

End(s, total) ==
    /\ row' = [row EXCEPT !.done = TRUE, !.status = "completed", !.total = total]
    /\ counted' = [counted EXCEPT ![row.id] = @ + 1]
    /\ req' = [req EXCEPT ![s].at = "seal", ![s].total = total]

\* Fault: no look at completed_at under the lock.
FinishAgain(s) ==
    /\ At(s) = "finish"
    /\ Mine(s)
    /\ End(s, Points(row.ans))
    /\ UNCHANGED <<ids, unlock, tokens, exposed, early, late, reopened>>

\* finishSession, in a transaction that locks the row
Finish(s) ==
    /\ At(s) = "finish"
    /\ \/ /\ Mine(s)
          /\ ~row.done
          /\ End(s, Points(row.ans))
       \/ /\ Mine(s)                       \* ended before: return the row
          /\ row.done
          /\ req' = [req EXCEPT ![s].at = "seal", ![s].total = row.total]
          /\ UNCHANGED <<row, counted>>
       \/ /\ ~Mine(s)                      \* throw "Session not found"
          /\ Done(s)
          /\ UNCHANGED <<row, counted>>
    /\ UNCHANGED <<ids, unlock, tokens, exposed, early, late, reopened>>

\* storeSessionHmac(session.id, HMAC of the total and the end time finishSession
\* returned).  No statement changes completed_at once it is set.  The streak, the
\* badges, the caches and the revoked bearer token that follow are other state.
Seal(s) ==
    /\ At(s) = "seal"
    /\ row' = IF Mine(s) THEN [row EXCEPT !.hmac = req[s].total] ELSE row
    /\ Done(s)
    /\ UNCHANGED <<ids, unlock, tokens, history>>

-------------------------------------------------------------------------------
(* Ways out *)

\* DELETE /sessions/:challengeId
Quit ==
    /\ Unfinished
    /\ row' = Abandoned
    /\ UNCHANGED <<ids, unlock, tokens, req, history>>

\* markAbandonedSessions: two hours may have passed since any step.
Sweep ==
    /\ Unfinished
    /\ row' = Abandoned
    /\ UNCHANGED <<ids, unlock, tokens, req, history>>

\* The process stops, or an await of the request throws.
Break(s) ==
    /\ req[s] # Free
    /\ Done(s)
    /\ UNCHANGED <<row, ids, unlock, tokens, history>>

-------------------------------------------------------------------------------
Step(s) ==
    \/ Replace(s) \/ SetUnlock(s) \/ MarkWarm(s) \/ MarkStarted(s) \/ DelToken(s)
    \/ Record(s) \/ Finish(s) \/ Seal(s)

Next ==
    \/ \E s \in Slots : \/ Claim(s) \/ GetUnlock(s) \/ StartRead(s) \/ AnswerRead(s)
                        \/ Step(s) \/ Break(s)
    \/ \E i \in Ids : Elapse(i)
    \/ Quit \/ Sweep

Spec == Init /\ [][Next]_vars

-------------------------------------------------------------------------------
(* Properties *)

\* The row, the Redis keys and the requests keep their types.
SessionTypeOK ==
    /\ row \in Row \cup {NoRow}
    /\ ids \in 0 .. MaxSessions
    /\ unlock \in [Ids -> {"none", "running", "over"}]
    /\ tokens \subseteq Ids
    /\ req \in [Slots -> Request \cup {Free}]
    /\ counted \in [Ids -> Nat]
    /\ {exposed, early, late, reopened} \subseteq BOOLEAN

\* However many requests finish a session, it counts once for users.total_score
\* and challenges_played (finishSession locks the row and looks at completed_at).
CountedOnce == \A i \in Ids : counted[i] <= 1

\* "1 competitive session per account per challenge": a player counts with a
\* second session only after a late or repeated start turned a completed
\* session active again.
PlayedOnce == Cardinality({i \in Ids : counted[i] > 0}) <= 1 \/ reopened

\* The leaderboard's total is the sum of the rounds that are stored, unless an
\* answer that was under way when the session ended was stored after it.
TotalIsSum ==
    row # NoRow /\ row.status = "completed" =>
        row.total = Points(row.ans) \/ late

\* A stored HMAC is the one of the stored total: a mismatch makes processPayout
\* throw and nobody of the challenge is paid.
SealMatches == row # NoRow /\ row.hmac # -1 => row.hmac = row.total

\* A session that was quit or timed out has not counted, and one that has counted
\* is not abandoned, unless a start reopened it.
AbandonedNeverCounted ==
    row # NoRow /\ row.status = "abandoned" => counted[row.id] = 0 \/ reopened

\* Nobody starts without the warm-up minimum ("server validates >= 20s elapsed",
\* README.md), unless warmup-complete came before warmup-start had stored
\* the unlock time.
WarmupRespected ==
    row # NoRow /\ row.started => exposed \/ early

\* What the leaderboard and the payout read of a session is true: it counts
\* once, its total is that of its rounds and its seal is that of its total.
CountedTruly == CountedOnce /\ TotalIsSum /\ SealMatches

\* A session is played as the rules say: once, not after it was given up, and
\* not before the warm-up is over.
FairPlay == PlayedOnce /\ AbandonedNeverCounted /\ WarmupRespected
===============================================================================
