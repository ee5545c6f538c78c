------------------------ MODULE SessionLifecycleProofs ------------------------
(***************************************************************************)
(* One player's session for any number of overlapping requests, rounds and *)
(* replaced rows.                                                          *)
(*                                                                         *)
(* What the leaderboard reads is true because of facts about rows that are *)
(* gone as well: an id is given out once, so a request that still holds    *)
(* the id of a replaced row finds nothing (IdsFresh), and a request that   *)
(* is about to write carries what the row said when it was read and cannot *)
(* have changed since (Carried).                                           *)
(***************************************************************************)
EXTENDS MCPlayAndPay, BatchPayoutProofs, FiniteSetTheorems, TLAPS

Played == row # NoRow

\* Ids count up: no key, token or count belongs to an id not given out yet.
IdsFresh ==
    /\ IF Played THEN row.id = ids ELSE ids = 0
    /\ tokens \subseteq 1 .. ids
    /\ \A i \in Ids : i > ids => unlock[i] = "none" /\ counted[i] = 0

\* The warm-up is behind the player, or was never checked.
Warmed == exposed \/ early

\* What the columns of the row say of each other.
RowSound ==
    Played =>
        /\ row.status = "completed" => row.done
        /\ ~row.done => counted[row.id] = 0 /\ row.hmac = -1
        /\ unlock[row.id] = "over" => exposed
        /\ row.id \in tokens => Warmed

\* What a request still knows of the row when its next statement runs.
Carried ==
    \A s \in Slots : req[s] # Free =>
        /\ Played /\ req[s].id <= ids
        /\ Mine(s) /\ At(s) \in {"warm", "activate"} => Warmed
        /\ Mine(s) /\ At(s) = "seal" => row.done /\ req[s].total = row.total

\* As long as no start reopens a session, only a completed row has counted.
OnlyCompletedCounts ==
    ~reopened => \A i \in Ids : counted[i] > 0 =>
        Played /\ i = row.id /\ row.status = "completed"

SessionInv ==
    /\ SessionTypeOK /\ IdsFresh /\ RowSound /\ Carried
    /\ CountedOnce /\ TotalIsSum /\ SealMatches
    /\ OnlyCompletedCounts /\ WarmupRespected

USE SessionAssumption

-------------------------------------------------------------------------------
(* Facts the actions share *)

\* The number of right answers is a number of rounds.
LEMMA PointsType == ASSUME NEW ans PROVE Points(ans) \in 0 .. NRounds
<1> DEFINE R == {r \in Rounds : ans[r] = "right"}
<1>1. NRounds \in Nat
  OBVIOUS
<1>2. IsFiniteSet(Rounds) /\ Cardinality(Rounds) = NRounds
  BY <1>1, FS_Interval DEF Rounds
<1>3. R \in SUBSET Rounds
  OBVIOUS
<1>4. IsFiniteSet(R) /\ Cardinality(R) <= NRounds
  BY <1>2, <1>3, FS_Subset
<1>5. Cardinality(R) \in Nat
  BY <1>4, FS_CardinalityType
<1> QED
  BY <1>1, <1>4, <1>5 DEF Points

\* A request record never equals the free slot, and has the fields it was given.
LEMMA NewRequest ==
    ASSUME NEW label \in {"replace", "unlock", "warm", "activate", "delToken",
                          "record", "finish", "seal"},
           NEW i \in Ids, NEW r \in Rounds, NEW a \in Answers, NEW n \in 0 .. NRounds
    PROVE  LET q == [at |-> label, id |-> i, round |-> r, ans |-> a, total |-> n]
           IN  q \in Request /\ q # Free
BY DEF Request, Free

\* Whatever moves one slot keeps what all requests know, if a row keeps its id
\* as long as it lives and nothing known of it is taken back.
LEMMA CarriedStep ==
    ASSUME SessionInv, NEW s \in Slots, NEW q \in Request \cup {Free},
           req' = [req EXCEPT ![s] = q],
           Played', ids' \in Nat, ids <= ids',
           row'.id = row.id \/ row'.id > ids,
           row'.id = row.id =>
               /\ Warmed => Warmed'
               /\ row.done => row'.done /\ row'.total = row.total,
           q # Free =>
               /\ q.id <= ids'
               /\ row'.id = q.id /\ q.at \in {"warm", "activate"} => Warmed'
               /\ row'.id = q.id /\ q.at = "seal" =>
                      row'.done /\ q.total = row'.total
    PROVE  req' \in [Slots -> Request \cup {Free}] /\ Carried'
<1>1. req \in [Slots -> Request \cup {Free}] /\ ids \in Nat
  BY DEF SessionInv, SessionTypeOK
<1>2. req' \in [Slots -> Request \cup {Free}]
  BY <1>1
<1>3. ASSUME NEW t \in Slots, req'[t] # Free
      PROVE  /\ Played' /\ req'[t].id <= ids'
             /\ Mine(t)' /\ At(t)' \in {"warm", "activate"} => Warmed'
             /\ Mine(t)' /\ At(t)' = "seal" => row'.done /\ req'[t].total = row'.total
  <2>1. CASE t = s
    <3>1. req'[t] = q
      BY <1>1, <2>1
    <3> QED
      BY <1>3, <3>1 DEF Mine, At
  <2>2. CASE t # s
    <3>1. req'[t] = req[t] /\ req[t] \in Request
      BY <1>1, <1>3, <2>2
    <3>2. req[t].id \in Nat /\ req[t].id <= ids
      BY <1>3, <3>1 DEF SessionInv, Carried, Request, Ids
    <3>3. row'.id = req[t].id => row.id = req[t].id
      BY <1>1, <3>2
    <3>4. /\ row.id = req[t].id /\ req[t].at \in {"warm", "activate"} => Warmed
          /\ row.id = req[t].id /\ req[t].at = "seal" =>
                 row.done /\ req[t].total = row.total
      BY <1>3, <3>1 DEF SessionInv, Carried, Mine, At
    <3> QED
      BY <1>1, <3>1, <3>2, <3>3, <3>4 DEF Mine, At
  <2> QED
    BY <2>1, <2>2
<1> QED
  BY <1>2, <1>3 DEF Carried

\* A step that only moves one request to what the row allows.
LEMMA RequestOnly ==
    ASSUME SessionInv, NEW s \in Slots, NEW q \in Request \cup {Free},
           req' = [req EXCEPT ![s] = q],
           UNCHANGED <<row, ids, unlock, tokens, history>>,
           Played,
           q # Free =>
               /\ q.id <= ids
               /\ row.id = q.id /\ q.at \in {"warm", "activate"} => Warmed
               /\ row.id = q.id /\ q.at = "seal" => row.done /\ q.total = row.total
    PROVE  SessionInv'
<1>1. ids \in Nat
  BY DEF SessionInv, SessionTypeOK
<1>2. UNCHANGED <<counted, exposed, early, late, reopened>>
  BY DEF history
<1>3. Played' /\ (Warmed <=> Warmed') /\ row' = row /\ ids' = ids /\ ids <= ids'
  BY <1>1, <1>2 DEF Played, Warmed
<1>4. req' \in [Slots -> Request \cup {Free}] /\ Carried'
  BY <1>1, <1>3, CarriedStep
<1> QED
  BY <1>2, <1>4 DEF SessionInv, SessionTypeOK, IdsFresh, RowSound, Played, Warmed,
     CountedOnce, TotalIsSum, SealMatches, OnlyCompletedCounts, WarmupRespected

\* A row of the table has its columns and an id that was given out.
LEMMA RowType ==
    ASSUME SessionInv, Played
    PROVE  row \in Row /\ row.id = ids /\ row.id \in Ids /\ ids \in Nat
BY DEF SessionInv, SessionTypeOK, IdsFresh, Played, Row

\* A request that finds its row.
LEMMA Found ==
    ASSUME SessionInv, NEW s \in Slots, At(s) # "free"
    PROVE  /\ req[s] \in Request /\ Played /\ req[s].id \in Ids /\ req[s].id <= ids
           /\ Mine(s) /\ At(s) \in {"warm", "activate"} => Warmed
           /\ Mine(s) /\ At(s) = "seal" => row.done /\ req[s].total = row.total
<1>1. req[s] \in Request \cup {Free} /\ req[s] # Free
  BY DEF SessionInv, SessionTypeOK, At, Free
<1> QED
  BY <1>1 DEF SessionInv, Carried, Request

-------------------------------------------------------------------------------
(* POST warmup-start *)

\* A new row starts with a new id: no request, key or count is about it.
LEMMA InsertStep ==
    ASSUME SessionInv, NEW s \in Slots,
           ~Played \/ row.status = "abandoned",
           Insert, Begin(s, "unlock", ids + 1),
           UNCHANGED <<unlock, tokens, counted, reopened>>
    PROVE  SessionInv'
<1> DEFINE q == [at |-> "unlock", id |-> ids + 1, round |-> 1, ans |-> NoAnswer, total |-> 0]
<1>1. ids \in Nat /\ ids + 1 \in Ids /\ ids' = ids + 1 /\ NRounds \in Nat \ {0}
  BY DEF SessionInv, SessionTypeOK, Insert, Ids
<1>2. row' = Fresh(ids + 1) /\ row' \in Row /\ row'.id = ids + 1
  BY <1>1 DEF Insert, Fresh, Row, Answers
<1>3. Played'
  BY <1>1, <1>2 DEF Played, NoRow
<1>4. q \in Request /\ q # Free
  BY <1>1, NewRequest DEF Rounds, Answers
<1>5. req' = [req EXCEPT ![s] = q]
  BY DEF Begin
<1>6. row.id # row'.id
  BY <1>1, <1>2, RowType DEF Played, NoRow
<1>7. req' \in [Slots -> Request \cup {Free}] /\ Carried'
  <2>1. ids' \in Nat /\ ids <= ids' /\ row'.id > ids
    BY <1>1, <1>2
  <2>2. q.id <= ids' /\ q.at = "unlock"
    BY <1>1
  <2> HIDE DEF q
  <2> QED
    BY <2>1, <2>2, <1>3, <1>4, <1>5, <1>6, CarriedStep
<1>8. SessionTypeOK'
  <2>1. exposed' = FALSE /\ early' = FALSE /\ late' = FALSE /\ ids' \in 0 .. MaxSessions
    BY <1>1 DEF Insert, Ids
  <2> QED
    BY <1>2, <1>7, <2>1 DEF SessionInv, SessionTypeOK
<1>9. IdsFresh' /\ unlock'[row'.id] = "none" /\ counted'[row'.id] = 0 /\ row'.id \notin tokens'
  <2>1. tokens' = tokens /\ unlock' = unlock /\ counted' = counted /\ ids + 1 > ids
    BY <1>1
  <2>2. tokens \subseteq 1 .. ids /\ \A i \in Ids : i > ids => unlock[i] = "none" /\ counted[i] = 0
    BY DEF SessionInv, IdsFresh
  <2>3. unlock'[ids + 1] = "none" /\ counted'[ids + 1] = 0 /\ ids + 1 \notin tokens'
    BY <1>1, <2>1, <2>2
  <2>4. \A i \in Ids : i > ids' => i > ids
    BY <1>1 DEF Ids
  <2>5. tokens' \subseteq 1 .. ids'
    BY <1>1, <2>1, <2>2
  <2>6. IdsFresh'
    BY <1>1, <1>2, <1>3, <2>1, <2>2, <2>4, <2>5 DEF IdsFresh
  <2> QED
    BY <1>2, <2>3, <2>6
<1>10. RowSound' /\ TotalIsSum' /\ SealMatches' /\ WarmupRespected' /\ CountedOnce'
  BY <1>2, <1>9 DEF SessionInv, RowSound, TotalIsSum, SealMatches, WarmupRespected,
     CountedOnce, Fresh
<1>11. OnlyCompletedCounts'
  BY DEF SessionInv, OnlyCompletedCounts
<1> QED
  BY <1>7, <1>8, <1>9, <1>10, <1>11 DEF SessionInv

\* warmup-start claims the row of the player.
LEMMA ClaimStep == ASSUME SessionInv, NEW s \in Slots, Claim(s) PROVE SessionInv'
<1>1. CASE row = NoRow
  BY <1>1, InsertStep DEF Claim, Played
<1>2. CASE row # NoRow
  <2> DEFINE l == IF row.status = "abandoned" THEN "replace" ELSE "unlock"
             q == [at |-> l, id |-> row.id, round |-> 1, ans |-> NoAnswer, total |-> 0]
  <2>1. Played /\ row.id \in Ids /\ row.id <= ids
    BY <1>2, RowType DEF Played
  <2>2. q \in Request /\ q # Free
    BY <2>1, NewRequest DEF Rounds, Answers
  <2>3. req' = [req EXCEPT ![s] = q]
    BY <1>2 DEF Claim, Begin
  <2>4. UNCHANGED <<row, ids, unlock, tokens, history>>
    BY <1>2 DEF Claim, history
  <2> QED
    BY <2>1, <2>2, <2>3, <2>4, RequestOnly
<1> QED
  BY <1>1, <1>2

\* It replaces an abandoned row by one with a new id.
LEMMA ReplaceStep == ASSUME SessionInv, NEW s \in Slots, Replace(s) PROVE SessionInv'
<1>0. Played
  BY Found DEF Replace
<1>1. CASE row.status = "abandoned"
  BY <1>1, InsertStep DEF Replace
<1>2. CASE row.status # "abandoned"
  <2> DEFINE q == [at |-> "unlock", id |-> row.id, round |-> 1, ans |-> NoAnswer, total |-> 0]
  <2>1. row.id \in Ids /\ row.id <= ids
    BY <1>0, RowType
  <2>2. q \in Request /\ q # Free
    BY <2>1, NewRequest DEF Rounds, Answers
  <2>3. req' = [req EXCEPT ![s] = q]
    BY <1>2 DEF Replace, Begin
  <2>4. UNCHANGED <<row, ids, unlock, tokens, history>>
    BY <1>2 DEF Replace, history
  <2> QED
    BY <1>0, <2>1, <2>2, <2>3, <2>4, RequestOnly
<1> QED
  BY <1>1, <1>2

\* Giving up an unfinished session: it has not counted, and now it never will.
LEMMA Abandoning ==
    ASSUME SessionInv, Unfinished, row' = Abandoned,
           UNCHANGED <<ids, unlock, tokens, history>>,
           req' \in [Slots -> Request \cup {Free}], Carried'
    PROVE  SessionInv'
<1>1. Played /\ row \in Row /\ row.id \in Ids
  BY RowType DEF Unfinished, Played
<1>2. UNCHANGED <<counted, exposed, early, late, reopened>>
  BY DEF history
<1>3. /\ row' \in Row /\ row'.id = row.id /\ row'.status = "abandoned" /\ row'.done
      /\ row'.total = row.total /\ row'.hmac = row.hmac /\ row'.started = row.started
  BY <1>1 DEF Abandoned, Row
<1>4. Played'
  BY <1>1, <1>3 DEF Played, NoRow, Ids
<1>5. SessionTypeOK' /\ IdsFresh'
  BY <1>1, <1>2, <1>3, <1>4 DEF SessionInv, SessionTypeOK, IdsFresh
<1>6. RowSound' /\ CountedOnce' /\ TotalIsSum' /\ SealMatches' /\ WarmupRespected'
  BY <1>1, <1>2, <1>3 DEF SessionInv, RowSound, CountedOnce, TotalIsSum, SealMatches,
     WarmupRespected, Warmed, Played
<1>7. OnlyCompletedCounts'
  BY <1>2 DEF SessionInv, OnlyCompletedCounts, Unfinished
<1> QED
  BY <1>5, <1>6, <1>7 DEF SessionInv

\* DELETE /sessions/:challengeId and the sweep.
LEMMA GiveUpStep == ASSUME SessionInv, Quit \/ Sweep PROVE SessionInv'
<1>1. /\ Unfinished /\ row' = Abandoned
      /\ UNCHANGED <<ids, unlock, tokens, history>> /\ req' = req
  BY DEF Quit, Sweep
<1>2. Played /\ row \in Row
  BY <1>1, RowType DEF Unfinished, Played
<1>3. row'.id = row.id /\ row'.done /\ row'.total = row.total /\ Played'
  BY <1>1, <1>2, RowType DEF Abandoned, Row, Played, NoRow, Ids
<1>4. Carried'
  BY <1>1, <1>3 DEF SessionInv, Carried, Mine, At, Warmed, history
<1> QED
  BY <1>1, <1>4, Abandoning DEF SessionInv, SessionTypeOK

\* warmup-start stores its key, or errorHandler abandons the row.
LEMMA SetUnlockStep == ASSUME SessionInv, NEW s \in Slots, SetUnlock(s) PROVE SessionInv'
<1>0. req[s].id \in Ids /\ req[s].id <= ids /\ Played /\ ids \in Nat
  BY Found, RowType DEF SetUnlock
<1>1. req' = [req EXCEPT ![s] = Free] /\ UNCHANGED <<ids, tokens, history>>
  BY DEF SetUnlock, Done
<1>2. CASE unlock' = [unlock EXCEPT ![req[s].id] = "running"] /\ row' = row
  <2>1. UNCHANGED <<counted, exposed, early, late, reopened>>
    BY <1>1 DEF history
  <2>2. Played' /\ (Warmed <=> Warmed') /\ ids <= ids'
    BY <1>0, <1>1, <1>2, <2>1 DEF Played, Warmed
  <2>3. req' \in [Slots -> Request \cup {Free}] /\ Carried'
    BY <1>0, <1>1, <1>2, <2>2, CarriedStep
  <2>4. SessionTypeOK' /\ IdsFresh' /\ RowSound'
    BY <1>0, <1>1, <1>2, <2>1, <2>3 DEF SessionInv, SessionTypeOK, IdsFresh, RowSound,
       Played, Warmed
  <2> QED
    BY <1>2, <2>1, <2>3, <2>4 DEF SessionInv, CountedOnce, TotalIsSum, SealMatches,
       OnlyCompletedCounts, WarmupRespected, Played
<1>3. CASE unlock' = unlock /\ row' = row
  BY <1>0, <1>1, <1>3, RequestOnly
<1>4. CASE unlock' = unlock /\ Unfinished /\ row' = Abandoned
  <2>1. row'.id = row.id /\ row'.done /\ row'.total = row.total /\ Played'
    BY <1>0, <1>4, RowType DEF Abandoned, Row, Played, NoRow, Ids
  <2>2. (Warmed <=> Warmed') /\ ids' = ids /\ ids <= ids'
    BY <1>0, <1>1 DEF Warmed, history
  <2>3. req' \in [Slots -> Request \cup {Free}] /\ Carried'
    BY <1>0, <1>1, <2>1, <2>2, CarriedStep
  <2> QED
    BY <1>1, <1>4, <2>3, Abandoning
<1> QED
  BY <1>2, <1>3, <1>4 DEF SetUnlock

\* The minimum of a warm-up passes.
LEMMA ElapseStep == ASSUME SessionInv, NEW i \in Ids, Elapse(i) PROVE SessionInv'
<1>1. /\ unlock' = [unlock EXCEPT ![i] = "over"] /\ i <= ids
      /\ UNCHANGED <<row, ids, tokens, req, counted, early, late, reopened>>
  BY DEF SessionInv, SessionTypeOK, IdsFresh, Elapse, Ids
<1>2. exposed' \in BOOLEAN /\ (exposed => exposed') /\ (row.id = i => exposed')
  BY DEF Elapse
<1>3. SessionTypeOK' /\ IdsFresh'
  BY <1>1, <1>2 DEF SessionInv, SessionTypeOK, IdsFresh, Played
<1>4. RowSound' /\ WarmupRespected'
  BY <1>1, <1>2 DEF SessionInv, SessionTypeOK, RowSound, WarmupRespected, Played, Warmed
<1>5. Carried'
  BY <1>1, <1>2 DEF SessionInv, Carried, Mine, At, Played, Warmed
<1> QED
  BY <1>1, <1>3, <1>4, <1>5 DEF SessionInv, CountedOnce, TotalIsSum, SealMatches,
     OnlyCompletedCounts, Played

-------------------------------------------------------------------------------
(* POST warmup-complete and start *)

\* A request that passes the unlock time has seen it over, or saw no key.
LEMMA GetUnlockStep == ASSUME SessionInv, NEW s \in Slots, GetUnlock(s) PROVE SessionInv'
<1> DEFINE q == [at |-> "warm", id |-> row.id, round |-> 1, ans |-> NoAnswer, total |-> 0]
<1>1. Played /\ row.id \in Ids /\ row.id <= ids /\ ids \in Nat
  BY RowType DEF GetUnlock, Played
<1>2. q \in Request /\ q # Free /\ q.id = row.id /\ q.at = "warm"
  BY <1>1, NewRequest DEF Rounds, Answers
<1>3. /\ req' = [req EXCEPT ![s] = q]
      /\ UNCHANGED <<row, ids, unlock, tokens, counted, exposed, late, reopened>>
  BY DEF GetUnlock, Begin
<1>4. early' \in BOOLEAN /\ (early => early') /\ (unlock[row.id] = "none" => early')
  BY DEF GetUnlock
<1>5. Warmed'
  <2>1. unlock[row.id] \in {"none", "over"}
    BY <1>1 DEF GetUnlock, SessionInv, SessionTypeOK
  <2> QED
    BY <1>1, <1>3, <1>4, <2>1 DEF SessionInv, RowSound, Warmed
<1>6. req' \in [Slots -> Request \cup {Free}] /\ Carried'
  <2>1. Played' /\ ids <= ids' /\ row' = row /\ ids' = ids
    BY <1>1, <1>3 DEF Played
  <2> HIDE DEF q
  <2> QED
    BY <1>1, <1>2, <1>3, <1>5, <2>1, CarriedStep
<1>7. SessionTypeOK' /\ IdsFresh' /\ RowSound' /\ WarmupRespected'
  BY <1>3, <1>4, <1>5, <1>6 DEF SessionInv, SessionTypeOK, IdsFresh, RowSound,
     WarmupRespected, Played, Warmed
<1> QED
  BY <1>3, <1>6, <1>7 DEF SessionInv, CountedOnce, TotalIsSum, SealMatches,
     OnlyCompletedCounts, Played

\* markWarmupCompleted writes only after its request saw the warm-up over.
LEMMA MarkWarmStep == ASSUME SessionInv, NEW s \in Slots, MarkWarm(s) PROVE SessionInv'
<1>1. Played /\ row \in Row /\ row.id \in Ids /\ row.id = ids /\ ids \in Nat
  BY Found, RowType DEF MarkWarm
<1>2. req' = [req EXCEPT ![s] = Free] /\ UNCHANGED <<ids, unlock, history>>
  BY DEF MarkWarm, Done
<1>3. CASE row' = row /\ tokens' = tokens
  BY <1>1, <1>2, <1>3, RequestOnly
<1>4. CASE Mine(s) /\ row' = [row EXCEPT !.warm = TRUE]
           /\ tokens' \in {tokens, tokens \cup {row.id}}
  <2>1. UNCHANGED <<counted, exposed, early, late, reopened>> /\ Warmed
    BY <1>2, <1>4, Found DEF history, MarkWarm
  <2>2. /\ row' \in Row /\ row'.id = row.id /\ row'.status = row.status
        /\ row'.done = row.done /\ row'.total = row.total /\ row'.hmac = row.hmac
        /\ row'.started = row.started /\ row'.ans = row.ans
    BY <1>1, <1>4 DEF Row
  <2>3. Played' /\ Warmed' /\ ids <= ids'
    BY <1>1, <1>2, <2>1, <2>2 DEF Played, NoRow, Warmed, Ids
  <2>4. req' \in [Slots -> Request \cup {Free}] /\ Carried'
    BY <1>1, <1>2, <2>2, <2>3, CarriedStep
  <2>5. tokens' \subseteq 1 .. ids /\ tokens' \subseteq Ids
    BY <1>1, <1>4 DEF SessionInv, SessionTypeOK, IdsFresh, Ids
  <2>6. SessionTypeOK' /\ IdsFresh'
    BY <1>1, <1>2, <2>1, <2>2, <2>3, <2>4, <2>5 DEF SessionInv, SessionTypeOK, IdsFresh
  <2>7. RowSound' /\ TotalIsSum' /\ SealMatches' /\ WarmupRespected' /\ OnlyCompletedCounts'
    BY <1>1, <1>2, <2>1, <2>2, <2>3 DEF SessionInv, RowSound, TotalIsSum, SealMatches,
       WarmupRespected, OnlyCompletedCounts, Played, Warmed
  <2> QED
    BY <2>1, <2>4, <2>6, <2>7 DEF SessionInv, CountedOnce
<1> QED
  BY <1>3, <1>4 DEF MarkWarm

\* The start route reads the row its token names.
LEMMA StartReadStep == ASSUME SessionInv, NEW s \in Slots, StartRead(s) PROVE SessionInv'
<1> DEFINE q == [at |-> "activate", id |-> row.id, round |-> 1, ans |-> NoAnswer, total |-> 0]
<1>1. Played
  BY DEF StartRead, SessionInv, SessionTypeOK, NoRow, Played, Ids
<1>2. row.id \in Ids /\ row.id <= ids /\ Warmed
  BY <1>1, RowType DEF StartRead, SessionInv, RowSound
<1>3. q \in Request /\ q # Free
  BY <1>2, NewRequest DEF Rounds, Answers
<1>4. req' = [req EXCEPT ![s] = q] /\ UNCHANGED <<row, ids, unlock, tokens, history>>
  BY DEF StartRead, Begin
<1>5. q.id <= ids /\ q.at = "activate"
  BY <1>2
<1> HIDE DEF q
<1> QED
  BY <1>1, <1>2, <1>3, <1>4, <1>5, RequestOnly

\* A late or repeated start may turn a completed session active: reopened.
LEMMA MarkStartedStep ==
    ASSUME SessionInv, NEW s \in Slots, MarkStarted(s) PROVE SessionInv'
<1> DEFINE q == [at |-> "delToken", id |-> req[s].id, round |-> 1, ans |-> NoAnswer, total |-> 0]
<1>1. /\ Played /\ row \in Row /\ row.id \in Ids /\ row.id = ids /\ ids \in Nat
      /\ req[s].id \in Ids /\ req[s].id <= ids
  BY Found, RowType DEF MarkStarted
<1>2. q \in Request /\ q # Free /\ q.id <= ids /\ q.at = "delToken"
  BY <1>1, NewRequest DEF Rounds, Answers
<1>3. /\ req' = [req EXCEPT ![s] = q]
      /\ UNCHANGED <<ids, unlock, tokens, counted, exposed, early, late>>
  BY DEF MarkStarted, Begin
<1>4. /\ reopened' \in BOOLEAN
      /\ reopened' <=> (reopened \/ (Mine(s) /\ row.status = "completed"))
  BY DEF MarkStarted
<1> HIDE DEF q
<1>5. CASE Mine(s)
  <2>1. row' = [row EXCEPT !.started = TRUE, !.status = "active"] /\ Warmed
    BY <1>5, Found DEF MarkStarted
  <2>2. /\ row' \in Row /\ row'.id = row.id /\ row'.status = "active"
        /\ row'.done = row.done /\ row'.total = row.total /\ row'.hmac = row.hmac
    BY <1>1, <2>1 DEF Row
  <2>3. Played' /\ Warmed' /\ ids' = ids /\ ids <= ids'
    <3>1. Played'
      BY <1>1, <2>2 DEF Played, NoRow, Ids
    <3> QED
      BY <1>1, <1>3, <2>1, <3>1 DEF Warmed
  <2>4. req' \in [Slots -> Request \cup {Free}] /\ Carried'
    BY <1>1, <1>2, <1>3, <2>2, <2>3, CarriedStep
  <2>5. SessionTypeOK' /\ IdsFresh'
    BY <1>1, <1>3, <1>4, <2>2, <2>3, <2>4 DEF SessionInv, SessionTypeOK, IdsFresh
  <2>6. RowSound' /\ TotalIsSum' /\ SealMatches' /\ WarmupRespected' /\ CountedOnce'
    BY <1>1, <1>3, <2>2, <2>3 DEF SessionInv, RowSound, TotalIsSum, SealMatches,
       WarmupRespected, CountedOnce, Played, Warmed
  <2>7. OnlyCompletedCounts'
    BY <1>1, <1>3, <1>4, <1>5, <2>2 DEF SessionInv, OnlyCompletedCounts
  <2> QED
    BY <2>4, <2>5, <2>6, <2>7 DEF SessionInv
<1>6. CASE ~Mine(s)
  <2>1. row' = row /\ reopened' = reopened
    BY <1>4, <1>6 DEF MarkStarted, SessionInv, SessionTypeOK
  <2>2. UNCHANGED <<row, ids, unlock, tokens, history>>
    BY <1>3, <2>1 DEF history
  <2> QED
    BY <1>1, <1>2, <1>3, <2>2, RequestOnly
<1> QED
  BY <1>5, <1>6

\* It deletes the token.
LEMMA DelTokenStep == ASSUME SessionInv, NEW s \in Slots, DelToken(s) PROVE SessionInv'
<1>1. Played /\ ids \in Nat
  BY Found, RowType DEF DelToken
<1>2. /\ req' = [req EXCEPT ![s] = Free] /\ tokens' \subseteq tokens
      /\ UNCHANGED <<row, ids, unlock, counted, exposed, early, late, reopened>>
  BY DEF DelToken, Done, history
<1>3. Played' /\ (Warmed <=> Warmed') /\ row' = row /\ ids' = ids /\ ids <= ids'
  BY <1>1, <1>2 DEF Played, Warmed
<1>4. req' \in [Slots -> Request \cup {Free}] /\ Carried'
  BY <1>1, <1>2, <1>3, CarriedStep
<1>5. SessionTypeOK' /\ IdsFresh' /\ RowSound'
  BY <1>2, <1>4 DEF SessionInv, SessionTypeOK, IdsFresh, RowSound, Played, Warmed
<1> QED
  BY <1>2, <1>4, <1>5 DEF SessionInv, CountedOnce, TotalIsSum, SealMatches,
     OnlyCompletedCounts, WarmupRespected, Played

-------------------------------------------------------------------------------
(* POST answer *)

\* The answer route reads the row.
LEMMA AnswerReadStep == ASSUME SessionInv, NEW s \in Slots, AnswerRead(s) PROVE SessionInv'
<1>1. Played /\ row.id \in Ids /\ row.id <= ids
  BY RowType DEF AnswerRead, Played
<1>2. PICK r \in Rounds, a \in Answers :
        req' = [req EXCEPT ![s] = [at |-> "record", id |-> row.id, round |-> r,
                                   ans |-> a, total |-> 0]]
  BY DEF AnswerRead
<1> DEFINE q == [at |-> "record", id |-> row.id, round |-> r, ans |-> a, total |-> 0]
<1>3. q \in Request /\ q # Free /\ q.at = "record" /\ q.id <= ids
  BY <1>1, NewRequest
<1>4. UNCHANGED <<row, ids, unlock, tokens, history>>
  BY DEF AnswerRead
<1> HIDE DEF q
<1> QED
  BY <1>1, <1>2, <1>3, <1>4, RequestOnly DEF q

\* An answer stored after the end is what `late` remembers.
LEMMA RecordStep == ASSUME SessionInv, NEW s \in Slots, Record(s) PROVE SessionInv'
<1>1. /\ Played /\ row \in Row /\ row.id \in Ids /\ row.id = ids /\ ids \in Nat
      /\ req[s] \in Request
  BY Found, RowType DEF Record
<1>2. UNCHANGED <<ids, unlock, tokens, counted, exposed, early, reopened>>
  BY DEF Record
<1>3. CASE ~Mine(s)
  <2>1. req' = [req EXCEPT ![s] = Free] /\ UNCHANGED <<row, ids, unlock, tokens, history>>
    BY <1>2, <1>3 DEF Record, Done, history
  <2> QED
    BY <1>1, <2>1, RequestOnly
<1>4. CASE Mine(s)
  <2> DEFINE f == [at |-> "finish", id |-> row.id, round |-> 1, ans |-> NoAnswer, total |-> 0]
             q == IF req[s].round = NRounds THEN f ELSE Free
  <2>1. f \in Request /\ f # Free /\ f.at = "finish" /\ f.id <= ids
    BY <1>1, NewRequest DEF Rounds, Answers
  <2>2. req' = [req EXCEPT ![s] = q]
    BY <1>4 DEF Record, Begin, Done
  <2>3. row' = [row EXCEPT !.ans[req[s].round] = req[s].ans]
    BY <1>4 DEF Record
  <2>4. /\ row' \in Row /\ row'.id = row.id /\ row'.status = row.status
        /\ row'.done = row.done /\ row'.total = row.total /\ row'.hmac = row.hmac
        /\ row'.started = row.started
    BY <1>1, <2>3 DEF Row, Request
  <2>5. late' \in BOOLEAN /\ (late' <=> (late \/ row.done))
    BY <1>1, <1>4 DEF Record, SessionInv, SessionTypeOK, Row
  <2> HIDE DEF f
  <2>6. q \in Request \cup {Free} /\ (q # Free => q.at = "finish" /\ q.id <= ids)
    BY <2>1
  <2> HIDE DEF q
  <2>7. Played' /\ (Warmed <=> Warmed') /\ ids' = ids /\ ids <= ids'
    BY <1>1, <1>2, <2>4 DEF Played, NoRow, Warmed, Ids
  <2>8. req' \in [Slots -> Request \cup {Free}] /\ Carried'
    BY <1>1, <2>2, <2>4, <2>6, <2>7, CarriedStep
  <2>9. SessionTypeOK' /\ IdsFresh'
    BY <1>1, <1>2, <2>4, <2>5, <2>7, <2>8 DEF SessionInv, SessionTypeOK, IdsFresh
  <2>10. RowSound' /\ SealMatches' /\ WarmupRespected' /\ CountedOnce'
    BY <1>1, <1>2, <2>4, <2>7 DEF SessionInv, RowSound, SealMatches,
       WarmupRespected, CountedOnce, Played, Warmed
  <2>11. TotalIsSum'
    BY <1>1, <2>4, <2>5 DEF SessionInv, RowSound, TotalIsSum, Played
  <2>12. OnlyCompletedCounts'
    BY <1>2, <2>4, <2>7 DEF SessionInv, OnlyCompletedCounts
  <2> QED
    BY <2>8, <2>9, <2>10, <2>11, <2>12 DEF SessionInv
<1> QED
  BY <1>3, <1>4

\* finishSession under the row lock: the first one counts, the others return what
\* it stored.
LEMMA FinishStep == ASSUME SessionInv, NEW s \in Slots, Finish(s) PROVE SessionInv'
<1>1. /\ Played /\ row \in Row /\ row.id \in Ids /\ row.id = ids /\ ids \in Nat
      /\ req[s] \in Request
  BY Found, RowType DEF Finish
<1>2. UNCHANGED <<ids, unlock, tokens, exposed, early, late, reopened>>
  BY DEF Finish
<1>3. CASE ~Mine(s)
  <2>1. req' = [req EXCEPT ![s] = Free] /\ UNCHANGED <<row, ids, unlock, tokens, history>>
    BY <1>2, <1>3 DEF Finish, Done, history
  <2> QED
    BY <1>1, <2>1, RequestOnly
<1>4. CASE Mine(s) /\ row.done
  <2> DEFINE q == [req[s] EXCEPT !.at = "seal", !.total = row.total]
  <2>1. req' = [req EXCEPT ![s].at = "seal", ![s].total = row.total]
        /\ UNCHANGED <<row, counted>>
    BY <1>4 DEF Finish
  <2>2. req' = [req EXCEPT ![s] = q]
    BY <2>1 DEF SessionInv, SessionTypeOK
  <2>3. q \in Request /\ q.at = "seal" /\ q.total = row.total /\ q.id = row.id
    BY <1>1, <1>4 DEF Request, Row, Mine
  <2>4. UNCHANGED <<row, ids, unlock, tokens, history>>
    BY <1>2, <2>1 DEF history
  <2> HIDE DEF q
  <2>5. q.id <= ids
    BY <1>1, <2>3
  <2> QED
    BY <1>1, <1>4, <2>2, <2>3, <2>4, <2>5, RequestOnly
<1>5. CASE Mine(s) /\ ~row.done
  <2> DEFINE n == Points(row.ans)
             q == [req[s] EXCEPT !.at = "seal", !.total = n]
  <2>0. n \in 0 .. NRounds
    BY PointsType
  <2>1. End(s, n)
    BY <1>5 DEF Finish
  <2>2. req' = [req EXCEPT ![s] = q]
    BY <2>1 DEF SessionInv, SessionTypeOK, End
  <2>3. q \in Request /\ q.at = "seal" /\ q.total = n /\ q.id = row.id
    BY <1>1, <1>5, <2>0 DEF Request, Mine
  <2> HIDE DEF q
  <2>4. /\ row' \in Row /\ row'.id = row.id /\ row'.status = "completed" /\ row'.done
        /\ row'.total = n /\ row'.hmac = row.hmac /\ row'.started = row.started
        /\ row'.ans = row.ans
    BY <1>1, <2>0, <2>1 DEF Row, End
  <2>5. Played' /\ (Warmed <=> Warmed') /\ ids' = ids /\ ids <= ids'
    BY <1>1, <1>2, <2>4 DEF Played, NoRow, Warmed, Ids
  <2>6. req' \in [Slots -> Request \cup {Free}] /\ Carried'
    BY <1>1, <1>5, <2>2, <2>3, <2>4, <2>5, CarriedStep
  <2>7. /\ counted \in [Ids -> Nat] /\ counted[row.id] = 0 /\ row.hmac = -1
        /\ counted' = [counted EXCEPT ![row.id] = @ + 1]
    BY <1>1, <1>5, <2>1 DEF SessionInv, SessionTypeOK, RowSound, End
  <2>8. counted' \in [Ids -> Nat] /\ counted'[row.id] = 1
        /\ \A i \in Ids : i # row.id => counted'[i] = counted[i]
    BY <1>1, <2>7
  <2>9. SessionTypeOK' /\ IdsFresh'
    <3>1. SessionTypeOK'
      BY <1>2, <2>4, <2>6, <2>8 DEF SessionInv, SessionTypeOK
    <3>2. IdsFresh'
      BY <1>1, <1>2, <2>4, <2>5, <2>8 DEF SessionInv, IdsFresh, Ids
    <3> QED
      BY <3>1, <3>2
  <2>10. RowSound' /\ SealMatches' /\ WarmupRespected' /\ CountedOnce' /\ TotalIsSum'
    BY <1>1, <1>2, <2>4, <2>5, <2>7, <2>8 DEF SessionInv, RowSound, SealMatches,
       WarmupRespected, CountedOnce, TotalIsSum, Played, Warmed
  <2>11. OnlyCompletedCounts'
    BY <1>1, <1>2, <2>4, <2>5, <2>8 DEF SessionInv, OnlyCompletedCounts
  <2> QED
    BY <2>6, <2>9, <2>10, <2>11 DEF SessionInv
<1> QED
  BY <1>3, <1>4, <1>5

\* The seal is of the total that is still stored.
LEMMA SealStep == ASSUME SessionInv, NEW s \in Slots, Seal(s) PROVE SessionInv'
<1>1. /\ Played /\ row \in Row /\ row.id \in Ids /\ row.id = ids /\ ids \in Nat
      /\ req[s] \in Request
  BY Found, RowType DEF Seal
<1>2. req' = [req EXCEPT ![s] = Free] /\ UNCHANGED <<ids, unlock, tokens, history>>
  BY DEF Seal, Done
<1>3. CASE ~Mine(s)
  BY <1>1, <1>2, <1>3, RequestOnly DEF Seal
<1>4. CASE Mine(s)
  <2>1. row' = [row EXCEPT !.hmac = req[s].total] /\ row.done /\ req[s].total = row.total
    BY <1>4, Found DEF Seal
  <2>2. /\ row' \in Row /\ row'.id = row.id /\ row'.status = row.status
        /\ row'.done = row.done /\ row'.total = row.total /\ row'.hmac = row.total
        /\ row'.started = row.started /\ row'.ans = row.ans
    <3>1. row.total \in -1 .. NRounds
      BY <1>1 DEF Row
    <3> QED
      BY <1>1, <2>1, <3>1 DEF Row
  <2>3. UNCHANGED <<counted, exposed, early, late, reopened>>
    BY <1>2 DEF history
  <2>4. Played' /\ (Warmed <=> Warmed') /\ ids' = ids /\ ids <= ids'
    BY <1>1, <1>2, <2>2, <2>3 DEF Played, NoRow, Warmed, Ids
  <2>5. req' \in [Slots -> Request \cup {Free}] /\ Carried'
    BY <1>1, <1>2, <2>2, <2>4, CarriedStep
  <2>6. SessionTypeOK' /\ IdsFresh'
    BY <1>1, <1>2, <2>2, <2>3, <2>4, <2>5 DEF SessionInv, SessionTypeOK, IdsFresh
  <2>7. RowSound' /\ SealMatches' /\ WarmupRespected' /\ CountedOnce' /\ TotalIsSum'
    BY <1>1, <1>2, <2>1, <2>2, <2>3, <2>4 DEF SessionInv, RowSound, SealMatches,
       WarmupRespected, CountedOnce, TotalIsSum, Played, Warmed
  <2>8. OnlyCompletedCounts'
    BY <2>2, <2>3, <2>4 DEF SessionInv, OnlyCompletedCounts
  <2> QED
    BY <2>5, <2>6, <2>7, <2>8 DEF SessionInv
<1> QED
  BY <1>3, <1>4

\* A request dies between two statements.
LEMMA BreakStep == ASSUME SessionInv, NEW s \in Slots, Break(s) PROVE SessionInv'
<1>1. Played
  BY DEF Break, SessionInv, Carried
<1> QED
  BY <1>1, RequestOnly DEF Break, Done

-------------------------------------------------------------------------------

\* A player who has not played yet.
LEMMA SessionStart == Init => SessionInv
<1> SUFFICES ASSUME Init PROVE SessionInv
  OBVIOUS
<1>1. SessionTypeOK /\ IdsFresh
  <2>1. {exposed, early, late, reopened} \subseteq BOOLEAN
    BY DEF Init
  <2>2. SessionTypeOK
    BY <2>1 DEF Init, SessionTypeOK
  <2>3. IdsFresh
    BY DEF Init, IdsFresh, Played
  <2> QED
    BY <2>2, <2>3
<1>2. RowSound /\ TotalIsSum /\ SealMatches /\ WarmupRespected
  BY DEF Init, RowSound, TotalIsSum, SealMatches, WarmupRespected, Played
<1>3. Carried /\ CountedOnce /\ OnlyCompletedCounts
  BY DEF Init, Carried, CountedOnce, OnlyCompletedCounts
<1> QED
  BY <1>1, <1>2, <1>3 DEF SessionInv

\* Every step of a request and of the sweep, and a broken request, keep it.
LEMMA SessionMove == SessionInv /\ [Next]_vars => SessionInv'
<1> SUFFICES ASSUME SessionInv, [Next]_vars PROVE SessionInv'
  OBVIOUS
<1>1. ASSUME NEW s \in Slots, Step(s) PROVE SessionInv'
  BY <1>1, ReplaceStep, SetUnlockStep, MarkWarmStep, MarkStartedStep, DelTokenStep,
     RecordStep, FinishStep, SealStep DEF Step
<1>2. ASSUME NEW s \in Slots,
             Claim(s) \/ GetUnlock(s) \/ StartRead(s) \/ AnswerRead(s) \/ Break(s)
      PROVE  SessionInv'
  BY <1>2, ClaimStep, GetUnlockStep, StartReadStep, AnswerReadStep, BreakStep
<1>3. CASE UNCHANGED vars
  BY <1>3 DEF vars, SessionInv, SessionTypeOK, IdsFresh, RowSound, Carried, Played,
     Warmed, Mine, At, CountedOnce, TotalIsSum, SealMatches, OnlyCompletedCounts,
     WarmupRespected
<1> QED
  BY <1>1, <1>2, <1>3, ElapseStep, GiveUpStep DEF Next

\* The strengthened invariant holds however the player's requests, the sweep and
\* broken requests interleave.
THEOREM SessionInvariance == Spec => []SessionInv
BY SessionStart, SessionMove, PTL DEF Spec

\* Row, keys and requests keep their types.
THEOREM SessionTypeCorrect == Spec => []SessionTypeOK
<1>1. SessionInv => SessionTypeOK
  BY DEF SessionInv
<1> QED
  BY <1>1, SessionInvariance, PTL

\* A session counts once, with the total of its rounds and the seal of its total,
\* for any number of rounds and of overlapping requests (finishSession).
THEOREM CountedTrulyAlways == Spec => []CountedTruly
<1>1. SessionInv => CountedTruly
  BY DEF SessionInv, CountedTruly
<1> QED
  BY <1>1, SessionInvariance, PTL

\* A player counts with one session only, not with one that was given up, and not
\* before the warm-up is over, but for the two overlaps the property names.
THEOREM FairPlayAlways == Spec => []FairPlay
<1>1. SessionInv => FairPlay
  <2> SUFFICES ASSUME SessionInv PROVE FairPlay
    OBVIOUS
  <2> DEFINE C == {i \in Ids : counted[i] > 0}
  <2>1. PlayedOnce
    <3>1. CASE ~reopened
      <4>1. IsFiniteSet({row.id}) /\ Cardinality({row.id}) = 1
        BY FS_Singleton
      <4>2. C \in SUBSET {row.id}
        BY <3>1 DEF SessionInv, OnlyCompletedCounts
      <4> QED
        BY <4>1, <4>2, FS_Subset DEF PlayedOnce
    <3> QED
      BY <3>1 DEF PlayedOnce
  <2>2. AbandonedNeverCounted
    <3>1. ASSUME Played, row.status = "abandoned", ~reopened PROVE counted[row.id] = 0
      <4>1. row.id \in Ids /\ counted[row.id] \in Nat
        BY <3>1, RowType DEF SessionInv, SessionTypeOK
      <4> QED
        BY <3>1, <4>1 DEF SessionInv, OnlyCompletedCounts
    <3> QED
      BY <3>1 DEF AbandonedNeverCounted, Played
  <2> QED
    BY <2>1, <2>2 DEF FairPlay, SessionInv
<1> QED
  BY <1>1, SessionInvariance, PTL

-------------------------------------------------------------------------------
\* Sessions and batches share no state, so each keeps its invariant beside the
\* other: a session's row, keys and requests, and the calls and transactions of
\* submitBatchPayout, keep their types together.
THEOREM PlayAndPayTypeCorrect == PpSpec => []PpTypeOK
<1>1. PpInit => SessionInv /\ BatchInv
  BY SessionStart, BatchStart DEF PpInit
<1>2. SessionInv /\ BatchInv /\ [PpNext]_ppVars => SessionInv' /\ BatchInv'
  <2> SUFFICES ASSUME SessionInv, BatchInv, [PpNext]_ppVars PROVE SessionInv' /\ BatchInv'
    OBVIOUS
  <2>1. [Next]_vars /\ [BatchNext]_batchVars
    BY DEF PpNext, AllReturned, ppVars
  <2> QED
    BY <2>1, SessionMove, BatchMove
<1>3. SessionInv /\ BatchInv => PpTypeOK
  BY DEF SessionInv, BatchInv, BatchTyped, PpTypeOK
<1> QED
  BY <1>1, <1>2, <1>3, PTL DEF PpSpec
===============================================================================
