------------------------------- MODULE Views -------------------------------
(***************************************************************************)
(* What the API's read routes show of brands, challenges, plays, ratings   *)
(* and payouts while those change: every view is an operator over the rows *)
(* its SQL reads.  The global board is read from a materialised view that  *)
(* a queued job refreshes, and is cached.  A payout row is written and     *)
(* paid in one step here; PayoutPipeline has its steps.  Nothing in the    *)
(* repository ends a challenge or calls flagSession: both are taken as an  *)
(* operator's work.                                                        *)
(***************************************************************************)
EXTENDS Integers, FiniteSets

CONSTANTS ViBrands, ViChs, ViUsers,
          BrandOf,       \* the brand of a challenge
          BenchmarkMin,  \* BENCHMARK_MIN_CHALLENGES
          MaxEvents      \* bound on the writes of a behaviour

ASSUME ViAssumption ==
  /\ IsFiniteSet(ViChs) /\ IsFiniteSet(ViUsers)
  /\ BrandOf \in [ViChs -> ViBrands] /\ BenchmarkMin \in Nat \ {0} /\ MaxEvents \in Nat

VARIABLES closed,   \* deleted brands
          account,  \* "active", "suspended" or "deleted"
          status,   \* challenges.status
          hidden,   \* challenges with a deleted_at
          gallery,  \* challenges opted into the gallery
          plays,    \* game_sessions: a row per user and challenge
          payouts,  \* payouts: "none", "pending", "sent" or "failed"
          ratings,  \* challenge_ratings
          accused,  \* users with a fraud flag
          mv,       \* the rows of v_leaderboard_global
          queued,   \* is a refresh job queued?
          board,    \* the cached global board, or NoBoard
          reader,   \* a reader of the global board between its query and its store
          drift,    \* history: plays whose standing changed since the last refresh
          escaped,  \* history: challenges hidden when their brand was deleted
          events

viVars == <<closed, account, status, hidden, gallery, plays, payouts, ratings, accused,
            mv, queued, board, reader, drift, escaped, events>>

Pairs == ViUsers \X ViChs
NoBoard == {<<>>}
NoPlay == [st |-> "none", flagged |-> FALSE, practice |-> FALSE, done |-> FALSE]

ChsOf(b) == {c \in ViChs : BrandOf[c] = b}
Kept(b) == ChsOf(b) \ hidden
PlaysOf(C) == {p \in Pairs : p[2] \in C /\ plays[p].st # "none"}
CompletedOf(C) == {p \in PlaysOf(C) : plays[p].st = "completed"}
Paid == {p \in Pairs : payouts[p] = "sent"}  \* status IN ('sent', 'confirmed')
------------------------------------------------------------------------------
\* Brands.
getBrandsByOwner == ViBrands \ closed
getPublicBrandById(b) == b \notin closed
getPublicBrands == {b \in ViBrands \ closed : \E c \in Kept(b) : status[c] = "active"}
\* GET /brands/public counts hidden challenges too.
BrandDirectory == [b \in ViBrands \ closed |-> Cardinality({c \in ChsOf(b) : status[c] = "active"})]
getPublicBrandChallenges(b) ==
  {c \in Kept(b) : status[c] \in {"active", "ended", "settled", "payout_failed"}}
FairRatings(C) == {p \in ratings : p[2] \in C /\ p[1] \notin accused}
\* No payout row ever has the status 'completed'.
getPublicBrandStats(b) ==
  [challenges |-> Cardinality(Kept(b)),
   paid |-> Cardinality({p \in Pairs : p[2] \in ChsOf(b) /\ payouts[p] = "completed"}),
   ratings |-> Cardinality(FairRatings(ChsOf(b)))]
BrandProfile(b) ==
  IF ~getPublicBrandById(b) THEN {} ELSE {<<getPublicBrandChallenges(b), getPublicBrandStats(b)>>}
MyBrands == [b \in getBrandsByOwner |-> Kept(b)]
getChallengeRatingStats(c) == Cardinality(FairRatings({c}))
getBrandRatingStats(b) == Cardinality(FairRatings(ChsOf(b)))
getBrandRatingStatsByChallenge(b) ==
  [c \in {p[2] : p \in FairRatings(ChsOf(b))} |-> getChallengeRatingStats(c)]

\* The view brand_challenge_stats: hidden challenges stay in, cancelled ones do not.
getBrandChallengeStats(b) ==
  [c \in {x \in ChsOf(b) : status[x] \notin {"cancelled", "refunded"}} |->
    LET fair == {p \in PlaysOf({c}) : ~plays[p].flagged}
    IN [total |-> Cardinality(fair), completed |-> Cardinality(fair \cap CompletedOf({c}))]]
BrandDashboard(b) ==
  [stats |-> getBrandChallengeStats(b), rated |-> getBrandRatingStats(b),
   byChallenge |-> getBrandRatingStatsByChallenge(b)]

\* Brand analytics: the accuracy query names a column the table does not have.
getChallengeIdsForBrand(b) == Kept(b)
getSessionStats(C) == [total |-> Cardinality(PlaysOf(C)), completed |-> Cardinality(CompletedOf(C))]
getQuestionAccuracy(C) == C = {}
getCostPerSession(C) == Cardinality(PlaysOf(C))  \* each play is charged its whole pool
getBrandAnalytics(b) ==
  LET C == getChallengeIdsForBrand(b)
  IN IF C = {} \/ getQuestionAccuracy(C)
     THEN [ok |-> TRUE, stats |-> getSessionStats(C), cost |-> getCostPerSession(C)]
     ELSE [ok |-> FALSE, stats |-> getSessionStats({}), cost |-> 0]
metricsFromRow(b) ==
  LET n == getSessionStats(Kept(b))
  IN IF n.total = 0 THEN {} ELSE {<<n.completed, n.total>>}
\* The brands whose rates the medians are taken of.
getPlatformBenchmarkMedians ==
  {b \in ViBrands \ closed : Cardinality(Kept(b)) >= BenchmarkMin /\ PlaysOf(Kept(b)) # {}}
getBrandBenchmark(b) ==
  [own |-> metricsFromRow(b),
   sample |-> IF Cardinality(Kept(b)) >= BenchmarkMin THEN getPlatformBenchmarkMedians ELSE {}]
getBrandRetention(b) ==
  IF Cardinality({c \in Kept(b) : status[c] # "draft"}) < 2 THEN {}
  ELSE {p[1] : p \in {q \in PlaysOf(Kept(b)) : ~plays[q].flagged /\ ~plays[q].practice
                                               /\ plays[q].st # "flagged"}}
------------------------------------------------------------------------------
\* Challenges.
getChallengeByIdAny(c) == c \notin hidden
ActiveList == {c \in ViChs \ hidden : status[c] = "active" /\ BrandOf[c] \notin closed}
getGalleryTemplateById(c) ==
  IF c \in gallery \ hidden /\ BrandOf[c] \notin closed
  THEN {<<Cardinality(CompletedOf({c})), Cardinality(PlaysOf({c}))>>} ELSE {}
ChallengeStats(c) ==
  IF ~getChallengeByIdAny(c) THEN {}
  ELSE {[total |-> Cardinality(PlaysOf({c})), completed |-> Cardinality(CompletedOf({c})),
         out |-> Cardinality({p \in PlaysOf({c}) : plays[p].flagged \/ plays[p].st = "flagged"}),
         paid |-> Cardinality({p \in Paid : p[2] = c})]}
ChallengeFraud(c) == IF c \in hidden THEN {} ELSE {p \in PlaysOf({c}) : p[1] \in accused}

\* Fault: practice plays are ranked.
RankedPractice(p) ==
  plays[p].st = "completed" /\ ~plays[p].flagged /\ account[p[1]] # "deleted"

\* Boards.
Ranked(p) ==
  /\ plays[p].st = "completed" /\ ~plays[p].flagged /\ ~plays[p].practice
  /\ account[p[1]] # "deleted"
getTopSessionsPerChallenge(C) == {p \in PlaysOf(C) : Ranked(p)}
getGlobalLeaderboardFromView(C) == {p \in mv : p[2] \in C}
StreamSnapshot == getTopSessionsPerChallenge(ActiveList)
\* Practice plays and abandoned ones score for a team, deleted members too.
getChallengeTeamLeaderboard(c) == {p \in PlaysOf({c}) : ~plays[p].flagged /\ plays[p].done}
getSessionShareCard(p) == plays[p].done /\ ~plays[p].practice /\ ~plays[p].flagged

\* Users.
PublicProfile(u) ==
  IF account[u] # "active" THEN {}
  ELSE LET mine == {p \in CompletedOf(ViChs) : p[1] = u}
       IN {[wins |-> Cardinality({p \in mine : ~plays[p].practice}), played |-> Cardinality(mine)]}
AdminStats ==
  [users |-> Cardinality({u \in ViUsers : account[u] # "deleted"}),
   dau |-> Cardinality({p[1] : p \in {q \in Pairs : plays[q].done}}),
   paid |-> Cardinality(Paid), completed |-> Cardinality(CompletedOf(ViChs)),
   top |-> {b \in ViBrands : CompletedOf(ChsOf(b)) # {}}]
collectUserData(u) ==
  [plays |-> {p \in PlaysOf(ViChs) : p[1] = u}, ratings |-> {p \in ratings : p[1] = u},
   payouts |-> {p \in Pairs : p[1] = u /\ payouts[p] # "none"}, flagged |-> u \in accused]
------------------------------------------------------------------------------
ViInit ==
  /\ closed = {} /\ account = [u \in ViUsers |-> "active"]
  /\ status = [c \in ViChs |-> "active"] /\ hidden = {} /\ gallery = {}
  /\ \E t \in [Pairs -> {"real", "practice", "none"}] :
       plays = [p \in Pairs |->
         IF t[p] = "none" THEN NoPlay
         ELSE [NoPlay EXCEPT !.st = "active", !.practice = t[p] = "practice"]]
  /\ payouts = [p \in Pairs |-> "none"] /\ ratings = {} /\ accused = {}
  /\ mv = {} /\ queued = FALSE /\ board = NoBoard /\ reader = NoBoard
  /\ drift = {} /\ escaped = {} /\ events = 0

Event == events < MaxEvents /\ events' = events + 1
StillBoard == UNCHANGED <<mv, queued, board, reader>>
Standing(P) == drift' = drift \cup P

ChangePlay(p, row) ==
  /\ Event /\ plays' = [plays EXCEPT ![p] = row] /\ Standing({p}) /\ StillBoard
  /\ UNCHANGED <<closed, account, status, hidden, gallery, payouts, ratings, accused, escaped>>
StartPlay(p, practice) ==
  /\ plays[p].st = "none" /\ status[p[2]] = "active" /\ p[2] \notin hidden
  /\ account[p[1]] = "active"
  /\ ChangePlay(p, [NoPlay EXCEPT !.st = "active", !.practice = practice])
finishSession(p) ==
  /\ plays[p].st # "none" /\ ~plays[p].done
  /\ ChangePlay(p, [plays[p] EXCEPT !.st = "completed", !.done = TRUE])
abandonSession(p) ==
  /\ plays[p].st = "active"
  /\ ChangePlay(p, [plays[p] EXCEPT !.st = "abandoned", !.done = TRUE])
flagSession(p) ==
  /\ plays[p].st # "none" /\ ~plays[p].flagged
  /\ ChangePlay(p, [plays[p] EXCEPT !.st = "flagged", !.flagged = TRUE])
createFraudFlag(u) ==
  /\ u \notin accused /\ \E c \in ViChs : plays[<<u, c>>].st # "none"
  /\ Event /\ accused' = accused \cup {u} /\ StillBoard
  /\ UNCHANGED <<closed, account, status, hidden, gallery, plays, payouts, ratings, drift, escaped>>

hasCompletedChallenge(u, c) == plays[<<u, c>>].st = "completed"
isUserFraudFlagged(u) == u \in accused
upsertChallengeRating(u, c) == ratings' = ratings \cup {<<u, c>>}
RateChallenge(u, c) ==
  /\ getChallengeByIdAny(c) /\ account[u] = "active"
  /\ ~isUserFraudFlagged(u) /\ hasCompletedChallenge(u, c) /\ <<u, c>> \notin ratings
  /\ Event /\ upsertChallengeRating(u, c) /\ StillBoard
  /\ UNCHANGED <<closed, account, status, hidden, gallery, plays, payouts, accused, drift, escaped>>

ChangeAccount(u) ==
  \E s \in {"active", "suspended", "deleted"} \ {account[u]} :
    /\ Event /\ account' = [account EXCEPT ![u] = s]
    /\ Standing({p \in Pairs : p[1] = u}) /\ StillBoard
    /\ UNCHANGED <<closed, status, hidden, gallery, plays, payouts, ratings, accused, escaped>>

SetHidden(c, new) ==
  /\ Event /\ hidden' = new /\ StillBoard
  /\ UNCHANGED <<closed, account, status, gallery, plays, payouts, ratings, accused, drift, escaped>>
HideChallenge(c) == c \notin hidden /\ SetHidden(c, hidden \cup {c})
RestoreHidden(c) == c \in hidden /\ SetHidden(c, hidden \ {c})

CancelOf(b) == {c \in Kept(b) : status[c] = "active"}
CloseBrand(b) ==
  /\ b \notin closed /\ Event
  /\ closed' = closed \cup {b}
  /\ status' = [c \in ViChs |-> IF c \in CancelOf(b) THEN "cancelled" ELSE status[c]]
  /\ escaped' = escaped \cup (ChsOf(b) \cap hidden) /\ StillBoard
  /\ UNCHANGED <<account, hidden, gallery, plays, payouts, ratings, accused, drift>>

\* An operator ends a challenge; its payout job is enqueued, and with it a refresh.
EndChallenge(c) ==
  /\ status[c] = "active" /\ c \notin hidden /\ Event
  /\ status' = [status EXCEPT ![c] = "ended"] /\ queued' = TRUE
  /\ UNCHANGED <<closed, account, hidden, gallery, plays, payouts, ratings, accused,
                 mv, board, reader, drift, escaped>>
PayWinners(c) ==
  /\ status[c] = "ended" /\ c \notin hidden /\ Event
  /\ payouts' = [p \in Pairs |-> IF p[2] = c /\ Ranked(p) THEN "sent" ELSE payouts[p]]
  /\ status' = [status EXCEPT ![c] = "settled"] /\ StillBoard
  /\ UNCHANGED <<closed, account, hidden, gallery, plays, ratings, accused, drift, escaped>>

Galleried == {"settled", "ended", "payout_failed"}
SetGallery(new) ==
  /\ Event /\ gallery' = new /\ StillBoard
  /\ UNCHANGED <<closed, account, status, hidden, plays, payouts, ratings, accused, drift, escaped>>
optChallengeIntoGallery(c) ==
  c \notin hidden \cup gallery /\ status[c] \in Galleried /\ SetGallery(gallery \cup {c})
optChallengeOutOfGallery(c) == c \in gallery \ hidden /\ SetGallery(gallery \ {c})

\* The refresh job: the view, then the cached boards.
refreshLeaderboardView ==
  /\ queued /\ queued' = FALSE
  /\ mv' = {p \in Pairs : Ranked(p)} /\ drift' = {} /\ board' = NoBoard
  /\ UNCHANGED <<closed, account, status, hidden, gallery, plays, payouts, ratings,
                 accused, reader, escaped, events>>

\* GET /leaderboard/global: load on a miss, then store; the entry expires.
GlobalBoardLoad ==
  /\ board = NoBoard /\ reader = NoBoard
  /\ reader' = getGlobalLeaderboardFromView(ActiveList)
  /\ UNCHANGED <<closed, account, status, hidden, gallery, plays, payouts, ratings,
                 accused, mv, queued, board, drift, escaped, events>>
GlobalBoardStore ==
  /\ reader # NoBoard /\ board' = reader /\ reader' = NoBoard
  /\ UNCHANGED <<closed, account, status, hidden, gallery, plays, payouts, ratings,
                 accused, mv, queued, drift, escaped, events>>
GlobalBoardExpires ==
  /\ board # NoBoard /\ board' = NoBoard
  /\ UNCHANGED <<closed, account, status, hidden, gallery, plays, payouts, ratings,
                 accused, mv, queued, reader, drift, escaped, events>>

ViNext ==
  \/ \E p \in Pairs : \/ finishSession(p) \/ abandonSession(p) \/ flagSession(p)
                      \/ \E practice \in BOOLEAN : StartPlay(p, practice)
                      \/ RateChallenge(p[1], p[2])
  \/ \E u \in ViUsers : createFraudFlag(u) \/ ChangeAccount(u)
  \/ \E c \in ViChs : \/ HideChallenge(c) \/ RestoreHidden(c) \/ EndChallenge(c) \/ PayWinners(c)
                      \/ optChallengeIntoGallery(c) \/ optChallengeOutOfGallery(c)
  \/ \E b \in ViBrands : CloseBrand(b)
  \/ refreshLeaderboardView \/ GlobalBoardLoad \/ GlobalBoardStore \/ GlobalBoardExpires

ViSpec == ViInit /\ [][ViNext]_viVars
------------------------------------------------------------------------------
\* Rows are well formed; the boards hold plays.
ViTypeOK ==
  /\ closed \subseteq ViBrands /\ hidden \cup gallery \subseteq ViChs
  /\ \A p \in Pairs : plays[p].done => plays[p].st \in {"completed", "abandoned", "flagged"}
  /\ mv \subseteq Pairs /\ (board = NoBoard \/ board \subseteq Pairs)
  /\ ratings \subseteq Pairs /\ events <= MaxEvents

\* Whatever board is read, its rows are real plays that were completed; a row of the
\* materialised view no longer deserves its place only while no refresh has run
\* since the play was flagged or the player's account changed
\* (queues/leaderboard-refresh.queue.ts:24).
BoardRowsReal ==
  /\ \A p \in mv : ~Ranked(p) => p \in drift
  /\ \A p \in mv \cup (IF board = NoBoard THEN {} ELSE board) :
       plays[p].done /\ ~plays[p].practice /\ plays[p].st # "abandoned"

\* The views of a brand agree with one another: the directory counts every active
\* challenge the catalogue lists (and hidden ones besides); the dashboard's plays are
\* those of the challenge's statistics less the flagged ones; the profile and
\* the dashboard count the same ratings, the gallery and the statistics the same
\* plays; a brand in the benchmark's sample has a rate of its own; its
\* analytics answer only while it has no challenge; two challenges never paid more
\* than an administrator sees paid.
ViewsReconcile ==
  /\ \A b \in ViBrands \ closed :
       /\ b \in getPublicBrands => BrandDirectory[b] > 0
       /\ BrandDirectory[b] > 0 => b \in getPublicBrands \/ \E c \in ChsOf(b) \cap hidden : status[c] = "active"
       /\ \A c \in DOMAIN BrandDashboard(b).stats : \A s \in ChallengeStats(c) :
            /\ BrandDashboard(b).stats[c].total
                 = s.total - Cardinality({p \in PlaysOf({c}) : plays[p].flagged})
            /\ \A g \in getGalleryTemplateById(c) : g = <<s.completed, s.total>>
       /\ \A f \in BrandProfile(b) : f[2].ratings = BrandDashboard(b).rated
       /\ b \in getBrandBenchmark(b).sample => getBrandBenchmark(b).own # {}
       /\ getBrandAnalytics(b).ok <=> MyBrands[b] = {}
       /\ getBrandRetention(b) \subseteq {p[1] : p \in PlaysOf(Kept(b))}
       /\ \A c \in getPublicBrandChallenges(b) : status[c] = "active" <=> c \in ActiveList
  /\ \A C \in SUBSET ViChs : C \cap hidden = {} =>
       LET S == [c \in C |-> CHOOSE s \in ChallengeStats(c) : TRUE]
       IN \A c, d \in C : c # d => S[c].paid + S[d].paid <= AdminStats.paid

\* A ranked play counts wherever plays are shown: for its team, on its share card,
\* in its player's public wins, in the stream while its challenge runs and in the
\* player's data; and whoever was paid had a real play he finished.
RankedCounts ==
  /\ \A p \in getTopSessionsPerChallenge(ViChs) :
       /\ p \in getChallengeTeamLeaderboard(p[2]) /\ getSessionShareCard(p)
       /\ \A f \in PublicProfile(p[1]) : f.wins > 0 /\ f.played >= f.wins
       /\ p[2] \in ActiveList => p \in StreamSnapshot
       /\ p \in collectUserData(p[1]).plays /\ AdminStats.completed > 0
  /\ \A p \in Paid : plays[p].done /\ ~plays[p].practice /\ p \in collectUserData(p[1]).payouts
  /\ \A c \in ViChs : \A p \in ChallengeFraud(c) : collectUserData(p[1]).flagged

\* A rating was given by someone who completed the challenge: later the play may be
\* flagged, it is never an abandoned one (db/queries/challenge-ratings.ts:41).
RatingsEarned ==
  \A p \in ratings : plays[p].done /\ plays[p].st \in {"completed", "flagged"}

\* Once a brand is deleted nobody can open an active challenge of it, unless an
\* administrator had hidden the challenge then and restored it since: deleteBrand
\* cancels only what is not hidden (db/queries/brands.ts:302).
ClosedBrandStops ==
  \A c \in ActiveList \cup {x \in ViChs : getChallengeByIdAny(x) /\ status[x] = "active"} :
    BrandOf[c] \in closed => c \in escaped

\* Every board, profile, card and statistic shows what the rows say: completed
\* real plays on the boards, ranked plays wherever plays are shown, ratings of
\* players who completed, sums that agree, nothing of a deleted brand to play.
ViewsHonest ==
  BoardRowsReal /\ RankedCounts /\ RatingsEarned /\ ViewsReconcile /\ ClosedBrandStops
=============================================================================
