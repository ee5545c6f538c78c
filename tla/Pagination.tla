----------------------------- MODULE Pagination -----------------------------
(***************************************************************************)
(* The paged lists of the API: a client walks one list page by page, with  *)
(* the cursor (or page number) the last answer gave it, while rows enter   *)
(* and leave the table.  A row is what the lists order by: an id, a number *)
(* (pool, score, completed sessions, fraud score) and a time stamp.  The   *)
(* database keeps microseconds; a time stamp that reaches a cursor as a    *)
(* JavaScript Date is cut to milliseconds, here two ticks.                 *)
(***************************************************************************)
EXTENDS Integers, FiniteSets, SequencesExt

CONSTANTS PgIds, PgNums, PgTimes,
          PgLimits,  \* page sizes
          MaxMoves   \* bound on the rows that enter or leave during a walk

ASSUME PgAssumption ==
  /\ PgIds \cup PgNums \cup PgTimes \subseteq Nat /\ IsFiniteSet(PgIds)
  /\ PgLimits \subseteq Nat \ {0} /\ PgLimits # {} /\ MaxMoves \in Nat

VARIABLES list,   \* the list the client walks
          limit,  \* its page size
          table,  \* the rows that meet the list's filters
          page,   \* pages fetched; for a keyset list 0 or 1: is there a cursor?
          cursor, \* the cursor of the last answer, a row
          shown,  \* how often each id was shown (capped at 2)
          edges,  \* history: the last rows of the pages so far
          moved,  \* history: ids that entered or left during the walk
          walk    \* "walking", "done" (no next page) or "failed" (an answer 500)

pgVars == <<list, limit, table, page, cursor, shown, edges, moved, walk>>

NoTime == -1
Ms(t) == IF t = NoTime THEN NoTime ELSE t - (t % 2)
\* SQL comparisons: one with NULL is not true.
Older(a, b) == a # NoTime /\ b # NoTime /\ a < b
SameTime(a, b) == a # NoTime /\ a = b

Sortings(S, Before(_, _)) ==
  {s \in SetToSeqs(S) : \A i, j \in DOMAIN s : i < j => ~Before(s[j], s[i])}

\* limit + 1 rows are asked for and the extra one announces a next page; a cursor
\* made from a Date is cut.
Probed(S, Before(_, _), cut) ==
  {[ok |-> TRUE, rows |-> SubSeq(s, 1, IF Len(s) < limit THEN Len(s) ELSE limit),
    more |-> Len(s) > limit, cut |-> cut] : s \in Sortings(S, Before)}
\* limit rows are asked for and a full page announces a next one.
Filled(S, Before(_, _), cut) ==
  {[a EXCEPT !.more = Len(a.rows) = limit] : a \in Probed(S, Before, cut)}
Failing == {[ok |-> FALSE, rows |-> <<>>, more |-> FALSE, cut |-> FALSE]}

IdUp(a, b) == a.id < b.id
NumDown(a, b) == a.num > b.num \/ (a.num = b.num /\ a.id > b.id)
NumUp(a, b) == a.num < b.num \/ (a.num = b.num /\ a.id < b.id)
NumDownIdUp(a, b) == a.num > b.num \/ (a.num = b.num /\ a.id < b.id)
TimeDown(a, b) == a.at > b.at \/ (a.at = b.at /\ a.id > b.id)  \* NULLS LAST
TimeUp(a, b) ==                                               \* NULLS LAST
  IF NoTime \in {a.at, b.at} /\ a.at # b.at THEN b.at = NoTime
  ELSE a.at < b.at \/ (a.at = b.at /\ a.id < b.id)
ScoreBoard(a, b) ==
  a.num > b.num \/ (a.num = b.num /\ (a.at < b.at \/ (a.at = b.at /\ a.id < b.id)))
FraudBoard(a, b) == a.num > b.num \/ (a.num = b.num /\ TimeDown(a, b))

\* The rows after the cursor, all rows without one.
After(Past(_)) == {r \in table : page = 0 \/ Past(r)}
PastTimeDown(r) == Older(r.at, cursor.at) \/ (SameTime(r.at, cursor.at) /\ r.id < cursor.id)
PastTimeUp(r) == Older(cursor.at, r.at) \/ (SameTime(r.at, cursor.at) /\ r.id > cursor.id)

\* The clause names a bare id, ambiguous in the joins that use it: SQL error.
buildCursorWhereSimple(first) == IF page = 0 THEN first ELSE Failing

getActiveChallengesCursor == Probed(After(LAMBDA r : r.id > cursor.id), IdUp, FALSE)
getActiveChallenges == buildCursorWhereSimple(Filled(table, NumDown, FALSE))
\* Ordered by pool, continued by id alone.
getFilteredChallenges == Probed(After(LAMBDA r : r.id > cursor.id), NumDown, FALSE)
getChallengesByBrandId == buildCursorWhereSimple(Filled(table, TimeDown, TRUE))

\* Fault: the cursor compares pools only.
SortedByPoolOnly(sort) ==
  IF sort = "pool_desc" THEN Probed(After(LAMBDA r : r.num < cursor.num), NumDown, FALSE)
  ELSE Probed(After(PastTimeDown), TimeDown, TRUE)

\* ending_soon: a row without an end follows only a cursor without one.
getActiveChallengesSorted(sort) ==
  CASE sort = "pool_desc" -> Probed(After(LAMBDA r : NumDown(cursor, r)), NumDown, FALSE)
    [] sort = "pool_asc" -> Probed(After(LAMBDA r : NumUp(cursor, r)), NumUp, FALSE)
    [] sort = "newest" -> Probed(After(PastTimeDown), TimeDown, TRUE)
    [] sort = "ending_soon" ->
         Probed(After(LAMBDA r : PastTimeUp(r) \/ (r.at = NoTime /\ cursor.at = NoTime
                                                   /\ r.id > cursor.id)), TimeUp, TRUE)

\* Ordered by completed sessions, continued by id alone.
getGalleryTemplates == Probed(After(LAMBDA r : r.id > cursor.id), NumDownIdUp, FALSE)

\* GET /challenges: by brand, unfiltered, or filtered.
ListChallenges(by) ==
  CASE by = "brand" -> getChallengesByBrandId
    [] by = "none" -> getActiveChallengesCursor
    [] by = "filter" -> getFilteredChallenges

PastScore(r) == r.num < cursor.num \/ (r.num = cursor.num /\ PastTimeUp(r))
\* Sorted by rank or creation the score is compared the other way round; times of
\* creation are not kept, so those rows come in any order.
getLeaderboard(sort) ==
  IF sort = "score" THEN Filled(After(PastScore), ScoreBoard, TRUE)
  ELSE Filled(After(LAMBDA r : r.num > cursor.num \/ (r.num = cursor.num /\ PastTimeUp(r))),
              LAMBDA a, b : sort = "rank" /\ ScoreBoard(a, b), TRUE)
getLeaderboardForCsvExport == Filled(After(PastScore), ScoreBoard, TRUE)
getArchivedLeaderboard == Filled(After(PastScore), ScoreBoard, TRUE)

\* A session that is not finished follows every cursor.
getSessionHistory ==
  Probed(After(LAMBDA r : PastTimeDown(r) \/ r.at = NoTime), TimeDown, TRUE)

getCohortUsers == Probed(After(PastTimeDown), TimeDown, TRUE)
BrandCatalog == Probed(After(PastTimeDown), TimeDown, TRUE)
AdminUsers(order) ==
  IF order = "fraudScore"
  THEN Probed(After(LAMBDA r : r.num < cursor.num \/ (r.num = cursor.num /\ PastTimeDown(r))),
              FraudBoard, TRUE)
  ELSE Probed(After(PastTimeDown), TimeDown, TRUE)

\* to_char keeps the microseconds.
listChallengeComments == Probed(After(PastTimeDown), TimeDown, FALSE)
listInviteCodes == Probed(After(PastTimeDown), TimeDown, FALSE)

getPayouts == buildCursorWhereSimple(Filled(table, TimeDown, TRUE))
getFraudFlags == buildCursorWhereSimple(Filled(table, TimeDown, TRUE))
\* With a cursor the count query is given fewer parameters than it names.
listUsers == IF page = 0 THEN Filled(table, TimeDown, TRUE) ELSE Failing
\* The totals query names an alias it does not declare: no page is ever answered.
MyEarnings == Failing

\* LIMIT and OFFSET; rows of one time come in any order.
Offset(Before(_, _)) ==
  {[ok |-> TRUE, rows |-> SubSeq(s, page * limit + 1,
                                 IF Len(s) < (page + 1) * limit THEN Len(s) ELSE (page + 1) * limit),
    more |-> Len(s) > (page + 1) * limit, cut |-> FALSE] : s \in Sortings(table, Before)}
\* Fault: a next page is always announced.
AuditLogEndless == {[x EXCEPT !.more = TRUE] : x \in Offset(LAMBDA a, b : a.at > b.at)}
AuditLog == Offset(LAMBDA a, b : a.at > b.at)
AdminChallenges == Offset(LAMBDA a, b : a.at > b.at)
searchUsersByUsername == Offset(IdUp)

\* The handlers hand on the answer of their query; a challenge's board is read from
\* the archive once it is archived.
ActiveRoute(sort) == getActiveChallengesSorted(sort)
LeaderboardRoute(sort) == getLeaderboard(sort)
ChallengeLeaderboard(archived) == IF archived THEN getArchivedLeaderboard ELSE getLeaderboard("score")
HistoryRoute == getSessionHistory
SearchRoute == searchUsersByUsername
AdminFraudFlags == getFraudFlags
AdminPayouts == getPayouts
AdminCohort == getCohortUsers
CommentsRoute == listChallengeComments
InviteCodesRoute == listInviteCodes
GalleryRoute == getGalleryTemplates

ExactLists == {"active", "pool_desc", "pool_asc", "comments", "invite_codes"}
CutLists == {"newest", "cohort", "catalog", "admin_users", "fraud_score"}
BoardLists == {"score", "challenge", "csv", "archived"}
OffsetLists == {"audit", "admin_challenges", "search"}
Lists == ExactLists \cup CutLists \cup BoardLists \cup OffsetLists \cup
  {"active_pool", "filter", "brand", "ending_soon", "gallery", "rank", "created_at",
   "history", "payouts", "fraud_flags", "list_users", "earnings"}
Nullable == {"history", "ending_soon", "list_users"}

Answers ==
  CASE list \in {"brand", "filter"} -> ListChallenges(list)
    [] list = "active" -> ListChallenges("none")
    [] list = "active_pool" -> getActiveChallenges
    [] list \in {"pool_desc", "pool_asc", "newest", "ending_soon"} -> ActiveRoute(list)
    [] list = "gallery" -> GalleryRoute
    [] list \in {"score", "rank", "created_at"} -> LeaderboardRoute(list)
    [] list = "csv" -> getLeaderboardForCsvExport
    [] list \in {"archived", "challenge"} -> ChallengeLeaderboard(list = "archived")
    [] list = "history" -> HistoryRoute
    [] list = "cohort" -> AdminCohort
    [] list = "catalog" -> BrandCatalog
    [] list = "admin_users" -> AdminUsers("createdAt")
    [] list = "fraud_score" -> AdminUsers("fraudScore")
    [] list = "comments" -> CommentsRoute
    [] list = "invite_codes" -> InviteCodesRoute
    [] list = "payouts" -> AdminPayouts
    [] list = "fraud_flags" -> AdminFraudFlags
    [] list = "list_users" -> listUsers
    [] list = "earnings" -> MyEarnings
    [] list = "audit" -> AuditLog
    [] list = "admin_challenges" -> AdminChallenges
    [] list = "search" -> SearchRoute

\* A table holds at most one row of an id; what a list does not order by is fixed.
ByNumber == {"pool_desc", "pool_asc", "active_pool", "filter", "gallery", "rank", "created_at", "fraud_score"} \cup BoardLists
ByTime == Lists \ {"active", "pool_desc", "pool_asc", "active_pool", "filter", "gallery", "search"}
PgRows(l) == [id : PgIds, num : IF l \in ByNumber THEN PgNums ELSE {1},
              at : IF l \notin ByTime THEN {0}
                   ELSE IF l \in Nullable THEN PgTimes \cup {NoTime} ELSE PgTimes]

PgInit ==
  /\ list \in Lists /\ limit \in PgLimits
  /\ \E ids \in SUBSET PgIds : \E f \in [ids -> PgRows(list)] :
       (\A i \in ids : f[i].id = i) /\ table = {f[i] : i \in ids}
  /\ page = 0 /\ cursor = [id |-> 0, num |-> 0, at |-> 0]
  /\ shown = [i \in PgIds |-> 0] /\ edges = {} /\ moved = {} /\ walk = "walking"

Cursor(a) == LET r == Last(a.rows) IN IF a.cut THEN [r EXCEPT !.at = Ms(@)] ELSE r
Times(a, i) == Cardinality({k \in DOMAIN a.rows : a.rows[k].id = i})

\* The client asks for the next page until none is announced.
FetchPage ==
  /\ walk = "walking"
  /\ \E a \in Answers :
       /\ walk' = IF ~a.ok THEN "failed" ELSE IF a.more THEN "walking" ELSE "done"
       /\ shown' = [i \in PgIds |-> IF shown[i] + Times(a, i) > 2 THEN 2 ELSE shown[i] + Times(a, i)]
       /\ page' = IF list \in OffsetLists THEN page + 1 ELSE 1
       /\ IF a.more /\ a.rows # <<>> THEN cursor' = Cursor(a) /\ edges' = edges \cup {Last(a.rows)}
                    ELSE UNCHANGED <<cursor, edges>>
  /\ UNCHANGED <<list, limit, table, moved>>

\* A row enters the list, at the newest time of its table unless the time is an end.
RowEnters(r) ==
  /\ walk = "walking" /\ Cardinality(moved) < MaxMoves
  /\ r.id \notin moved /\ \A q \in table : q.id # r.id
  /\ list = "ending_soon" \/ r.at = NoTime \/ \A q \in table : q.at <= r.at
  /\ table' = table \cup {r} /\ moved' = moved \cup {r.id}
  /\ UNCHANGED <<list, limit, page, cursor, shown, edges, walk>>

\* A row leaves the list: deleted, ended, flagged; audit rows never do.
RowLeaves(r) ==
  /\ walk = "walking" /\ Cardinality(moved) < MaxMoves
  /\ r.id \notin moved /\ list # "audit"
  /\ table' = table \ {r} /\ moved' = moved \cup {r.id}
  /\ UNCHANGED <<list, limit, page, cursor, shown, edges, walk>>

PgNext ==
  \/ FetchPage
  \/ \E r \in PgRows(list) : RowEnters(r)
  \/ \E r \in table : RowLeaves(r)

PgSpec == PgInit /\ [][PgNext]_pgVars
------------------------------------------------------------------------------
\* Lists, rows and walks are well formed; an offset walk never runs past its table.
PgTypeOK ==
  /\ list \in Lists /\ limit \in PgLimits /\ table \subseteq PgRows(list)
  /\ page \in 0 .. Cardinality(PgIds) + 1 /\ shown \in [PgIds -> 0 .. 2]
  /\ walk \in {"walking", "done", "failed"}

\* A walk shows no row twice, whatever enters or leaves meanwhile: the keyset
\* lists with a descending time or an exact key; a page by offset repeats a row
\* only when rows moved or, in the lists by time alone, two rows have one time
\* (routes/admin/audit-log.ts:118); a score board repeats rows only of the
\* score and millisecond of a page's last row (db/queries/sessions.ts:413).
ShownOnce ==
  \A r \in table : shown[r.id] > 1 =>
    \/ list \in BoardLists /\ \E e \in edges :
         e.num = r.num /\ Ms(e.at) = Ms(r.at) /\ e.at # Ms(e.at)
    \/ list \in OffsetLists /\ (moved # {} \/ \E q \in table \ {r} : q.at = r.at)
    \/ list \notin ExactLists \cup CutLists \cup BoardLists \cup OffsetLists

\* A finished walk has shown every row that stayed: all of them when the cursor
\* keeps the microseconds or the order is ascending; otherwise all but rows of
\* the millisecond in which a page ended (db/pagination.ts:7).
NothingMissed ==
  walk = "done" /\ list \in ExactLists \cup CutLists \cup BoardLists =>
    \A r \in table : r.id \in moved \/ shown[r.id] > 0
      \/ (list \in CutLists /\ \E e \in edges : Ms(e.at) = Ms(r.at) /\ e # r)
=============================================================================
