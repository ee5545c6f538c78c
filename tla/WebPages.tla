------------------------------ MODULE WebPages ------------------------------
(* The pages and panels of apps/web that load data from the API.  Each is one   *)
(* React component with the same skeleton: an effect starts a load, the answer  *)
(* sets the rows, a failure sets an error flag or empties the rows, a filter    *)
(* starts another load beside the first, a button writes and then reloads or    *)
(* patches the rows it has.  They differ in the details that decide whether the *)
(* screen can be believed, and those details are what a page's definitions say: *)
(*                                                                              *)
(*   XLoad    how it loads:                                                     *)
(*     token   the loader returns at once without an API token                  *)
(*     login   an unauthenticated visitor is sent away (router.push)            *)
(*     waits   the loading flag is TRUE before the first load                   *)
(*     ends    the flag is cleared when there is no token                       *)
(*     spins   a load sets the flag again       wipes   and empties the rows    *)
(*     tells   a failure sets an error flag     clears  and empties the rows    *)
(*     late    the error flag is cleared by a success, not by the next load     *)
(*     latest  the answer of a load another one replaced is dropped             *)
(*             (`cancelled` in the effect's clean-up)                           *)
(*     keyed   the visitor's choice (filter, range, page, record) is part of it *)
(*     calm    and cannot change while the flag is set                          *)
(*     manual  a change of the choice loads nothing: a button does              *)
(*     home    the rows of the first choice come with the page                  *)
(*     props   the rows of every choice do      polls   an interval loads again *)
(*     more    the next page is appended        moreTells  its failure is told  *)
(*     moreSpins  it sets and clears the loading flag, and clears the error     *)
(*     retry   a button loads again                                             *)
(*   XWrites  what its buttons do on the server:                                *)
(*     reloads / patches / leaves   what follows the server's yes               *)
(*     awaits  the button stays busy until the reload is over                   *)
(*     once    a second write is refused while one is under way                 *)
(*     form    possible without rows on the screen                              *)
(*     early   possible even while the flag is set                              *)
(*     shares  the busy flag is also that of the next page's button             *)
(*     tells   its failure sets the page's error flag, which it clears first    *)
(*   XShown   the order in which the render tests what to show.                 *)
EXTENDS Integers, Sequences, FiniteSets

CONSTANTS MaxLoads,   \* loads in a behaviour
          MaxPageWrites \* writes in a behaviour

ASSUME WpAssumption == MaxLoads \in Nat \ {0} /\ MaxPageWrites \in Nat

PageKeys == 1..2
PageWrites == 1..MaxPageWrites

-----------------------------------------------------------------------------
(* Administration *)
AdminLoad == {"token", "login", "waits", "spins"}

PayoutsLoad == AdminLoad \cup {"clears", "keyed"}
PayoutsWrites == {"reloads", "awaits"}
PayoutsShown == <<"spinner", "none", "rows">>

FraudLoad == AdminLoad \cup {"clears", "keyed"}
FraudWrites == {"reloads", "awaits", "once"}
FraudShown == <<"spinner", "none", "rows">>

OperationsLoad == AdminLoad \cup {"clears", "keyed"}
OperationsShown == <<"spinner", "none", "rows">>

\* The detail dialog opens with whatever it holds when the request fails.
OperationDetailLoad == {"token", "keyed", "manual", "retry"}

AuditLoad == AdminLoad \cup {"keyed", "polls", "retry"}
AuditShown == <<"none", "rows">>

StatsLoad == AdminLoad \cup {"tells", "keyed", "retry"}
StatsWrites == {"reloads", "awaits", "once"}
StatsShown == <<"spinner", "sorry", "rows">>

UsersLoad == AdminLoad \cup {"clears", "keyed"}
UsersWrites == {"reloads", "awaits", "once"}
UsersShown == <<"spinner", "none", "rows">>

CohortLoad == {"spins", "tells", "keyed", "manual", "retry", "more", "moreTells",
               "moreSpins"}
CohortShown == <<"sorry", "hidden", "rows">>

-----------------------------------------------------------------------------
(* The brand's dashboard *)
DashboardLoad == {"token", "login", "waits", "spins", "tells", "clears", "retry"}
DashboardWrites == {"patches", "once"}
DashboardShown == <<"spinner", "sorry", "none", "rows">>

LicensingLoad == {"token"}
LicensingWrites == {"reloads", "awaits", "once"}

DuplicateWrites == {"reloads", "once"}
DuplicateShown == <<"rows">>

InviteCodesLoad == {"token", "waits", "spins", "tells", "latest", "more", "moreTells", "retry"}
InviteCodesWrites == {"patches", "once", "early", "shares", "tells"}
InviteCodesShown == <<"sorry", "spinner", "none", "rows">>

TeamLoad == {"token", "waits"}
TeamWrites == {"reloads", "early"}
TeamShown == <<"spinner", "none", "rows">>

BenchmarkLoad == {"token", "waits", "latest"}
BenchmarkShown == <<"spinner", "hidden", "rows">>

RetentionLoad == {"token", "waits", "spins", "wipes", "tells", "latest", "retry"}
RetentionShown == <<"sorry", "spinner", "rows">>

LeagueScoringLoad == {"token"}
LeagueScoringWrites == {"patches", "early"}
LeagueScoringShown == <<"rows">>

BudgetWrites == {"patches", "once", "form"}
BudgetShown == <<"rows">>

AnalyticsLoad == {"token", "login", "waits", "spins", "tells", "clears", "keyed", "calm", "retry"}
AnalyticsShown == <<"spinner", "sorry", "none", "rows">>

PreviewLoad == {"token", "login", "waits", "spins"}
PreviewWrites == {"patches"}
PreviewShown == <<"spinner", "none", "rows">>

TopUpLoad == {"token", "ends", "spins", "wipes", "tells", "latest", "keyed"}
TopUpShown == <<"spinner", "sorry", "hidden", "rows">>

GalleryLoad == {"login", "spins", "tells", "clears"}
GalleryShown == <<"spinner", "sorry", "hidden", "rows">>

CloneWrites == {"leaves", "once", "form"}
CloneShown == <<"none", "rows">>

-----------------------------------------------------------------------------
(* The player's pages *)
DiscoveryLoad == {"waits", "spins", "tells", "keyed", "more", "retry"}
DiscoveryShown == <<"spinner", "bare", "none", "rows">>

IndexLoad == {"waits", "tells", "late", "more", "moreTells"}
IndexShown == <<"spinner", "bare", "none", "rows">>

DirectoryLoad == {"waits", "spins", "tells", "latest"}
DirectoryShown == <<"spinner", "sorry", "none", "rows">>

BoardClientLoad == {"spins", "tells", "clears", "keyed", "home", "retry"}
BoardClientShown == <<"spinner", "sorry", "none", "rows">>

LiveBoardLoad == {"keyed", "props", "more"}
LiveBoardShown == <<"none", "rows">>

CommentsLoad == {"waits", "spins", "wipes", "tells", "latest", "retry", "more", "moreTells",
                 "moreSpins"}
CommentsWrites == {"patches", "once", "early", "tells"}
CommentsShown == <<"sorry", "spinner", "none", "rows">>

TeamsLoad == {"waits"}
TeamsWrites == {"reloads", "awaits", "early"}
TeamsShown == <<"spinner", "none", "rows">>

EarningsLoad == {"token", "waits", "spins", "tells", "keyed", "calm"}
EarningsShown == <<"first", "sorry", "none", "rows">>

ReferralsLoad == {"token", "login", "waits", "spins", "tells", "clears", "retry"}
ReferralsWrites == {"patches", "once"}
ReferralsShown == <<"spinner", "sorry", "rows">>

ApiKeysLoad == {"token", "waits", "ends"}
ApiKeysWrites == {"patches", "form"}
ApiKeysShown == <<"spinner", "none", "rows">>

PreferencesLoad == {"token", "login", "waits"}
PreferencesWrites == {"patches"}
PreferencesShown == <<"spinner", "rows">>

SettingsLoad == {"token", "login"}
SettingsWrites == {"patches", "once", "early"}
SettingsShown == <<"rows">>

BellLoad == {"polls"}
BellWrites == {"patches"}
BellShown == <<"none", "rows">>

HeaderLoad == {"token"}
HeaderShown == <<"rows">>

RedeemLoad == {"token", "latest"}
RedeemWrites == {"patches", "once", "early"}
RedeemShown == <<"rows">>

\* Components whose rows come with them and whose button writes.
GivenLoad == {"props"}
WaitlistWrites == {"patches", "once", "form"}
WaitlistShown == <<"rows">>
PinnedWrites == {"patches", "once", "form"}
PinnedShown == <<"none", "rows">>
RatingWrites == {"patches", "once", "form"}
RatingShown == <<"rows">>
ReportWrites == {"once", "form"}
AvatarWrites == {"once", "form"}

-----------------------------------------------------------------------------
(* Pages the server renders: one load, under the route's skeleton *)
ProfileLoad == {"waits", "tells"}
ProfileShown == <<"spinner", "sorry", "none", "rows">>
BrandPageLoad == {"waits", "tells"}
BrandPageShown == <<"spinner", "sorry", "none", "rows">>
PublicBrandLoad == {"waits", "tells", "retry"}
PublicBrandShown == <<"spinner", "sorry", "none", "rows">>
GlobalBoardLoad == {"waits", "tells"}
GlobalBoardShown == <<"spinner", "sorry", "rows">>
ChallengeBoardLoad == {"waits", "tells"}
ChallengeBoardShown == <<"spinner", "sorry", "rows">>
SharedResultLoad == {"waits"}
SharedResultShown == <<"spinner", "none", "rows">>

-----------------------------------------------------------------------------
P(loads, writes, screens) == [loads |-> loads, writes |-> writes, screens |-> screens]

\* Every page: what it loads, writes and shows.
Page ==
  [payouts |-> P(PayoutsLoad, PayoutsWrites, PayoutsShown),
   fraud |-> P(FraudLoad, FraudWrites, FraudShown),
   operations |-> P(OperationsLoad, {}, OperationsShown),
   operationDetail |-> P(OperationDetailLoad, {}, <<"rows">>),
   auditLog |-> P(AuditLoad, {}, AuditShown),
   stats |-> P(StatsLoad, StatsWrites, StatsShown),
   users |-> P(UsersLoad, UsersWrites, UsersShown),
   cohort |-> P(CohortLoad, {}, CohortShown),
   dashboard |-> P(DashboardLoad, DashboardWrites, DashboardShown),
   licensing |-> P(LicensingLoad, LicensingWrites, <<"none", "rows">>),
   duplicate |-> P(DashboardLoad, DuplicateWrites, DuplicateShown),
   inviteCodes |-> P(InviteCodesLoad, InviteCodesWrites, InviteCodesShown),
   team |-> P(TeamLoad, TeamWrites, TeamShown),
   benchmark |-> P(BenchmarkLoad, {}, BenchmarkShown),
   retention |-> P(RetentionLoad, {}, RetentionShown),
   leagueScoring |-> P(LeagueScoringLoad, LeagueScoringWrites, LeagueScoringShown),
   budget |-> P(GivenLoad, BudgetWrites, BudgetShown),
   analytics |-> P(AnalyticsLoad, {}, AnalyticsShown),
   preview |-> P(PreviewLoad, PreviewWrites, PreviewShown),
   topUp |-> P(TopUpLoad, {}, TopUpShown),
   gallery |-> P(GalleryLoad, {}, GalleryShown),
   clone |-> P(GivenLoad, CloneWrites, CloneShown),
   discovery |-> P(DiscoveryLoad, {}, DiscoveryShown),
   index |-> P(IndexLoad, {}, IndexShown),
   directory |-> P(DirectoryLoad, {}, DirectoryShown),
   boardClient |-> P(BoardClientLoad, {}, BoardClientShown),
   liveBoard |-> P(LiveBoardLoad, {}, LiveBoardShown),
   comments |-> P(CommentsLoad, CommentsWrites, CommentsShown),
   teams |-> P(TeamsLoad, TeamsWrites, TeamsShown),
   earnings |-> P(EarningsLoad, {}, EarningsShown),
   referrals |-> P(ReferralsLoad, ReferralsWrites, ReferralsShown),
   apiKeys |-> P(ApiKeysLoad, ApiKeysWrites, ApiKeysShown),
   preferences |-> P(PreferencesLoad, PreferencesWrites, PreferencesShown),
   settings |-> P(SettingsLoad, SettingsWrites, SettingsShown),
   bell |-> P(BellLoad, BellWrites, BellShown),
   header |-> P(HeaderLoad, {}, HeaderShown),
   redeem |-> P(RedeemLoad, RedeemWrites, RedeemShown),
   waitlist |-> P(GivenLoad, WaitlistWrites, WaitlistShown),
   pinned |-> P(GivenLoad, PinnedWrites, PinnedShown),
   rating |-> P(GivenLoad, RatingWrites, RatingShown),
   report |-> P(GivenLoad, ReportWrites, <<"rows">>),
   avatarDialog |-> P(GivenLoad, AvatarWrites, <<"rows">>),
   profile |-> P(ProfileLoad, {}, ProfileShown),
   brandPage |-> P(BrandPageLoad, {}, BrandPageShown),
   publicBrand |-> P(PublicBrandLoad, {}, PublicBrandShown),
   globalBoard |-> P(GlobalBoardLoad, {}, GlobalBoardShown),
   challengeBoard |-> P(ChallengeBoardLoad, {}, ChallengeBoardShown),
   sharedResult |-> P(SharedResultLoad, {}, SharedResultShown)]

-----------------------------------------------------------------------------
VARIABLES pg,      \* the page
          signed,  \* the session carries an API token
          gone,    \* the visitor was sent to another page
          choice,  \* the filter, range or record chosen
          spin,    \* the loading flag
          sorry,   \* the error flag
          view,    \* the rows: of which choices, showing which writes
          asked,   \* loads started
          calls,   \* loads under way
          newest,  \* the newest load and how it ended
          wr       \* the writes

wpVars == <<pg, signed, gone, choice, spin, sorry, view, asked, calls, newest, wr>>

Can(t) == t \in Page[pg].loads
Does(t) == t \in Page[pg].writes

Nothing == [of |-> {}, seen |-> {}]
Unserved == {0}
Done == {w \in PageWrites : wr[w].at \in {"served", "acked"} \/ wr[w].kept}
Busy == {w \in PageWrites : wr[w].at \in {"sent", "served"}}
AtHand(k) == Can("props") \/ (Can("home") /\ k = 1)
MayLoad == Can("token") => signed

\* Whether the render comes to a screen, and whether it shows it: the first of the
\* page's order that applies.
Applies(s) ==
  CASE s = "spinner" -> spin
    [] s = "first" -> spin /\ view = Nothing
    [] s = "sorry" -> sorry
    [] s = "bare" -> sorry /\ view = Nothing
    [] s \in {"none", "hidden"} -> view = Nothing
    [] OTHER -> TRUE
Shows(s) ==
  \E i \in DOMAIN Page[pg].screens :
    /\ Page[pg].screens[i] = s /\ Applies(s)
    /\ \A j \in 1 .. i - 1 : ~Applies(Page[pg].screens[j])

Call(k, kind) == [n |-> asked + 1, key |-> k, kind |-> kind, seen |-> Unserved]

\* The loader up to its await: flags, rows and the request.
BeginLoad(k) ==
  /\ asked < MaxLoads
  /\ asked' = asked + 1
  /\ calls' = calls \cup {Call(k, "load")}
  /\ newest' = [n |-> asked + 1, ok |-> FALSE]
  /\ spin' = (spin \/ Can("spins"))
  /\ sorry' = (sorry /\ Can("late"))
  /\ view' = IF Can("wipes") THEN Nothing ELSE view

WpInit ==
  /\ pg \in DOMAIN Page
  /\ signed \in BOOLEAN
  /\ gone = (~signed /\ Can("login"))
  /\ choice = 1
  /\ spin = (IF MayLoad THEN Can("waits") \/ (Can("spins") /\ ~Can("manual") /\ ~Can("home"))
                        ELSE Can("waits") /\ ~Can("ends"))
  /\ sorry = FALSE
  /\ view = IF AtHand(1) THEN [of |-> {1}, seen |-> {}] ELSE Nothing
  /\ LET loads == MayLoad /\ ~gone /\ ~Can("manual") /\ ~AtHand(1)
     IN /\ asked = IF loads THEN 1 ELSE 0
        /\ calls = IF loads THEN {[n |-> 1, key |-> 1, kind |-> "load", seen |-> Unserved]} ELSE {}
  /\ newest = [n |-> asked, ok |-> asked = 0 /\ AtHand(1)]
  /\ wr = [w \in PageWrites |-> [at |-> "idle", key |-> 1, kept |-> FALSE]]

\* The visitor chooses: rows at hand are shown at once, others are asked for.
Choose(k) ==
  /\ Can("keyed") /\ MayLoad /\ ~gone
  /\ k # choice
  /\ Can("calm") => ~spin
  /\ choice' = k
  /\ IF AtHand(k) THEN /\ view' = [of |-> {k}, seen |-> {}]
                       /\ sorry' = FALSE
                       /\ newest' = [n |-> asked, ok |-> TRUE]
                       /\ UNCHANGED <<asked, calls, spin>>
     ELSE IF Can("manual") THEN UNCHANGED <<asked, calls, spin, sorry, view, newest>>
     ELSE BeginLoad(k)
  /\ UNCHANGED <<pg, signed, gone, wr>>

\* A retry or refresh button, or the interval.
LoadAgain ==
  /\ MayLoad /\ ~gone
  /\ \/ Can("polls")
     \/ Can("retry") /\ (sorry \/ Can("manual") \/ Can("polls")) /\ ~spin
  /\ BeginLoad(choice)
  /\ UNCHANGED <<pg, signed, gone, choice, wr>>

\* The next page: one at a time, asked with the choice of the moment.
LoadMore ==
  /\ Can("more") /\ ~gone
  /\ view.of # {} /\ ~spin
  /\ \A f \in calls : f.kind # "more"
  /\ Does("shares") => Busy = {}
  /\ asked < MaxLoads
  /\ asked' = asked + 1
  /\ calls' = calls \cup {Call(choice, "more")}
  /\ spin' = Can("moreSpins")
  /\ sorry' = (sorry /\ ~Can("moreSpins"))
  /\ UNCHANGED <<pg, signed, gone, choice, view, newest, wr>>

\* The server answers a load with the state it has then.
ServeLoad(f) ==
  /\ f.seen = Unserved
  /\ calls' = (calls \ {f}) \cup {[f EXCEPT !.seen = Done]}
  /\ UNCHANGED <<pg, signed, gone, choice, spin, sorry, view, asked, newest, wr>>

\* Fault: the effect has no `cancelled` flag.
AnyAnswer(f) == TRUE
\* A load another one replaced is dropped where the effect's clean-up cancels it.
Current(f) == f.kind = "load" /\ Can("latest") => f.n = newest.n

Ended(f, ok) == IF f.n = newest.n THEN [newest EXCEPT !.ok = ok] ELSE newest

\* The loader's finally block.
SpinAfter(f) ==
  IF (f.kind = "load" /\ Current(f)) \/ (f.kind = "more" /\ Can("moreSpins")) THEN FALSE ELSE spin

\* The answer arrives: it replaces the rows, or is appended to them.
LandLoad(f) ==
  /\ f.seen # Unserved /\ ~gone
  /\ calls' = calls \ {f}
  /\ newest' = Ended(f, TRUE)
  /\ spin' = SpinAfter(f)
  /\ view' = IF ~Current(f) THEN view
             ELSE IF f.kind = "more" THEN [view EXCEPT !.of = @ \cup {f.key}]
             ELSE [of |-> {f.key}, seen |-> f.seen]
  /\ sorry' = (sorry /\ ~(Can("late") /\ Current(f)))
  /\ UNCHANGED <<pg, signed, gone, choice, asked, wr>>

\* Whether a failed request sets the error flag.
FailTold(f) == IF f.kind = "more" THEN Can("moreTells") ELSE Can("tells")

\* The request fails or times out, served or not (a late answer is not seen).
FailLoad(f) ==
  /\ ~gone
  /\ calls' = calls \ {f}
  /\ newest' = Ended(f, FALSE)
  /\ spin' = SpinAfter(f)
  /\ sorry' = (sorry \/ (Current(f) /\ FailTold(f)))
  /\ view' = IF Current(f) /\ f.kind = "load" /\ Can("clears") THEN Nothing ELSE view
  /\ UNCHANGED <<pg, signed, gone, choice, asked, wr>>

\* A 401 on a client made with a token: a notice, then signOut to /login.
SessionExpires ==
  /\ signed /\ ~gone /\ Can("token")
  /\ calls # {} \/ Busy # {}
  /\ gone' = TRUE
  /\ UNCHANGED <<pg, signed, choice, spin, sorry, view, asked, calls, newest, wr>>

-----------------------------------------------------------------------------
\* When the button can be pressed.
WriteFree ==
  /\ Does("once") => Busy = {}
  /\ Does("once") /\ Does("awaits") => calls = {}
  /\ Does("shares") => \A f \in calls : f.kind # "more"

\* The visitor presses the button.
SendWrite(w) ==
  /\ signed /\ ~gone
  /\ Page[pg].writes # {}
  /\ wr[w].at = "idle" /\ \A v \in PageWrites : v < w => wr[v].at # "idle"
  /\ WriteFree
  /\ \/ Does("early")
     \/ ~spin /\ (Does("form") \/ view.of # {})
  /\ wr' = [wr EXCEPT ![w] = [at |-> "sent", key |-> choice, kept |-> FALSE]]
  /\ sorry' = (sorry /\ ~Does("tells"))
  /\ UNCHANGED <<pg, signed, gone, choice, spin, view, asked, calls, newest>>

\* The server does it.
ServeWrite(w) ==
  /\ wr[w].at = "sent"
  /\ wr' = [wr EXCEPT ![w].at = "served"]
  /\ UNCHANGED <<pg, signed, gone, choice, spin, sorry, view, asked, calls, newest>>

\* The yes arrives.  A reload asks with the choice the handler was made with.
AckWrite(w) ==
  /\ wr[w].at = "served" /\ ~gone
  /\ wr' = [wr EXCEPT ![w].at = "acked"]
  /\ IF Does("reloads") THEN BeginLoad(wr[w].key) /\ UNCHANGED gone
     ELSE /\ view' = IF Does("patches") THEN [view EXCEPT !.seen = @ \cup {w}] ELSE view
          /\ gone' = Does("leaves")
          /\ UNCHANGED <<asked, calls, newest, spin, sorry>>
  /\ UNCHANGED <<pg, signed, choice>>

\* It fails or times out; what the server did stays done.
FailWrite(w) ==
  /\ wr[w].at \in {"sent", "served"} /\ ~gone
  /\ wr' = [wr EXCEPT ![w] = [@ EXCEPT !.at = "lost", !.kept = wr[w].at = "served"]]
  /\ sorry' = (sorry \/ Does("tells"))
  /\ UNCHANGED <<pg, signed, gone, choice, spin, view, asked, calls, newest>>

RequestStep == \E f \in calls : ServeLoad(f) \/ LandLoad(f) \/ FailLoad(f)

WpNext ==
  \/ \E k \in PageKeys : Choose(k)
  \/ LoadAgain
  \/ LoadMore
  \/ RequestStep
  \/ SessionExpires
  \/ \E w \in PageWrites : SendWrite(w) \/ ServeWrite(w) \/ AckWrite(w) \/ FailWrite(w)

\* A request is answered or times out after ten seconds (lib/api.ts).
WpFairness == WF_wpVars(RequestStep)

WpSpec == WpInit /\ [][WpNext]_wpVars /\ WpFairness

-----------------------------------------------------------------------------
WpTypeOK ==
  /\ pg \in DOMAIN Page /\ signed \in BOOLEAN /\ gone \in BOOLEAN
  /\ choice \in PageKeys /\ spin \in BOOLEAN /\ sorry \in BOOLEAN
  /\ view.of \subseteq PageKeys /\ view.seen \subseteq PageWrites
  /\ asked \in 0..MaxLoads
  /\ \A f \in calls : f.n \in 1..asked /\ f.key \in PageKeys /\ f.kind \in {"load", "more"}
  /\ \A w \in PageWrites : wr[w].at \in {"idle", "sent", "served", "acked", "lost"}

PageQuiet == calls = {} /\ Busy = {} /\ ~gone

\* Where a filter is part of the load and replaced loads are dropped (or the
\* filter cannot change meanwhile), the rows on the screen are those of the filter
\* the visitor sees selected, once nothing is under way: whatever the order in which
\* the answers came.
RowsOfChoice ==
  PageQuiet /\ newest.ok /\ ({"latest", "calm"} \cap Page[pg].loads # {} \/ ~Can("keyed"))
    => view.of = {choice}

\* Pages on which an older answer cannot overtake a write.
Steady ==
  /\ {"keyed", "polls"} \cap Page[pg].loads = {}
  /\ ~Does("early")
  /\ Does("reloads") => {"once", "awaits"} \subseteq Page[pg].writes

\* On those pages what the server confirmed is on the screen once nothing is under
\* way and the newest load succeeded: neither the reload nor the local patch loses it.
OwnWriteShown ==
  PageQuiet /\ newest.ok /\ Steady /\ {"reloads", "patches"} \cap Page[pg].writes # {}
    => \A w \in PageWrites : wr[w].at = "acked" => w \in view.seen

\* A page that has an error screen never says "there is nothing here" when it could not
\* load: an empty list is only shown for an answer.
NoFalseEmpty ==
  PageQuiet /\ Can("tells") /\ Shows("none") => newest.ok
=============================================================================
