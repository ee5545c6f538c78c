------------------------- MODULE MCAccountsAndBrands -------------------------
(* The account of a user (tokens, second factor, erasure, name, phone, keys,   *)
(* files), the amounts of the payout and the payments beside it, the lists a   *)
(* client pages through, the challenges and questions a brand writes, and what *)
(* boards, profiles and statistics make of the rows.  The components share no  *)
(* state: `focus` says whose behaviour this is, and the others stay where they *)
(* begin.                                                                      *)
EXTENDS RefreshTokens, TwoFactor, Erasure, Usernames, PhoneVerification,
        AccountAccess, Uploads, SidePayments, PayoutAmounts, Pagination, Authoring,
        Views, TLC

VARIABLE focus

CONSTANTS r1, r2, r3, c1, c2, u1, u2

\* The requests, the challenges and the users of every component
TwoReqs == {r1, r2}
ThreeReqs == {r1, r2, r3}
TwoChs == {c1, c2}
TwoUsers == {u1, u2}

\* A brand kit that serves all three rounds, and one with two questions of a round
FullAndSparse == {{"tagline", "usp", "image"}, {"usp", "image"}}
OneBrand == [c \in TwoChs |-> "brand"]

\* Requests, challenges and users are interchangeable, and only safety is checked
AbSymmetry == Permutations(TwoReqs) \cup Permutations(TwoChs) \cup Permutations(TwoUsers)

abVars == <<rtVars, tfVars, erVars, unVars, pvVars, aaVars, upVars, spVars, paVars,
            pgVars, auVars, viVars, focus>>

Focuses == {"tokens", "factor", "erasure", "names", "phone", "access", "uploads",
            "refund", "bonus", "amounts", "pages", "authoring", "views"}

\* Components with several initial states begin in one of them when not in focus
AbInit ==
    /\ focus \in Focuses
    /\ RtInit /\ (focus = "tokens" \/ ~totpOn)
    /\ TfInit /\ ErInit /\ UnInit /\ PvInit /\ AaInit /\ UpInit
    /\ SpInit /\ (focus = "refund" \/ (chalStatus = "active" /\ due))
    /\ PaInit /\ (focus = "amounts" \/ (licensor \cup payable = {} /\ \A u \in PaUsers : points[u] = 0))
    /\ AuInit /\ (focus = "authoring" \/ ~Sparse(kit))
    /\ IF focus = "views" THEN ViInit
       ELSE ViInit /\ \A p \in Pairs : plays[p] = NoPlay
    /\ IF focus = "pages" THEN PgInit
       ELSE /\ list = "audit" /\ limit = (CHOOSE l \in PgLimits : TRUE) /\ table = {} /\ page = 0
            /\ cursor = [id |-> 0, num |-> 0, at |-> 0]
            /\ shown = [i \in PgIds |-> 0] /\ edges = {} /\ moved = {} /\ walk = "walking"

AccountNext ==
    \/ focus = "tokens" /\ RtNext
       /\ UNCHANGED <<tfVars, erVars, unVars, pvVars, aaVars, upVars>>
    \/ focus = "factor" /\ TfNext
       /\ UNCHANGED <<rtVars, erVars, unVars, pvVars, aaVars, upVars>>
    \/ focus = "erasure" /\ ErNext
       /\ UNCHANGED <<rtVars, tfVars, unVars, pvVars, aaVars, upVars>>
    \/ focus = "names" /\ UnNext
       /\ UNCHANGED <<rtVars, tfVars, erVars, pvVars, aaVars, upVars>>
    \/ focus = "phone" /\ PvNext
       /\ UNCHANGED <<rtVars, tfVars, erVars, unVars, aaVars, upVars>>
    \/ focus = "access" /\ AaNext
       /\ UNCHANGED <<rtVars, tfVars, erVars, unVars, pvVars, upVars>>
    \/ focus = "uploads" /\ UpNext
       /\ UNCHANGED <<rtVars, tfVars, erVars, unVars, pvVars, aaVars>>

BrandNext ==
    \/ focus = "refund" /\ RefundNext /\ UNCHANGED <<paVars, pgVars, auVars, viVars>>
    \/ focus = "bonus" /\ BonusNext /\ UNCHANGED <<paVars, pgVars, auVars, viVars>>
    \/ focus = "amounts" /\ PaNext /\ UNCHANGED <<spVars, pgVars, auVars, viVars>>
    \/ focus = "pages" /\ PgNext /\ UNCHANGED <<spVars, paVars, auVars, viVars>>
    \/ focus = "authoring" /\ AuNext /\ UNCHANGED <<spVars, paVars, pgVars, viVars>>
    \/ focus = "views" /\ ViNext /\ UNCHANGED <<spVars, paVars, pgVars, auVars>>

AbNext ==
    /\ UNCHANGED focus
    /\ \/ AccountNext /\ UNCHANGED <<spVars, paVars, pgVars, auVars, viVars>>
       \/ BrandNext /\ UNCHANGED <<rtVars, tfVars, erVars, unVars, pvVars, aaVars, upVars>>

AbSpec == AbInit /\ [][AbNext]_abVars

-------------------------------------------------------------------------------
\* Type correctness of every component; a walk by page number never runs past
\* its table.
AbTypeOK ==
    /\ RtTypeOK /\ TfTypeOK /\ ErTypeOK /\ UnTypeOK /\ PvTypeOK /\ AaTypeOK
    /\ UpTypeOK /\ SpTypeOK /\ PaTypeOK /\ PgTypeOK /\ AuTypeOK /\ ViTypeOK

\* What lets a user in is what it should be.  A live refresh token is one the
\* next revocation finds, and a login has killed the tokens its revocation read
\* (lib/tokens.ts:116, routes/auth.ts:82); 2FA is on only for a secret the user
\* proved, and the backup codes are of one batch (auth.2fa.ts:161, totp.ts:183);
\* a revoked API key is refused once its cached row is gone
\* (api-key-auth.ts:72); no change of status and no impersonation goes without
\* its audit row (admin/users.ts:148).  Each with the overlaps the code allows.
CredentialsSound ==
    /\ LiveTokenRevocable /\ LoginKillsOldTokens
    /\ ConfirmedWasProven /\ OneBatch
    /\ RevokedKeyRefused /\ ChangesAudited /\ TokensAudited

\* Nothing that was spent comes back: a used or revoked token never works again
\* (lib/tokens.ts), 2FA goes off only by a disenrolment or an enrolment that
\* looked before it was on (auth.2fa.ts:122), a used backup code is matched by
\* no later request (totp.ts:218).
NothingRevives == DeadTokenStaysDead /\ SecondFactorKept /\ UsedCodeNotMatched

\* Erasure follows the requests: nobody is anonymised against their will, the
\* administrator's requests stand, and a request still pending has its job,
\* but for the ways the code has of losing one (gdpr-erasure.processor.ts:37).
ErasureFollowsRequests == ErasedWasAsked /\ AdminRequestsStand /\ PendingHasJob

\* Twilio is asked a bounded number of times in a window, and every lockout has
\* its end (services/phone.ts:97, :112).
OtpGuarded == OtpChecksBounded /\ LockoutEnds

\* What a page of an account points to is there: the player under his name and
\* behind the redirects of old ones (routes/users.ts:906), the file a form
\* refers to (upload-field.tsx:264), the avatar of the row (routes/users.ts:205).
LinksAlive ==
    OwnNameFound /\ RedirectLeadsOn /\ SavedFileServed /\ RemovedMeansGone /\ AvatarStored

\* What leaves the wallet is bounded: no refund and no bonus beyond what
\* overlapping requests and reruns explain (refund.ts:26,
\* referral-bonus.processor.ts:75), and no more than the pool over all runs of
\* a payout (services/payout.ts:197).
PaymentsBounded == SidePaymentsBounded /\ PoolBounded

\* A client that pages through a list sees every row that stayed, and none
\* twice, but where the cursor cuts the microseconds or pages are counted while
\* rows move (db/pagination.ts:7, db/queries/sessions.ts:413).
WalksComplete == focus = "pages" => ShownOnce /\ NothingMissed

\* ViewsHonest, looked at where rows change: every board, profile, card and
\* statistic shows what the rows say (leaderboard-refresh.queue.ts:24,
\* challenge-ratings.ts:41, db/queries/brands.ts:302).
BrandViewsHonest == focus = "views" => ViewsHonest
===============================================================================
