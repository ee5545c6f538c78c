------------------------------ MODULE Authoring ------------------------------
(***************************************************************************)
(* The challenges of one brand, from the desk of its owner and of the      *)
(* administrators: creation and cloning, duplication, the questions of a   *)
(* challenge and their regeneration (routes/brands.ts, challenge-          *)
(* templates.ts, challenge-management.ts), soft deletion and               *)
(* the deletion of the brand.  Each statement is a step of its own, except  *)
(* where the code opens a transaction; a handler may die between two.      *)
(* Deposits and settlement appear only as the status they lead to.  The     *)
(* monthly archive asks for a column challenges.ended_at that no migration *)
(* creates: it rolls back and moves nothing.                               *)
(***************************************************************************)
EXTENDS Naturals, Sequences, FiniteSets

CONSTANTS Chs,       \* rows the challenges table may come to hold
          Kits,      \* brand kits: which of "tagline", "usp", "image" a brand has
          AuReqs,    \* requests under way at once
          MaxRegens, \* bound on the ids of questions
          MaxStarts, \* bound on the requests made
          MaxDeaths  \* bound on the handlers that die

ASSUME AuAssumption ==
  /\ {MaxRegens, MaxStarts, MaxDeaths} \subseteq Nat /\ 0 \notin Chs
  /\ MaxRegens >= 1  \* the id of a first question

VARIABLES brandLive,  \* brands.deleted_at IS NULL
          kit,        \* the brand's kit
          ch,         \* challenges: [st, memo, del]
          quest,      \* challenge_questions: round -> id, 0 when there is none
          regens,     \* ids handed to regenerated questions
          deaths,     \* handlers that died
          starts,     \* requests made
          hurt,       \* history: challenges one of whose handlers died half-way
          tardy,      \* history: challenges inserted or restored under a deleted brand
          auReq       \* requests: [at, c, round, id]

auVars == <<brandLive, kit, ch, quest, regens, deaths, starts, hurt, tardy, auReq>>

RoundNos == 1 .. 3

\* generateChallengeQuestions: a round for each part of the kit, and then, until
\* there are three, a question for the round after as many as there are.
KitRounds(k) ==
  (IF "tagline" \in k THEN <<1>> ELSE <<>>) \o (IF "usp" \in k THEN <<2>> ELSE <<>>)
    \o (IF "image" \in k THEN <<3>> ELSE <<>>)
GeneratedRounds(k) ==
  [i \in RoundNos |-> IF i <= Len(KitRounds(k)) THEN KitRounds(k)[i] ELSE i]
Sparse(k) == \E i, j \in RoundNos : i # j /\ GeneratedRounds(k)[i] = GeneratedRounds(k)[j]

NoCh == [st |-> "none", memo |-> FALSE, del |-> FALSE]
AuIdle == [at |-> "idle", c |-> 0, round |-> 0, id |-> 0]
AuAt(r, l) == auReq[r].at = l
AuGo(r, rec) == auReq' = [auReq EXCEPT ![r] = rec]
Rows(c) == ch[c].st # "none"
\* Rows the open transaction of a duplication holds FOR SHARE.
Shared(c) == \E r \in AuReqs : AuAt(r, "copy") /\ auReq[r].id = c
BrandShared == \E r \in AuReqs : AuAt(r, "copy")

AuInit ==
  /\ brandLive = TRUE /\ kit \in Kits /\ ch = [c \in Chs |-> NoCh]
  /\ quest = [c \in Chs |-> [k \in RoundNos |-> 0]] /\ regens = 1 /\ deaths = 0 /\ starts = 0
  /\ hurt = {} /\ tardy = {} /\ auReq = [r \in AuReqs |-> AuIdle]

\* assertBrandRole, getBrandById: the brand is not deleted and the caller is its
\* owner (a team never grows: POST /brands/:id/members calls addBrandMember
\* with arguments it does not take, and fails).
AssertBrandRole == brandLive

\* POST /brands/challenges and POST /challenge-templates/:id/clone: validation,
\* role and, for a clone, the gallery template ...
CreateCheck(r) ==
  /\ AuAt(r, "idle") /\ starts < MaxStarts /\ AssertBrandRole
  /\ AuGo(r, [AuIdle EXCEPT !.at = "insert"])
  /\ starts' = starts + 1
  /\ UNCHANGED <<kit, deaths, brandLive, ch, quest, regens, hurt, tardy>>

\* ... createChallenge: a row awaiting its deposit, with its memo ...
CreateChallenge(r) ==
  /\ AuAt(r, "insert")
  /\ \E c \in Chs :
       /\ ~Rows(c)
       /\ ch' = [ch EXCEPT ![c] = [NoCh EXCEPT !.st = "pending_deposit", !.memo = TRUE]]
       /\ tardy' = IF brandLive THEN tardy ELSE tardy \cup {c}
       /\ AuGo(r, [AuIdle EXCEPT !.at = "questions", !.c = c, !.round = 1])
  /\ UNCHANGED <<kit, starts, deaths, brandLive, quest, regens, hurt>>

\* Fault: insertChallengeQuestions stops before the last question.
InsertTooFew(r) ==
  /\ AuAt(r, "questions")
  /\ LET c == auReq[r].c  k == GeneratedRounds(kit)[auReq[r].round] IN
       quest' = [quest EXCEPT ![c][k] = IF @ = 0 THEN 1 ELSE @]
  /\ AuGo(r, IF auReq[r].round >= 2 THEN AuIdle ELSE [auReq[r] EXCEPT !.round = @ + 1])
  /\ UNCHANGED <<kit, starts, deaths, brandLive, ch, regens, hurt, tardy>>

\* ... insertChallengeQuestions: one INSERT after the other, which
\* UNIQUE (challenge_id, round) refuses for a round that is there already: the
\* handler answers 500, and the challenge stays.
InsertQuestion(r) ==
  /\ AuAt(r, "questions")
  /\ LET c == auReq[r].c  k == GeneratedRounds(kit)[auReq[r].round] IN
       IF quest[c][k] = 0
         THEN /\ quest' = [quest EXCEPT ![c][k] = 1]
              /\ AuGo(r, IF auReq[r].round = 3 THEN AuIdle ELSE [auReq[r] EXCEPT !.round = @ + 1])
         ELSE AuGo(r, AuIdle) /\ UNCHANGED quest
  /\ UNCHANGED <<kit, starts, deaths, brandLive, ch, regens, hurt, tardy>>

\* POST /challenges/:id/duplicate: a transaction locks challenge and brand FOR
\* SHARE, but createChallenge takes no client: its INSERT commits on another
\* connection, without a memo, and with the default status, not 'draft' ...
DuplicateInsert(r, c) ==
  /\ AuAt(r, "idle") /\ starts < MaxStarts /\ brandLive /\ Rows(c) /\ ~ch[c].del
  /\ \E d \in Chs :
       /\ ~Rows(d)
       /\ ch' = [ch EXCEPT ![d] = [NoCh EXCEPT !.st = "pending_deposit"]]
       /\ AuGo(r, [at |-> "copy", c |-> d, round |-> 0, id |-> c])
  /\ starts' = starts + 1
  /\ UNCHANGED <<kit, deaths, brandLive, quest, regens, hurt, tardy>>

\* ... and the questions, tiers, variants, tags and the audit row follow in the
\* transaction, which commits.
DuplicateCopy(r) ==
  /\ AuAt(r, "copy")
  /\ quest' = [quest EXCEPT ![auReq[r].c] = quest[auReq[r].id]]
  /\ hurt' = IF auReq[r].id \in hurt \/ \E k \in RoundNos : quest[auReq[r].id][k] = 0
               THEN hurt \cup {auReq[r].c} ELSE hurt
  /\ AuGo(r, AuIdle)
  /\ UNCHANGED <<kit, starts, deaths, brandLive, ch, regens, tardy>>

\* POST .../questions/:questionId/regenerate reads the question ...
RegenRead(r, c, k) ==
  /\ AuAt(r, "idle") /\ starts < MaxStarts /\ AssertBrandRole /\ quest[c][k] # 0
  /\ AuGo(r, [at |-> "delete", c |-> c, round |-> k, id |-> quest[c][k]])
  /\ starts' = starts + 1
  /\ UNCHANGED <<kit, deaths, brandLive, ch, quest, regens, hurt, tardy>>

\* ... deletes it by its id ...
DeleteQuestion(r) ==
  /\ AuAt(r, "delete")
  /\ LET q == auReq[r] IN
       quest' = [quest EXCEPT ![q.c][q.round] = IF @ = q.id THEN 0 ELSE @]
  /\ AuGo(r, [auReq[r] EXCEPT !.at = "write"])
  /\ UNCHANGED <<kit, starts, deaths, brandLive, ch, regens, hurt, tardy>>

\* Fault: the new question replaces whatever the round has by now.
WriteOver(r) ==
  /\ AuAt(r, "write") /\ regens < MaxRegens
  /\ quest' = [quest EXCEPT ![auReq[r].c][auReq[r].round] = regens + 1]
  /\ regens' = regens + 1
  /\ AuGo(r, AuIdle)
  /\ UNCHANGED <<kit, starts, deaths, brandLive, ch, hurt, tardy>>

\* ... and inserts another for its round: UNIQUE (challenge_id, round) refuses
\* it when an overlapping regeneration was first.
WriteQuestion(r) ==
  /\ AuAt(r, "write")
  /\ IF quest[auReq[r].c][auReq[r].round] = 0
       THEN /\ regens < MaxRegens
            /\ quest' = [quest EXCEPT ![auReq[r].c][auReq[r].round] = regens + 1]
            /\ regens' = regens + 1
       ELSE UNCHANGED <<quest, regens>>
  /\ AuGo(r, AuIdle)
  /\ UNCHANGED <<kit, starts, deaths, brandLive, ch, hurt, tardy>>

\* The process dies, or a statement fails, in a handler that has no
\* transaction around what it did so far.
HandlerDies(r) ==
  /\ ~AuAt(r, "idle") /\ deaths < MaxDeaths
  /\ deaths' = deaths + 1
  /\ hurt' = hurt \cup ({auReq[r].c} \ {0})
  /\ AuGo(r, AuIdle)
  /\ UNCHANGED <<kit, starts, brandLive, ch, quest, regens, tardy>>

\* A deposit with the challenge's memo is credited (getChallengeByMemo).
DepositCredited(c) ==
  /\ ch[c].st = "pending_deposit" /\ ch[c].memo /\ ~ch[c].del /\ ~Shared(c)
  /\ ch' = [ch EXCEPT ![c].st = "active"]
  /\ UNCHANGED <<kit, starts, deaths, brandLive, quest, regens, hurt, tardy, auReq>>

\* The challenge's time is over.
ChallengeEnds(c) ==
  /\ ch[c].st = "active" /\ ~Shared(c)
  /\ ch' = [ch EXCEPT ![c].st = "ended"]
  /\ UNCHANGED <<kit, starts, deaths, brandLive, quest, regens, hurt, tardy, auReq>>

\* DELETE /admin/challenges/:id.
SoftDeleteChallenge(c) ==
  /\ Rows(c) /\ ~ch[c].del /\ ~Shared(c)
  /\ ch' = [ch EXCEPT ![c].del = TRUE]
  /\ UNCHANGED <<kit, starts, deaths, brandLive, quest, regens, hurt, tardy, auReq>>

\* POST /admin/challenges/:id/restore: it looks neither at the brand nor at what
\* happened since.
RestoreChallenge(c) ==
  /\ Rows(c) /\ ch[c].del
  /\ ch' = [ch EXCEPT ![c].del = FALSE]
  /\ tardy' = IF brandLive THEN tardy ELSE tardy \cup {c}
  /\ UNCHANGED <<kit, starts, deaths, brandLive, quest, regens, hurt, auReq>>

\* deleteBrand: which challenges it cancels.
CancelledWithBrand(c) == ch[c].st \in {"pending_deposit", "active"} /\ ~ch[c].del

\* DELETE /brands/:id: one statement deletes the brand and cancels.
DeleteBrand ==
  /\ brandLive /\ ~BrandShared
  /\ brandLive' = FALSE
  /\ ch' = [c \in Chs |-> IF CancelledWithBrand(c) THEN [ch[c] EXCEPT !.st = "cancelled"] ELSE ch[c]]
  /\ UNCHANGED <<kit, starts, deaths, quest, regens, hurt, tardy, auReq>>

AuNext ==
  \/ DeleteBrand
  \/ \E r \in AuReqs :
       \/ CreateCheck(r) \/ CreateChallenge(r) \/ InsertQuestion(r) \/ HandlerDies(r)
       \/ DuplicateCopy(r) \/ DeleteQuestion(r) \/ WriteQuestion(r)
       \/ \E c \in Chs : DuplicateInsert(r, c) \/ \E k \in RoundNos : RegenRead(r, c, k)
  \/ \E c \in Chs :
       DepositCredited(c) \/ ChallengeEnds(c) \/ SoftDeleteChallenge(c) \/ RestoreChallenge(c)

AuSpec == AuInit /\ [][AuNext]_auVars
------------------------------------------------------------------------------
\* What the read side makes of these rows.

\* getChallengeByMemo: the row a deposit with this memo is credited to; a memo is
\* known here by the challenge it was generated for.
GetChallengeByMemo(m) == {c \in Chs : c = m /\ ch[c].memo /\ ~ch[c].del}

\* GET /challenges/:id/deposit-info tells the owner which memo to use: the row's
\* own, or the row's id, which is nobody's memo (0).
DepositInfo(c) == IF ch[c].memo THEN c ELSE 0
DepositInfoGiven(c) == ch[c].st = "pending_deposit" /\ ~ch[c].del /\ brandLive

\* getChallengeQuestions, GET /brands/:id/questions/preview.
GetChallengeQuestions(c) == {k \in RoundNos : quest[c][k] # 0}
------------------------------------------------------------------------------
\* Rows and requests are well formed.
AuTypeOK ==
  /\ brandLive \in BOOLEAN /\ hurt \subseteq Chs /\ tardy \subseteq Chs
  /\ \A c \in Chs :
       /\ ch[c].st \in {"none", "pending_deposit", "active", "cancelled", "ended"}
       /\ quest[c] \in [RoundNos -> 0 .. MaxRegens]
  /\ \A r \in AuReqs : auReq[r].at \in {"idle", "insert", "questions", "copy", "delete", "write"}

\* A challenge players can enter has a question for every round, unless one of
\* the handlers that wrote its questions died, or is still at it, or the kit is
\* one for which two questions of one round are generated
\* (routes/brands.ts:1021, 855: no transaction around the statements).
PlayableHasQuestions ==
  \A c \in Chs : ch[c].st = "active" =>
    \/ GetChallengeQuestions(c) = RoundNos
    \/ c \in hurt \/ Sparse(kit)
    \/ \E r \in AuReqs : auReq[r].c = c /\ auReq[r].at \in {"questions", "delete", "write"}

\* Once a question was regenerated, the round's question is replaced by nobody
\* who had not read it: an overlapping regeneration fails and destroys nothing
\* (UNIQUE (challenge_id, round), routes/brands.ts:854).
RegenerationNotOverwritten ==
  [][\A c \in Chs, k \in RoundNos :
       quest[c][k] # 0 /\ quest'[c][k] # quest[c][k] => quest'[c][k] = 0]_auVars

\* A brand that is deleted has no challenge that takes deposits or players, but
\* for one inserted by a request that had passed its check before, or restored
\* by an administrator since (queries/brands.ts:300, admin/challenges.ts:257).
DeletedBrandClosed ==
  ~brandLive =>
    \A c \in Chs : ch[c].st \in {"pending_deposit", "active"} /\ ~ch[c].del => c \in tardy

\* Where a deposit goes: the memo the owner is given brings the money to his
\* own challenge or to none, never to another (routes/challenges.ts:449).
DepositsReachOwn ==
  \A c \in Chs : DepositInfoGiven(c) => GetChallengeByMemo(DepositInfo(c)) \subseteq {c}

\* However requests of the brand overlap and die, its challenges stay in order:
\* questions for who plays, deposits to their own row, all closed with the brand.
ChallengesSound == PlayableHasQuestions /\ DeletedBrandClosed /\ DepositsReachOwn
=============================================================================
