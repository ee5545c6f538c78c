-------------------------- MODULE PhoneVerification --------------------------
(***************************************************************************)
(* POST /users/me/phone/verify for one phone number (routes/users.ts) over *)
(* verifyOtpWithBruteForceProtection (services/phone.ts): a counter in     *)
(* Redis is read before Twilio is asked and written after it answered, and *)
(* its lifetime is set by a second command.                                *)
(***************************************************************************)
EXTENDS Naturals, FiniteSets

CONSTANTS Callers, PvReqs,
          OtpLimit,    \* OTP_MAX_ATTEMPTS
          MaxWindows   \* bound on how often the counter starts anew

ASSUME PvAssumption ==
    OtpLimit \in Nat \ {0} /\ MaxWindows \in Nat /\ IsFiniteSet(PvReqs)

VARIABLES phoneOf,    \* the account whose phone_hash is this number's, or {}
          otp,        \* Redis otp_attempts:<phone>: [n, ttl]
          checks,     \* Twilio checks since the counter last started
          windows,    \* windows begun
          stuckOtp,   \* history: a crash between INCR and EXPIRE
          pvReq       \* requests

phoneVars == <<phoneOf, otp, checks, windows, stuckOtp>>
pvVars == <<phoneVars, pvReq>>

PvIdle == [at |-> "idle", u |-> 0]
PvAt(r, l) == pvReq[r].at = l
PvGo(r, rec) == pvReq' = [pvReq EXCEPT ![r] = rec]

PvInit ==
  /\ phoneOf = {} /\ otp = [n |-> 0, ttl |-> FALSE] /\ checks = 0 /\ windows = 0
  /\ stuckOtp = FALSE
  /\ pvReq = [r \in PvReqs |-> PvIdle]

\* Fault: the attempt counter is looked at after the check.
PhoneStartUnguarded(r, u) ==
  /\ PvAt(r, "idle")
  /\ phoneOf \subseteq {u}
  /\ PvGo(r, [PvIdle EXCEPT !.at = "check", !.u = u])
  /\ UNCHANGED phoneVars

\* POST /users/me/phone/verify: 409 when the number is another account's, 429
\* when the counter is at its limit.
PhoneStart(r, u) ==
  /\ PvAt(r, "idle")
  /\ phoneOf \subseteq {u}
  /\ otp.n < OtpLimit
  /\ PvGo(r, [PvIdle EXCEPT !.at = "check", !.u = u])
  /\ UNCHANGED phoneVars

\* checkVerificationCode: Twilio approves the code or not.
PhoneCheck(r) ==
  /\ PvAt(r, "check")
  /\ checks' = checks + 1
  /\ \E approved \in BOOLEAN :
       PvGo(r, [pvReq[r] EXCEPT !.at = IF approved THEN "clear" ELSE "incr"])
  /\ UNCHANGED <<phoneOf, otp, windows, stuckOtp>>

\* A wrong code: INCR, and EXPIRE follows when the counter was just created.
PhoneIncr(r) ==
  /\ PvAt(r, "incr")
  /\ otp' = [otp EXCEPT !.n = @ + 1]
  /\ PvGo(r, IF otp.n = 0 THEN [pvReq[r] EXCEPT !.at = "expire"] ELSE PvIdle)
  /\ UNCHANGED <<phoneOf, checks, windows, stuckOtp>>

\* The second command, or a crash before it.
PhoneExpire(r) ==
  /\ PvAt(r, "expire")
  /\ \/ /\ otp' = IF otp.n = 0 THEN otp ELSE [otp EXCEPT !.ttl = TRUE]
        /\ UNCHANGED stuckOtp
     \/ stuckOtp' = TRUE /\ UNCHANGED otp
  /\ PvGo(r, PvIdle)
  /\ UNCHANGED <<phoneOf, checks, windows>>

\* A right code: the counter is deleted.
PhoneClear(r) ==
  /\ PvAt(r, "clear") /\ windows < MaxWindows
  /\ otp' = [n |-> 0, ttl |-> FALSE] /\ checks' = 0 /\ windows' = windows + 1
  /\ PvGo(r, [pvReq[r] EXCEPT !.at = "mark"])
  /\ UNCHANGED <<phoneOf, stuckOtp>>

\* markPhoneVerified: phone_hash is UNIQUE, so a second account's update fails.
PhoneMark(r) ==
  /\ PvAt(r, "mark")
  /\ phoneOf' = IF phoneOf = {} THEN {pvReq[r].u} ELSE phoneOf
  /\ PvGo(r, PvIdle)
  /\ UNCHANGED <<otp, checks, windows, stuckOtp>>

\* The counter's hour is over.
OtpExpires ==
  /\ otp.ttl /\ windows < MaxWindows
  /\ otp' = [n |-> 0, ttl |-> FALSE] /\ checks' = 0 /\ windows' = windows + 1
  /\ UNCHANGED <<phoneOf, stuckOtp, pvReq>>

PvNext ==
  \/ \E r \in PvReqs, u \in Callers : PhoneStart(r, u)
  \/ \E r \in PvReqs :
       PhoneCheck(r) \/ PhoneIncr(r) \/ PhoneExpire(r) \/ PhoneClear(r) \/ PhoneMark(r)
  \/ OtpExpires

PvSpec == PvInit /\ [][PvNext]_pvVars
------------------------------------------------------------------------------
\* Counter and requests are well formed.
PvTypeOK ==
  /\ phoneOf \subseteq Callers /\ otp \in [n : Nat, ttl : BOOLEAN]
  /\ \A r \in PvReqs : pvReq[r].at \in {"idle", "check", "incr", "expire", "clear", "mark"}

\* Within one window Twilio is asked at most OtpLimit times, and once more for
\* every further request that had passed the counter already (services/phone.ts:97).
OtpChecksBounded == checks <= OtpLimit + Cardinality(PvReqs) - 1

\* A lockout ends: a counter that counts has its hour, or is about to be given
\* one, unless the process died between INCR and EXPIRE (services/phone.ts:112).
LockoutEnds ==
  otp.n > 0 => otp.ttl \/ stuckOtp \/ \E r \in PvReqs : PvAt(r, "expire")
=============================================================================
