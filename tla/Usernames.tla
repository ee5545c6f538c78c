------------------------------ MODULE Usernames ------------------------------
(***************************************************************************)
(* User names: upsertUser and allocateUsername (db/queries/users.ts),      *)
(* PATCH /users/me/profile with its redirect from the old name, and GET    *)
(* /users/profile/:username, which follows a redirect before it looks for  *)
(* the user (routes/users.ts).  Names are numbered in the order            *)
(* allocateUsername tries them for one display name: base, base-2, ...     *)
(***************************************************************************)
EXTENDS Naturals, FiniteSets

CONSTANTS Players, UnReqs,
          MaxName,     \* names 1 .. MaxName
          MaxRenames   \* bound on the renames

ASSUME UnAssumption == {MaxName, MaxRenames} \subseteq Nat

VARIABLES uname,      \* users.username, 0 before sign-up
          redirect,   \* Redis username:redirect:<name>, 0 when absent
          renames,    \* renames done
          retaken,    \* history: names given up and taken again
          overlapped, \* history: two updates of one profile overlapped
          unReq       \* requests: what each has read

nameVars == <<uname, redirect, renames, retaken, overlapped>>
unVars == <<nameVars, unReq>>

Names == 1 .. MaxName
Taken == {uname[u] : u \in Players} \ {0}
\* GET /users/profile/:username: a redirect is followed before the row is looked up.
Visit(n) == IF redirect[n] # 0 THEN redirect[n] ELSE n
UnIdle == [at |-> "idle", u |-> 0, old |-> 0, new |-> 0, try |-> 0]
UnAt(r, l) == unReq[r].at = l
UnGo(r, rec) == unReq' = [unReq EXCEPT ![r] = rec]

UnInit ==
  /\ uname = [u \in Players |-> 0] /\ redirect = [n \in Names |-> 0]
  /\ renames = 0 /\ retaken = {} /\ overlapped = FALSE
  /\ unReq = [r \in UnReqs |-> UnIdle]

\* allocateUsername reads the taken names and picks the first free one.
SignUpAllocate(r, u) ==
  /\ \/ UnAt(r, "idle") /\ uname[u] = 0
     \/ UnAt(r, "retry") /\ unReq[r].u = u
  /\ \E n \in Names \ Taken :
       /\ \A m \in Names \ Taken : n <= m
       /\ UnGo(r, [UnIdle EXCEPT !.at = "insert", !.u = u, !.new = n, !.try = unReq[r].try + 1])
  /\ UNCHANGED nameVars

\* The insert: a name taken meanwhile is a unique violation, tried again twice;
\* an account that is there already keeps its name.
SignUpInsert(r) ==
  LET u == unReq[r].u  n == unReq[r].new IN
  /\ UnAt(r, "insert")
  /\ IF uname[u] # 0
     THEN UnGo(r, UnIdle) /\ UNCHANGED <<uname, retaken>>
     ELSE IF n \in Taken
     THEN /\ UnGo(r, IF unReq[r].try < 3 THEN [unReq[r] EXCEPT !.at = "retry"] ELSE UnIdle)
          /\ UNCHANGED <<uname, retaken>>
     ELSE /\ uname' = [uname EXCEPT ![u] = n]
          /\ retaken' = IF redirect[n] # 0 THEN retaken \cup {n} ELSE retaken
          /\ UnGo(r, UnIdle)
  /\ UNCHANGED <<redirect, renames, overlapped>>

\* updateUserProfile reads the row: a request without a username keeps the one
\* it read.
RenameRead(r, u, n) ==
  /\ UnAt(r, "idle") /\ uname[u] # 0 /\ renames < MaxRenames
  /\ overlapped' = (overlapped \/ \E q \in UnReqs : UnAt(q, "update") /\ unReq[q].u = u)
  /\ UnGo(r, [UnIdle EXCEPT !.at = "update", !.u = u, !.old = uname[u], !.new = n])
  /\ UNCHANGED <<uname, redirect, renames, retaken>>

\* ... and writes both columns; the unique index refuses another's name.
RenameUpdate(r) ==
  LET u == unReq[r].u  n == unReq[r].new IN
  /\ UnAt(r, "update")
  /\ IF n \in Taken \ {uname[u]}
     THEN UnGo(r, UnIdle) /\ UNCHANGED <<uname, renames, retaken>>
     ELSE /\ uname' = [uname EXCEPT ![u] = n]
          /\ renames' = renames + 1
          /\ retaken' = IF redirect[n] # 0 THEN retaken \cup {n} ELSE retaken
          /\ UnGo(r, IF unReq[r].old # n THEN [unReq[r] EXCEPT !.at = "redirect"] ELSE UnIdle)
  /\ UNCHANGED <<redirect, overlapped>>

\* Fault: the redirect is stored for the new name.
RenameRedirectSwapped(r) ==
  /\ UnAt(r, "redirect")
  /\ redirect' = [redirect EXCEPT ![unReq[r].new] = unReq[r].old]
  /\ UnGo(r, UnIdle)
  /\ UNCHANGED <<uname, renames, retaken, overlapped>>

\* The redirect from the old name, kept for a year and never taken back.
RenameRedirect(r) ==
  LET o == unReq[r].old IN
  /\ UnAt(r, "redirect")
  /\ redirect' = [redirect EXCEPT ![o] = unReq[r].new]
  /\ retaken' = IF o \in Taken THEN retaken \cup {o} ELSE retaken
  /\ UnGo(r, UnIdle)
  /\ UNCHANGED <<uname, renames, overlapped>>

UnNext ==
  \/ \E r \in UnReqs, u \in Players :
       SignUpAllocate(r, u) \/ \E n \in Names : RenameRead(r, u, n)
  \/ \E r \in UnReqs : SignUpInsert(r) \/ RenameUpdate(r) \/ RenameRedirect(r)

UnSpec == UnInit /\ [][UnNext]_unVars
------------------------------------------------------------------------------
\* Names and requests are well formed.
UnTypeOK ==
  /\ uname \in [Players -> 0 .. MaxName] /\ redirect \in [Names -> 0 .. MaxName]
  /\ \A r \in UnReqs : unReq[r].at \in
       {"idle", "insert", "retry", "update", "redirect"}

\* A profile is found under the name its owner bears: no redirect hides it,
\* unless that name was once given up and taken again (routes/users.ts:906).
OwnNameFound ==
  \A u \in Players : uname[u] # 0 =>
    Visit(uname[u]) = uname[u] \/ uname[u] \in retaken

\* A redirect leads on to a name somebody bears or to one redirected in turn:
\* an old link never ends at "not found", as long as no rename is half done.
RedirectLeadsOn ==
  \A n \in Names : redirect[n] # 0 =>
    \/ redirect[n] \in Taken \/ redirect[redirect[n]] # 0
    \/ \E r \in UnReqs : UnAt(r, "redirect") /\ unReq[r].old = redirect[n]
    \/ overlapped
=============================================================================
