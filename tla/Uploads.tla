------------------------------- MODULE Uploads -------------------------------
(***************************************************************************)
(* Files: the upload field of the web client over POST /upload/presign,    *)
(* PUT to storage, POST /upload/verify and DELETE /upload/abort            *)
(* (routes/upload.ts), for one presigned key whose answers may be lost;    *)
(* and POST /users/me/avatar (routes/users.ts), which stores an object,    *)
(* points the row at it and deletes the object the row pointed at before.  *)
(* POST /upload/complete asks for the record of a bare uuid while presign  *)
(* stores it under prefix and uuid: it answers 403 and changes nothing.    *)
(***************************************************************************)
EXTENDS Naturals, FiniteSets

CONSTANTS AvReqs,     \* avatar requests under way at once
          MaxAvatars  \* bound on the avatar objects with a fresh name

ASSUME UpAssumption == MaxAvatars \in Nat

VARIABLES upObj,      \* the object at the presigned key: "none", "valid", "invalid"
          pendingRec, \* Redis upload:pending:<user>:<key>
          urlLive,    \* the presigned URL has not expired
          field,      \* the upload field: [at, tries, file]
          inServer,   \* verify requests the API has not finished: "head", "checked"
          confirmed,  \* history: the API has committed the upload
          saved,      \* the key is in the brand kit form (onUploaded)
          avatar,     \* users.avatar_url: the key it names, 0 for none
          avObjs,     \* avatar objects in storage
          nextAv,     \* fresh avatar names used
          rewrote,    \* history: the deletion of an avatar key overlapped its being set again
          avReq       \* avatar requests: [at, new, old]

fileVars == <<upObj, pendingRec, urlLive, field, inServer, confirmed, saved>>
avVars == <<avatar, avObjs, nextAv, rewrote, avReq>>
upVars == <<fileVars, avVars>>

MaxTries == 3                      \* verifyWithRetry's delays
ShareKey == MaxAvatars + 1         \* the key optimizeImage derives from one upload
AvKeys == 1 .. ShareKey
AvIdle == [at |-> "idle", new |-> 0, old |-> 0]
AvAt(r, l) == avReq[r].at = l
AvGo(r, rec) == avReq' = [avReq EXCEPT ![r] = rec]
FieldGo(l) == field' = [field EXCEPT !.at = l]

UpInit ==
  /\ upObj = "none" /\ pendingRec = FALSE /\ urlLive = FALSE
  /\ field = [at |-> "idle", tries |-> 0, file |-> "valid"]
  /\ inServer = {} /\ confirmed = FALSE /\ saved = FALSE
  /\ avatar = 0 /\ avObjs = {} /\ nextAv = 0 /\ rewrote = FALSE
  /\ avReq = [r \in AvReqs |-> AvIdle]

\* handleFile: the client's own checks (type, size, first bytes) pass; they look
\* at less than the API's, so the file may still be one the API refuses.  Then
\* POST /upload/presign: a key, a URL, and the record that this user owns it.
Presign ==
  /\ field.at = "idle"
  /\ \E f \in {"valid", "invalid"} : field' = [at |-> "put", tries |-> 0, file |-> f]
  /\ pendingRec' = TRUE /\ urlLive' = TRUE
  /\ UNCHANGED <<upObj, inServer, confirmed, saved>> /\ UNCHANGED avVars

\* putWithProgress: the object is stored, and the answer may be lost.
PutObject ==
  /\ field.at = "put"
  /\ \/ urlLive /\ upObj' = field.file /\ (FieldGo("verify") \/ FieldGo("error"))
     \/ ~urlLive /\ FieldGo("error") /\ UNCHANGED upObj
  /\ UNCHANGED <<pendingRec, urlLive, inServer, confirmed, saved>> /\ UNCHANGED avVars

\* The presigned URL's 600 s are over.
UrlExpires ==
  /\ urlLive
  /\ urlLive' = FALSE
  /\ UNCHANGED <<upObj, pendingRec, field, inServer, confirmed, saved>> /\ UNCHANGED avVars

\* ... and a minute later so is the record of ownership.
RecordExpires ==
  /\ pendingRec /\ ~urlLive
  /\ pendingRec' = FALSE
  /\ UNCHANGED <<upObj, urlLive, field, inServer, confirmed, saved>> /\ UNCHANGED avVars

\* verifyWithRetry sends POST /upload/verify, up to three times.
SendVerify ==
  /\ field.at = "verify" /\ field.tries < MaxTries
  /\ field' = [field EXCEPT !.at = "wait", !.tries = @ + 1]
  /\ inServer' = inServer \cup {"head"}
  /\ UNCHANGED <<upObj, pendingRec, urlLive, confirmed, saved>> /\ UNCHANGED avVars

\* POST /upload/verify: HEAD, size, type and first bytes.  A file that fails is
\* deleted (413, 400, 415); one that passes loses its record and is committed;
\* no object is a 404.
Verify ==
  /\ "head" \in inServer
  /\ inServer' = inServer \ {"head"}
  /\ \/ upObj = "valid" /\ pendingRec' = FALSE /\ confirmed' = TRUE /\ UNCHANGED upObj
     \/ upObj = "invalid" /\ upObj' = "none" /\ UNCHANGED <<pendingRec, confirmed>>
     \/ upObj = "none" /\ UNCHANGED <<upObj, pendingRec, confirmed>>
  /\ UNCHANGED <<urlLive, field, saved>> /\ UNCHANGED avVars

\* The answer to the last verify: 200 once it has committed, an error, or none
\* at all, which the client takes for an error too.
Answer ==
  /\ field.at = "wait"
  /\ \/ confirmed /\ inServer = {} /\ FieldGo("done") /\ saved' = TRUE
     \/ FieldGo(IF field.tries = MaxTries THEN "abort" ELSE "verify") /\ UNCHANGED saved
  /\ UNCHANGED <<upObj, pendingRec, urlLive, inServer, confirmed>> /\ UNCHANGED avVars

\* DELETE /upload/abort: 403 without the record, otherwise object and record
\* are deleted.  The client ignores the answer and tells the user.
Abort ==
  /\ field.at = "abort"
  /\ IF pendingRec THEN upObj' = "none" /\ pendingRec' = FALSE
                   ELSE UNCHANGED <<upObj, pendingRec>>
  /\ FieldGo("removed")
  /\ UNCHANGED <<urlLive, inServer, confirmed, saved>> /\ UNCHANGED avVars

\* POST /users/me/avatar with a file: the object is stored under a fresh name,
\* and the row's old value read.
StoreAvatar(r) ==
  /\ AvAt(r, "idle") /\ nextAv < MaxAvatars
  /\ nextAv' = nextAv + 1 /\ avObjs' = avObjs \cup {nextAv + 1}
  /\ AvGo(r, [at |-> "update", new |-> nextAv + 1, old |-> avatar])
  /\ UNCHANGED <<avatar, rewrote>> /\ UNCHANGED fileVars

\* ... with the key of an upload: optimizeImage stores it under a name that is
\* the same every time.
OptimizeAvatar(r) ==
  /\ AvAt(r, "idle")
  /\ avObjs' = avObjs \cup {ShareKey}
  /\ AvGo(r, [at |-> "update", new |-> ShareKey, old |-> avatar])
  /\ rewrote' = (rewrote \/ \E q \in AvReqs : avReq[q].old = ShareKey)
  /\ UNCHANGED <<avatar, nextAv>> /\ UNCHANGED fileVars

\* UPDATE users SET avatar_url, whatever it is by now.
PointAvatar(r) ==
  /\ AvAt(r, "update")
  /\ avatar' = avReq[r].new
  /\ rewrote' = (rewrote \/ \E q \in AvReqs \ {r} : avReq[q].old = avReq[r].new)
  /\ AvGo(r, [avReq[r] EXCEPT !.at = "delete"])
  /\ UNCHANGED <<avObjs, nextAv>> /\ UNCHANGED fileVars

\* The old object is deleted if it is another one, and the deletion may fail.
DeleteOldAvatar(r) ==
  /\ AvAt(r, "delete")
  /\ \/ avObjs' = IF avReq[r].old = avReq[r].new THEN avObjs ELSE avObjs \ {avReq[r].old}
     \/ UNCHANGED avObjs
  /\ rewrote' = (rewrote \/ (avReq[r].old # 0
                             /\ \E q \in AvReqs \ {r} : avReq[q].new = avReq[r].old))
  /\ AvGo(r, AvIdle)
  /\ UNCHANGED <<avatar, nextAv>> /\ UNCHANGED fileVars

UpNext ==
  \/ Presign \/ PutObject \/ UrlExpires \/ RecordExpires \/ SendVerify \/ Verify
  \/ Answer \/ Abort
  \/ \E r \in AvReqs :
       StoreAvatar(r) \/ OptimizeAvatar(r) \/ PointAvatar(r) \/ DeleteOldAvatar(r)

UpSpec == UpInit /\ [][UpNext]_upVars
------------------------------------------------------------------------------
\* Objects, rows, the field and the requests are well formed.
UpTypeOK ==
  /\ upObj \in {"none", "valid", "invalid"}
  /\ {pendingRec, urlLive, confirmed, saved, rewrote} \subseteq BOOLEAN
  /\ field.at \in {"idle", "put", "verify", "wait", "done", "abort", "removed", "error"}
  /\ field.tries \in 0 .. MaxTries
  /\ avatar \in 0 .. ShareKey /\ avObjs \subseteq AvKeys
  /\ \A r \in AvReqs : avReq[r].at \in {"idle", "update", "delete"}

\* A file the form refers to is in storage and is one the API accepted, also
\* when answers were lost and requests repeated (upload-field.tsx:264).
SavedFileServed == saved => upObj = "valid"

\* Told "the file has been removed", the user is told the truth, unless the API
\* had committed the upload or the record had run out
\* (upload-field.tsx:268, upload.ts:226).
RemovedMeansGone ==
  field.at = "removed" /\ upObj # "none" => confirmed \/ ~urlLive

\* The avatar a user's row names is in storage, unless its name was set again
\* while a deletion of it was under way (routes/users.ts:205, 243).
AvatarStored == avatar # 0 => avatar \in avObjs \/ rewrote
=============================================================================
