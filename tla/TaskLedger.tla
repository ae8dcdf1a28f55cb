----------------------------- MODULE TaskLedger -----------------------------
(***************************************************************************)
(* The life of an upload task: the row SQLite keeps for it and the object  *)
(* the storage provider keeps under its key, as three kinds of actor       *)
(* change them without a common lock:                                      *)
(*   - the upload handler          (app/uploads.py, upload)                *)
(*   - strict deletion requests    (app/deletions.py, delete_task_object)  *)
(*   - the recovery pass           (app/runtime.py, recover)               *)
(* Every await and every hop to a worker thread in those functions is a    *)
(* step boundary here.  Each database write is one transaction, hence one  *)
(* step; most of them are blind (UPDATE ... WHERE id=?).                   *)
(*                                                                         *)
(* A task is the uuid drawn by one upload request, so it is uploaded once. *)
(***************************************************************************)
EXTENDS Naturals, FiniteSets

CONSTANTS
  Task,           \* upload tasks
  Deleter,        \* slots for concurrent deletion requests
  RecoveryBatch,  \* RECOVERY_BATCH_SIZE
  OutOfBand,      \* what somebody else may turn an object into
  SlowRequests,   \* may a request be alive when its row turns stale?
  LateEffects     \* may the provider apply a request its client gave up?

(***************************************************************************)
(* What a key of the bucket holds.  "sent" is the received file,           *)
(* "replaced" another object of the same size, "resized" one of another    *)
(* size.  The ETag tells the three apart; the size only the last.          *)
(***************************************************************************)
Content == {"absent", "sent", "replaced", "resized"}
SameSize == {"sent", "replaced"}

ASSUME LedgerAssumption ==
  /\ RecoveryBatch \in Nat \ {0}
  /\ OutOfBand \subseteq Content
  /\ SlowRequests \in BOOLEAN
  /\ LateEffects \in BOOLEAN

VARIABLES
  row,       \* the upload_tasks table
  aged,      \* tasks whose uploading or deleting row is past its stale limit
  store,     \* the bucket
  late,      \* abandoned requests the provider may still apply
  misled,    \* requests it applied and refused when its client repeated them
  upload,    \* the upload handler of each task
  deleter,   \* the deletion requests
  recovery,  \* what the current recovery pass holds for each task
  mode,      \* "booting", "recovering" (initial pass) or "serving"
  told       \* what clients were answered

vars == <<row, aged, store, late, misled, upload, deleter, recovery, mode, told>>

-----------------------------------------------------------------------------
Status == {"none", "uploading", "unknown", "failed", "succeeded"}
ObjectStatus == {"none", "pending", "absent", "present", "present_unclaimed",
                 "deleting", "delete_unknown", "deleted"}
ETag == {"none", "sent", "replaced", "resized"}
DeleteError == {"none", "DELETE_PENDING", "DELETE_FAILED", "OBJECT_CHANGED",
                "STORAGE_CONFIG_UNAVAILABLE"}

Row == [status : Status, object_status : ObjectStatus,
        token : BOOLEAN,                      \* delete_token_hash is not NULL
        etag : ETag, delete_error : DeleteError]

NoRow == [status |-> "none", object_status |-> "none", token |-> FALSE,
          etag |-> "none", delete_error |-> "none"]

\* The row upload() inserts before it calls the provider.
NewRow == [NoRow EXCEPT !.status = "uploading", !.object_status = "pending"]

Upload == [pc : {"idle", "put", "stored", "head", "save", "reply", "done"},
           found : {"none", "refused", "uncertain"} \union SameSize]

\* A deletion request, by the caller or through the administrator's route:
\* etag is what the row said when the request read it, to and error are what
\* it is about to write.
NoDeletion == [pc |-> "idle"]
Deletion == [pc : {"claim", "head", "delete", "applied", "confirm", "save"},
             task : Task, admin : BOOLEAN, etag : ETag,
             to : ObjectStatus, error : DeleteError]

\* A task of the recovery batch: the row as the pass read it, and what HEAD
\* answered since.
Recovery == [pc : {"idle", "queued", "save"}, copy : Row,
             found : Content \union {"none", "error", "config"}]

NotRecovering == [pc |-> "idle", copy |-> NoRow, found |-> "none"]

TypeOK ==
  /\ row \in [Task -> Row]
  /\ aged \subseteq Task
  /\ store \in [Task -> Content]
  /\ late \subseteq {"PUT", "DELETE"} \X Task
  /\ misled \subseteq {"PUT", "DELETE"} \X Task
  /\ upload \in [Task -> Upload]
  /\ deleter \in [Deleter -> {NoDeletion} \union Deletion]
  /\ recovery \in [Task -> Recovery]
  /\ mode \in {"booting", "recovering", "serving"}
  /\ told \subseteq {"created", "deleted"} \X Task

(***************************************************************************)
(* The table constraint of upload_tasks.                                   *)
(***************************************************************************)
CheckConstraint(r) ==
  \/ r.status \in {"uploading", "unknown"} /\ r.object_status = "pending"
  \/ r.status = "failed" /\ r.object_status = "absent"
  \/ /\ r.status = "succeeded"
     /\ r.object_status \in {"present", "present_unclaimed", "deleting",
                             "delete_unknown", "deleted"}

\* Database.update_task: no row, no effect; a row the constraint forbids is
\* refused with an IntegrityError.
UpdateTask(t, new) ==
  row' = IF row[t] = NoRow \/ ~CheckConstraint(new)
         THEN row ELSE [row EXCEPT ![t] = new]

\* matches_object_metadata
Matches(content, etag) == content = etag

UploadLive(t) == upload[t].pc \notin {"idle", "done"}
Claimed(d) == deleter[d].pc \notin {"idle", "claim"}
Handled(t) == UploadLive(t) \/ \E d \in Deleter : Claimed(d) /\ deleter[d].task = t

-----------------------------------------------------------------------------
Init ==
  /\ row = [t \in Task |-> NoRow]
  /\ aged = {}
  /\ store = [t \in Task |-> "absent"]
  /\ late = {} /\ misled = {}
  /\ upload = [t \in Task |-> [pc |-> "idle", found |-> "none"]]
  /\ deleter = [d \in Deleter |-> NoDeletion]
  /\ recovery = [t \in Task |-> NotRecovering]
  /\ mode = "serving"
  /\ told = {}

-----------------------------------------------------------------------------
(* The upload handler *)

SetUpload(t, pc, found) == upload' = [upload EXCEPT ![t] = [pc |-> pc, found |-> found]]

\* The row is inserted and the provider call starts; a file that is empty or
\* too large is inserted too, and never sent.
BeginUpload(t) ==
  /\ mode = "serving"
  /\ upload[t].pc = "idle"
  /\ row' = [row EXCEPT ![t] = NewRow]
  /\ \/ SetUpload(t, "put", "none")
     \/ SetUpload(t, "save", "refused")
  /\ UNCHANGED <<aged, store, late, misled, deleter, recovery, mode, told>>

\* The provider stores the object of a PUT that is still waited for.
PutApplied(t) ==
  /\ upload[t].pc = "put"
  /\ store' = [store EXCEPT ![t] = "sent"]
  /\ SetUpload(t, "stored", "none")
  /\ UNCHANGED <<row, aged, late, misled, deleter, recovery, mode, told>>

PutConfirmed(t) ==
  /\ upload[t].pc = "stored"
  /\ SetUpload(t, "head", "none")
  /\ UNCHANGED <<row, aged, store, late, misled, deleter, recovery, mode, told>>

\* ProviderError with uncertain=False: a 4xx answer.  The client repeats what
\* was not answered, and a CompleteMultipartUpload that was applied is refused
\* the second time (404 NoSuchUpload): then the object is stored nevertheless.
PutRefused(t) ==
  /\ upload[t].pc \in {"put", "stored"}
  /\ SetUpload(t, "save", "refused")
  /\ misled' = IF upload[t].pc = "stored" THEN misled \union {<<"PUT", t>>} ELSE misled
  /\ UNCHANGED <<row, aged, store, late, deleter, recovery, mode, told>>

\* ProviderError with uncertain=True: a timeout, a reset or a 5xx.
PutUncertain(t) ==
  /\ upload[t].pc \in {"put", "stored"}
  /\ SetUpload(t, "save", "uncertain")
  /\ late' = IF LateEffects /\ upload[t].pc = "put"
             THEN late \union {<<"PUT", t>>} ELSE late
  /\ UNCHANGED <<row, aged, store, misled, deleter, recovery, mode, told>>

\* HEAD after the PUT: no object, another size or no answer is uncertain.
HeadUpload(t) ==
  /\ upload[t].pc = "head"
  /\ \/ store[t] \in SameSize /\ SetUpload(t, "save", store[t])
     \/ SetUpload(t, "save", "uncertain")
  /\ UNCHANGED <<row, aged, store, late, misled, deleter, recovery, mode, told>>

\* Mistake: no answer to the PUT or its HEAD is taken for success.
UploadResultHasty(t) ==
  IF upload[t].found = "refused"
  THEN [row[t] EXCEPT !.status = "failed", !.object_status = "absent"]
  ELSE [row[t] EXCEPT !.status = "succeeded", !.object_status = "present",
                      !.token = TRUE, !.etag = "sent"]

UploadResult(t) ==
  CASE upload[t].found = "refused" ->
         [row[t] EXCEPT !.status = "failed", !.object_status = "absent"]
    [] upload[t].found = "uncertain" ->
         [row[t] EXCEPT !.status = "unknown", !.object_status = "pending"]
    [] OTHER ->
         [row[t] EXCEPT !.status = "succeeded", !.object_status = "present",
                        !.token = TRUE, !.etag = upload[t].found]

SaveUpload(t) ==
  /\ upload[t].pc = "save"
  /\ UpdateTask(t, UploadResult(t))
  /\ SetUpload(t, IF upload[t].found \in SameSize THEN "reply" ELSE "done", "none")
  /\ UNCHANGED <<aged, store, late, misled, deleter, recovery, mode, told>>

\* sqlite3.Error: the client gets a 500 and the row keeps saying uploading.
SaveUploadFails(t) ==
  /\ upload[t].pc = "save"
  /\ SetUpload(t, "done", "none")
  /\ UNCHANGED <<row, aged, store, late, misled, deleter, recovery, mode, told>>

\* 201 with the delete token, which is never sent again.
ReplyCreated(t) ==
  /\ upload[t].pc = "reply"
  /\ SetUpload(t, "done", "none")
  /\ told' = told \union {<<"created", t>>}
  /\ UNCHANGED <<row, aged, store, late, misled, deleter, recovery, mode>>

-----------------------------------------------------------------------------
(* Strict deletion, by the caller with its token or by the administrator *)

Deletable(admin) == IF admin THEN "present_unclaimed" ELSE "present"

\* The caller's token is the one the row keeps the hash of.
Authorised(t, admin) ==
  IF admin
  THEN row[t].status = "succeeded" /\ row[t].object_status = "present_unclaimed"
       /\ ~row[t].token
  ELSE <<"created", t>> \in told /\ row[t].token

Goto(d, pc) == deleter' = [deleter EXCEPT ![d].pc = pc]

\* Decide what the request will write back.
Conclude(d, to, error) ==
  deleter' = [deleter EXCEPT ![d].pc = "save", ![d].to = to, ![d].error = error]

EndDeletion(d) == deleter' = [deleter EXCEPT ![d] = NoDeletion]

\* The request reads the row and passes the checks in front of the claim.
ReadTask(d, t, admin) ==
  /\ mode = "serving"
  /\ deleter[d].pc = "idle"
  /\ Authorised(t, admin)
  /\ row[t].status = "succeeded" /\ row[t].object_status = Deletable(admin)
  /\ deleter' = [deleter EXCEPT ![d] = [pc |-> "claim", task |-> t,
                                        admin |-> admin, etag |-> row[t].etag,
                                        to |-> "none", error |-> "none"]]
  /\ UNCHANGED <<row, aged, store, late, misled, upload, recovery, mode, told>>

\* The gate answers 200 already_deleted without a claim.
AnswerDeleted(t) ==
  /\ mode = "serving"
  /\ Authorised(t, FALSE)
  /\ row[t].object_status = "deleted"
  /\ told' = told \union {<<"deleted", t>>}
  /\ UNCHANGED <<row, aged, store, late, misled, upload, deleter, recovery, mode>>

\* Mistake: the claim relies on the status the request read before.
ClaimableAsRead(d) == row[deleter[d].task].status = "succeeded"

\* claim_task_deletion and claim_unclaimed_deletion: a conditional update.
Claimable(d) ==
  LET r == row[deleter[d].task] IN
  /\ r.status = "succeeded"
  /\ r.object_status = Deletable(deleter[d].admin)
  /\ deleter[d].admin => ~r.token

Claim(d) ==
  /\ deleter[d].pc = "claim"
  /\ Claimable(d)
  /\ row' = [row EXCEPT ![deleter[d].task].object_status = "deleting",
                        ![deleter[d].task].delete_error = "none"]
  /\ aged' = aged \ {deleter[d].task}
  /\ Goto(d, "head")
  /\ UNCHANGED <<store, late, misled, upload, recovery, mode, told>>

\* Another request was first, or the database failed: nothing is changed.
\* Reading the row again may find it deleted, and say so.
ClaimLost(d) ==
  /\ deleter[d].pc = "claim"
  /\ EndDeletion(d)
  /\ told' = IF row[deleter[d].task].object_status = "deleted" /\ ~deleter[d].admin
             THEN told \union {<<"deleted", deleter[d].task>>} ELSE told
  /\ UNCHANGED <<row, aged, store, late, misled, upload, recovery, mode>>

\* No client for the task's own configuration, or the first HEAD: refused, not
\* answered, or answered.
HeadBefore(d) ==
  LET found == store[deleter[d].task] IN
  /\ deleter[d].pc = "head"
  /\ \/ \E error \in {"STORAGE_CONFIG_UNAVAILABLE", "DELETE_FAILED"} :
          Conclude(d, Deletable(deleter[d].admin), error)
     \/ Conclude(d, "delete_unknown", "DELETE_PENDING")
     \/ found = "absent" /\ Conclude(d, "deleted", "none")
     \/ /\ found # "absent" /\ ~Matches(found, deleter[d].etag)
        /\ Conclude(d, Deletable(deleter[d].admin), "OBJECT_CHANGED")
     \/ Matches(found, deleter[d].etag) /\ Goto(d, "delete")
  /\ UNCHANGED <<row, aged, store, late, misled, upload, recovery, mode, told>>

DeleteApplied(d) ==
  /\ deleter[d].pc = "delete"
  /\ store' = [store EXCEPT ![deleter[d].task] = "absent"]
  /\ Goto(d, "applied")
  /\ UNCHANGED <<row, aged, late, misled, upload, recovery, mode, told>>

DeleteConfirmed(d) ==
  /\ deleter[d].pc = "applied"
  /\ Goto(d, "confirm")
  /\ UNCHANGED <<row, aged, store, late, misled, upload, recovery, mode, told>>

\* A 4xx answer, to the DELETE or to its repetition.
DeleteRefused(d) ==
  /\ deleter[d].pc \in {"delete", "applied"}
  /\ Conclude(d, Deletable(deleter[d].admin), "DELETE_FAILED")
  /\ misled' = IF deleter[d].pc = "applied"
               THEN misled \union {<<"DELETE", deleter[d].task>>} ELSE misled
  /\ UNCHANGED <<row, aged, store, late, upload, recovery, mode, told>>

DeleteUncertain(d) ==
  /\ deleter[d].pc \in {"delete", "applied"}
  /\ Conclude(d, "delete_unknown", "DELETE_PENDING")
  /\ late' = IF LateEffects /\ deleter[d].pc = "delete"
             THEN late \union {<<"DELETE", deleter[d].task>>} ELSE late
  /\ UNCHANGED <<row, aged, store, misled, upload, recovery, mode, told>>

\* The HEAD after the DELETE.
HeadAfter(d) ==
  LET found == store[deleter[d].task] IN
  /\ deleter[d].pc = "confirm"
  /\ \/ Conclude(d, "delete_unknown", "DELETE_PENDING")
     \/ found = "absent" /\ Conclude(d, "deleted", "none")
     \/ /\ Matches(found, deleter[d].etag)
        /\ Conclude(d, Deletable(deleter[d].admin), "DELETE_FAILED")
  /\ UNCHANGED <<row, aged, store, late, misled, upload, recovery, mode, told>>

DeletionResult(d) ==
  [row[deleter[d].task] EXCEPT !.object_status = deleter[d].to,
                               !.delete_error = deleter[d].error]

\* _save_deletion and the answer.  A refused update answers 500.
SaveDeletion(d) ==
  /\ deleter[d].pc = "save"
  /\ UpdateTask(deleter[d].task, DeletionResult(d))
  /\ told' = IF deleter[d].to = "deleted" /\ CheckConstraint(DeletionResult(d))
             THEN told \union {<<"deleted", deleter[d].task>>} ELSE told
  /\ EndDeletion(d)
  /\ UNCHANGED <<aged, store, late, misled, upload, recovery, mode>>

SaveDeletionFails(d) ==
  /\ deleter[d].pc = "save"
  /\ EndDeletion(d)
  /\ UNCHANGED <<row, aged, store, late, misled, upload, recovery, mode, told>>

-----------------------------------------------------------------------------
(* The recovery pass *)

\* Mistakes: no stale limit; only what was answered "unknown" is pending.
PendingTaskOfAnyAge(t) == row[t].status \in {"unknown", "uploading"}
PendingTaskUnknown(t) == row[t].status = "unknown"

\* pending_tasks and pending_deletions
PendingTask(t) ==
  \/ row[t].status = "unknown"
  \/ row[t].status = "uploading" /\ t \in aged

\* The same mistakes for deletions.
PendingDeletionOfAnyAge(t) == row[t].object_status \in {"delete_unknown", "deleting"}
PendingDeletionUnknown(t) == row[t].object_status = "delete_unknown"

PendingDeletion(t) ==
  \/ row[t].object_status = "delete_unknown"
  \/ row[t].object_status = "deleting" /\ t \in aged

\* pending_tasks fills the batch first, pending_deletions takes what is left.
\* Which tasks are oldest is not modelled: any choice of that size.
Batch(S) ==
  LET uploads == {t \in Task : PendingTask(t)}
      deletions == {t \in Task : PendingDeletion(t)} IN
  /\ S \subseteq uploads \union deletions
  /\ Cardinality(S) <= RecoveryBatch
  /\ Cardinality(S) = RecoveryBatch \/ S = uploads \union deletions
  /\ uploads \subseteq S \/ S \subseteq uploads

Quiet == \A t \in Task : recovery[t].pc = "idle"

\* Passes do not overlap: start() awaits the first one, one supervisor loop
\* awaits the others.  The batch is read once, at the start.
StartPass ==
  /\ mode \in {"booting", "serving"} /\ Quiet
  /\ \E S \in SUBSET Task :
       /\ Batch(S)
       /\ recovery' = [t \in Task |->
            IF t \in S THEN [pc |-> "queued", copy |-> row[t], found |-> "none"]
            ELSE NotRecovering]
  /\ mode' = IF mode = "booting" THEN "recovering" ELSE mode
  /\ UNCHANGED <<row, aged, store, late, misled, upload, deleter, told>>

\* HEAD with the client of the task's own configuration ("config": there is
\* none; "error": no answer).
RecoverHead(t) ==
  /\ recovery[t].pc = "queued"
  /\ \E found \in {store[t], "error", "config"} :
       recovery' = [recovery EXCEPT ![t].pc = "save", ![t].found = found]
  /\ UNCHANGED <<row, aged, store, late, misled, upload, deleter, mode, told>>

\* Mistake: no answer is taken for no object.
UploadRecoveredHastily(t) ==
  IF recovery[t].found \in SameSize
  THEN [row[t] EXCEPT !.status = "succeeded", !.etag = recovery[t].found,
          !.object_status = IF recovery[t].copy.token
                            THEN "present" ELSE "present_unclaimed"]
  ELSE [row[t] EXCEPT !.status = "failed", !.object_status = "absent"]

\* Decided by the copy the pass read, written over whatever the row is now.
UploadRecovered(t) ==
  LET found == recovery[t].found IN
  CASE found = "absent" ->
         [row[t] EXCEPT !.status = "failed", !.object_status = "absent"]
    [] found \in SameSize ->
         [row[t] EXCEPT !.status = "succeeded", !.etag = found,
            !.object_status = IF recovery[t].copy.token
                              THEN "present" ELSE "present_unclaimed"]
    [] OTHER ->
         [row[t] EXCEPT !.status = "unknown", !.object_status = "pending"]

\* Mistake: an object that is still there is always given back to the caller.
DeletionOutcomeToCaller(found, copy) ==
  CASE found = "config" -> <<"delete_unknown", "STORAGE_CONFIG_UNAVAILABLE">>
    [] found = "error" -> <<"delete_unknown", "DELETE_PENDING">>
    [] found = "absent" -> <<"deleted", "none">>
    [] Matches(found, copy.etag) -> <<"present", "DELETE_FAILED">>
    [] OTHER -> <<"present", "OBJECT_CHANGED">>

\* The object_status and delete_error HEAD's answer calls for.
DeletionOutcome(found, copy) ==
  LET present == IF copy.token THEN "present" ELSE "present_unclaimed" IN
  CASE found = "config" -> <<"delete_unknown", "STORAGE_CONFIG_UNAVAILABLE">>
    [] found = "error" -> <<"delete_unknown", "DELETE_PENDING">>
    [] found = "absent" -> <<"deleted", "none">>
    [] Matches(found, copy.etag) -> <<present, "DELETE_FAILED">>
    [] OTHER -> <<present, "OBJECT_CHANGED">>

\* The row is written only when its copy says something else.
DeletionRecovered(t) ==
  LET copy == recovery[t].copy
      outcome == DeletionOutcome(recovery[t].found, copy) IN
  IF outcome = <<copy.object_status, copy.delete_error>>
  THEN row[t]
  ELSE [row[t] EXCEPT !.object_status = outcome[1], !.delete_error = outcome[2]]

Recovered(t) ==
  IF recovery[t].copy.status \in {"uploading", "unknown"}
  THEN UploadRecovered(t) ELSE DeletionRecovered(t)

RecoverSave(t) ==
  /\ recovery[t].pc = "save"
  /\ CheckConstraint(Recovered(t)) \/ row[t] = NoRow
  /\ UpdateTask(t, Recovered(t))
  /\ recovery' = [recovery EXCEPT ![t] = NotRecovering]
  /\ UNCHANGED <<aged, store, late, misled, upload, deleter, mode, told>>

\* A failed write of an upload's outcome is retried as unknown; otherwise the
\* exception ends the pass: later chunks of the batch are dropped while the
\* other tasks of this chunk go on, and an initial pass that fails takes the
\* process down.
RecoverSaveFails(t) ==
  /\ recovery[t].pc = "save"
  /\ IF /\ recovery[t].copy.status \in {"uploading", "unknown"}
        /\ recovery[t].found \in SameSize \union {"absent"}
     THEN /\ recovery' = [recovery EXCEPT ![t].found = "error"]
          /\ UNCHANGED mode
     ELSE /\ \E dropped \in SUBSET {s \in Task : recovery[s].pc = "queued"} :
               recovery' = [s \in Task |->
                 IF s = t \/ s \in dropped \/ mode = "recovering"
                 THEN NotRecovering ELSE recovery[s]]
          /\ mode' = IF mode = "recovering" THEN "booting" ELSE mode
  /\ UNCHANGED <<row, aged, store, late, misled, upload, deleter, told>>

\* The initial pass gives up what it has not started when its budget is spent.
BudgetSpent ==
  /\ mode = "recovering"
  /\ \E t \in Task : recovery[t].pc = "queued"
  /\ recovery' = [t \in Task |-> IF recovery[t].pc = "queued"
                                 THEN NotRecovering ELSE recovery[t]]
  /\ UNCHANGED <<row, aged, store, late, misled, upload, deleter, mode, told>>

\* start() returns and requests are accepted.
Serve ==
  /\ mode = "recovering" /\ Quiet
  /\ mode' = "serving"
  /\ UNCHANGED <<row, aged, store, late, misled, upload, deleter, recovery, told>>

-----------------------------------------------------------------------------
(* Time, the provider, other users of the bucket, crashes, retention *)

\* STALE_UPLOAD_SECONDS or STALE_DELETE_SECONDS pass.
Age(t) ==
  /\ row[t].status = "uploading" \/ row[t].object_status = "deleting"
  /\ t \notin aged
  /\ SlowRequests \/ ~Handled(t)
  /\ aged' = aged \union {t}
  /\ UNCHANGED <<row, store, late, misled, upload, deleter, recovery, mode, told>>

LateApplied(op, t) ==
  /\ <<op, t>> \in late
  /\ late' = late \ {<<op, t>>}
  /\ store' = [store EXCEPT ![t] = IF op = "PUT" THEN "sent" ELSE "absent"]
  /\ UNCHANGED <<row, aged, misled, upload, deleter, recovery, mode, told>>

ExternalChange(t) ==
  /\ store[t] # "absent"
  /\ \E c \in OutOfBand : store' = [store EXCEPT ![t] = c]
  /\ UNCHANGED <<row, aged, late, misled, upload, deleter, recovery, mode, told>>

\* The process dies and is started again: every handler is gone, what was on
\* the wire may still arrive.
Crash ==
  /\ mode' = "booting"
  /\ upload' = [t \in Task |-> IF UploadLive(t)
                               THEN [pc |-> "done", found |-> "none"] ELSE upload[t]]
  /\ deleter' = [d \in Deleter |-> NoDeletion]
  /\ recovery' = [t \in Task |-> NotRecovering]
  /\ late' = IF ~LateEffects THEN late
             ELSE late \union {<<"PUT", t>> : t \in {u \in Task : upload[u].pc = "put"}}
                       \union {<<"DELETE", deleter[d].task>> :
                                 d \in {e \in Deleter : deleter[e].pc = "delete"}}
  /\ UNCHANGED <<row, aged, store, misled, told>>

\* Mistake: every succeeded or failed task is forgotten, deletable or not.
PurgeFinished(t) ==
  /\ row[t].status \in {"succeeded", "failed"}
  /\ mode = "serving"
  /\ ~UploadLive(t) /\ recovery[t].pc = "idle"
  /\ \A d \in Deleter : deleter[d].pc # "idle" => deleter[d].task # t
  /\ row' = [row EXCEPT ![t] = NoRow]
  /\ UNCHANGED <<aged, store, late, misled, upload, deleter, recovery, mode, told>>

\* maintain() forgets a finished task after TASK_RETENTION_DAYS, long after
\* any request or pass that knew it.
Purge(t) ==
  /\ row[t].status \in {"succeeded", "failed"}
  /\ row[t].object_status \in {"absent", "deleted"}
  /\ mode = "serving"
  /\ ~UploadLive(t) /\ recovery[t].pc = "idle"
  /\ \A d \in Deleter : deleter[d].pc # "idle" => deleter[d].task # t
  /\ row' = [row EXCEPT ![t] = NoRow]
  /\ UNCHANGED <<aged, store, late, misled, upload, deleter, recovery, mode, told>>

-----------------------------------------------------------------------------
UploadStep(t) ==
  \/ BeginUpload(t) \/ PutApplied(t) \/ PutConfirmed(t) \/ PutRefused(t)
  \/ PutUncertain(t) \/ HeadUpload(t) \/ SaveUpload(t) \/ SaveUploadFails(t)
  \/ ReplyCreated(t)

DeletionStep(d) ==
  \/ \E t \in Task, admin \in BOOLEAN : ReadTask(d, t, admin)
  \/ Claim(d) \/ ClaimLost(d) \/ HeadBefore(d) \/ DeleteApplied(d)
  \/ DeleteConfirmed(d) \/ DeleteRefused(d) \/ DeleteUncertain(d)
  \/ HeadAfter(d) \/ SaveDeletion(d) \/ SaveDeletionFails(d)

RecoveryStep(t) == RecoverHead(t) \/ RecoverSave(t) \/ RecoverSaveFails(t)

Environment(t) ==
  \/ Age(t) \/ ExternalChange(t) \/ Purge(t) \/ AnswerDeleted(t)
  \/ \E op \in {"PUT", "DELETE"} : LateApplied(op, t)

Next ==
  \/ \E t \in Task : UploadStep(t) \/ RecoveryStep(t) \/ Environment(t)
  \/ \E d \in Deleter : DeletionStep(d)
  \/ StartPass \/ BudgetSpent \/ Serve \/ Crash

Spec == Init /\ [][Next]_vars

(***************************************************************************)
(* Fairness.  A handler that runs goes on, the supervisor starts a pass    *)
(* after every interval, and time passes.  Outages end: from some moment   *)
(* on the process stays up, recovery's HEAD is answered and its writes     *)
(* succeed.  Nothing is assumed of requests that have not been made.       *)
(***************************************************************************)
RecoveryOutage ==
  \E t \in Task :
    \/ RecoverSaveFails(t)
    \/ RecoverHead(t) /\ recovery'[t].found \in {"error", "config"}

Fairness ==
  /\ \A t \in Task : /\ WF_vars(UploadLive(t) /\ UploadStep(t))
                     /\ WF_vars(RecoveryStep(t))
                     /\ WF_vars(Age(t))
  /\ \A d \in Deleter : WF_vars(deleter[d].pc # "idle" /\ DeletionStep(d))
  /\ WF_vars(StartPass) /\ WF_vars(Serve)
  /\ <>[][~Crash]_vars /\ <>[][~RecoveryOutage]_vars

FairSpec == Spec /\ Fairness

-----------------------------------------------------------------------------
(* Properties *)

\* Exactly one party can ask for the deletion of a stored object: the caller,
\* if the row keeps its token's hash, and the administrator otherwise.  A
\* present row without a hash, or a present_unclaimed row with one, is refused
\* by both routes of delete_task_object for ever.
HasOwner ==
  \A t \in Task :
    /\ row[t].object_status = "present" => row[t].token
    /\ row[t].object_status = "present_unclaimed" => ~row[t].token

\* At most one request acts on an object at a time, and only while the row
\* says so: what the conditional claim of delete_task_object is for.
OneDeleter ==
  \A d \in Deleter : Claimed(d) =>
    /\ row[deleter[d].task].object_status = "deleting"
    /\ \A e \in Deleter : Claimed(e) /\ deleter[e].task = deleter[d].task => e = d

\* A client that was given a 201 and a token keeps what it was given: the task
\* stays succeeded with its hash until the object is deleted.
CreatedIsKept ==
  \A t \in Task : <<"created", t>> \in told =>
    \/ row[t].status = "succeeded" /\ row[t].token
       /\ row[t].object_status # "present_unclaimed"
    \/ row[t] = NoRow /\ upload[t].pc = "done"

\* Once a client was answered that the object is deleted no later write of a
\* handler or of the recovery pass brings the row back.
DeletedIsFinal ==
  \A t \in Task : <<"deleted", t>> \in told =>
    row[t] = NoRow \/ row[t].object_status = "deleted"

\* The pass decides by a row it read before HEAD and writes it blindly: the
\* row must not have changed in between.
CopyIsCurrent ==
  \A t \in Task : recovery[t].pc # "idle" => row[t] = recovery[t].copy

\* The table constraint never refuses what a deletion request or the pass
\* writes: each changes some columns of a row it believes to know, and an
\* outcome would be lost to an IntegrityError if the others had moved on.
NoUpdateRefused ==
  /\ \A d \in Deleter : deleter[d].pc = "save" => CheckConstraint(DeletionResult(d))
  /\ \A t \in Task : recovery[t].pc = "save" => CheckConstraint(Recovered(t))

\* An object in the bucket is known to the ledger: its row is neither failed,
\* deleted nor forgotten.  Only an upload that the provider applied and then
\* refused can leave one behind.
NoOrphan ==
  \A t \in Task : store[t] # "absent" /\ <<"PUT", t>> \notin misled =>
    \/ row[t].status \in {"uploading", "unknown"}
    \/ row[t].object_status \in {"present", "present_unclaimed", "deleting",
                                 "delete_unknown"}

\* Conversely, while nobody else touches the bucket, a row that offers an
\* object has one, unless the provider refused a DELETE it had applied.
PresentIsStored ==
  \A t \in Task :
    /\ row[t].object_status \in {"present", "present_unclaimed"}
    /\ <<"DELETE", t>> \notin misled
    => store[t] # "absent"

\* No upload stays undecided, whichever step its handler died in: recovery
\* settles it as soon as outages end.  (As long as there is an object of another
\* size than the one received its task is kept unknown, by design.)
UploadsSettle ==
  \A t \in Task : <>[](store[t] # "resized") =>
    (row[t].status \in {"uploading", "unknown"}
       ~> row[t].status \in {"succeeded", "failed"})

\* No deletion stays undecided: a deleting or delete_unknown row is deleted or
\* given back to its owner.
DeletionsSettle ==
  \A t \in Task : row[t].object_status \in {"deleting", "delete_unknown"}
                  ~> row[t].object_status \in {"deleted", "present",
                                               "present_unclaimed"}

(***************************************************************************)
(* The ledger's columns, read as the promise made to clients.              *)
(***************************************************************************)
PhaseOf(r) ==
  CASE r.object_status = "none" -> "none"
    [] r.object_status = "pending" -> "open"
    [] r.object_status = "absent" -> "void"
    [] r.object_status \in {"present", "present_unclaimed"} -> "kept"
    [] r.object_status \in {"deleting", "delete_unknown"} -> "closing"
    [] r.object_status = "deleted" -> "gone"

OwnerOf(r) ==
  IF r.status # "succeeded" THEN "nobody"
  ELSE IF r.token THEN "caller" ELSE "administrator"

Lifecycle == INSTANCE ObjectLifecycle WITH
  phase <- [t \in Task |-> PhaseOf(row[t])],
  owner <- [t \in Task |-> OwnerOf(row[t])],
  promised <- {t \in Task : <<"created", t>> \in told}

\* Uploading, recovering and deleting in any order, with crashes and provider
\* failures anywhere, is the simple life cycle clients are promised.
ImplementsLifecycle == Lifecycle!Spec

-----------------------------------------------------------------------------
(***************************************************************************)
(* The inductive invariant behind the properties above, for requests that  *)
(* end before their row turns stale (SlowRequests = FALSE): every row that *)
(* somebody is about to write belongs to that writer alone.                *)
(***************************************************************************)
RowsLegal == \A t \in Task : row[t] = NoRow \/ CheckConstraint(row[t])

TokensFit ==
  /\ HasOwner
  /\ \A t \in Task : row[t].status # "succeeded" => ~row[t].token

\* An upload handler that still has something to write owns a young row.
UploadsOwn ==
  \A t \in Task :
    /\ upload[t].pc = "idle" => row[t] = NoRow /\ t \notin aged
    /\ upload[t].pc \in {"put", "stored", "head", "save"} =>
         row[t].status = "uploading" /\ t \notin aged
    /\ upload[t].pc = "reply" =>
         row[t].status = "succeeded" /\ row[t].object_status = "present"

\* A deletion request past its claim owns a young row, of its own route.
DeletionsOwn ==
  \A d \in Deleter : Claimed(d) =>
    /\ row[deleter[d].task].object_status = "deleting"
    /\ deleter[d].task \notin aged
    /\ deleter[d].admin = ~row[deleter[d].task].token
    /\ deleter[d].pc = "save" =>
         deleter[d].to \in {Deletable(deleter[d].admin), "delete_unknown", "deleted"}

\* The pass holds only rows nobody else writes.
PassOwns ==
  \A t \in Task : recovery[t].pc # "idle" => PendingTask(t) \/ PendingDeletion(t)

\* Nobody is told about, or asks to delete, an upload still being answered.
AfterUpload ==
  /\ \A t \in Task, what \in {"created", "deleted"} :
       <<what, t>> \in told => upload[t].pc = "done"
  /\ \A d \in Deleter :
       deleter[d].pc # "idle" => upload[deleter[d].task].pc = "done"

IInv ==
  /\ TypeOK /\ RowsLegal /\ TokensFit /\ UploadsOwn /\ DeletionsOwn
  /\ OneDeleter /\ CopyIsCurrent /\ PassOwns /\ AfterUpload
  /\ CreatedIsKept /\ DeletedIsFinal

\* For NoOrphan, when no abandoned request is applied: what the last HEAD or
\* the provider's refusal said still holds when it is written down.
AbsenceHolds ==
  /\ late = {}
  /\ \A t \in Task :
       /\ upload[t].pc \in {"idle", "put"} => store[t] = "absent"
       /\ upload[t].found = "refused" /\ <<"PUT", t>> \notin misled
            => store[t] = "absent"
       /\ recovery[t].pc = "save" /\ recovery[t].found = "absent"
            => store[t] = "absent"
  /\ \A d \in Deleter :
       deleter[d].pc = "save" /\ deleter[d].to = "deleted"
         => store[deleter[d].task] = "absent"

\* For PresentIsStored, under the same assumption: whoever is about to write
\* that an object is there, or still may, saw one that nobody else removes.
PresenceHolds ==
  /\ late = {}
  /\ \A t \in Task :
       /\ upload[t].pc = "save" /\ upload[t].found \notin {"refused", "uncertain"}
            => store[t] # "absent"
       /\ recovery[t].pc = "save" /\ recovery[t].found \notin {"error", "config", "absent"}
            => store[t] # "absent"
  /\ \A d \in Deleter :
       \/ deleter[d].pc \in {"head", "delete"}
       \/ deleter[d].pc = "save" /\ deleter[d].to \in {"present", "present_unclaimed"}
       => store[deleter[d].task] # "absent" \/ <<"DELETE", deleter[d].task>> \in misled
==============================================================================
