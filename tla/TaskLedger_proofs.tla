-------------------------- MODULE TaskLedger_proofs --------------------------
(***************************************************************************)
(* Proofs about TaskLedger for every set of tasks and deletion requests,   *)
(* every batch size and every change others make to the bucket.  IInv is   *)
(* shown inductive action by action; the theorems follow from it.          *)
(***************************************************************************)
EXTENDS TaskLedger, TLAPS

\* The invariant holds before the first request.
LEMMA InitIInv == Init => IInv
<1> SUFFICES ASSUME Init PROVE IInv
  OBVIOUS
<1> USE DEF Init
<1>1. TypeOK
  BY DEF TypeOK, Row, NoRow, Status, ObjectStatus, ETag, DeleteError, Upload,
         Content, Recovery, NotRecovering
<1>2. RowsLegal /\ TokensFit
  BY DEF RowsLegal, TokensFit, HasOwner, NoRow
<1>3. UploadsOwn /\ AfterUpload /\ CreatedIsKept /\ DeletedIsFinal
  BY DEF UploadsOwn, AfterUpload, CreatedIsKept, DeletedIsFinal, NoRow, NoDeletion
<1>4. DeletionsOwn /\ OneDeleter
  BY DEF DeletionsOwn, OneDeleter, Claimed, NoDeletion
<1>5. CopyIsCurrent /\ PassOwns
  BY DEF CopyIsCurrent, PassOwns, NotRecovering
<1> QED
  BY <1>1, <1>2, <1>3, <1>4, <1>5 DEF IInv


-----------------------------------------------------------------------------
(* What the writers write is a row. *)

\* The upload handler writes a row.
LEMMA UploadResultTyped ==
  ASSUME TypeOK, NEW t \in Task, upload[t].pc = "save"
  PROVE  UploadResult(t) \in Row
<1>1. upload[t].found \in {"none", "refused", "uncertain", "sent", "replaced"}
  BY DEF TypeOK, Upload, SameSize
<1>2. row[t] \in Row
  BY DEF TypeOK
<1> QED
  BY <1>1, <1>2 DEF UploadResult, Row, Status, ObjectStatus, ETag

\* A deletion request writes a row.
LEMMA DeletionResultTyped ==
  ASSUME TypeOK, NEW d \in Deleter, deleter[d].pc = "save"
  PROVE  /\ deleter[d] \in Deletion
         /\ DeletionResult(d) \in Row
<1>1. deleter[d] \in Deletion
  BY DEF TypeOK, NoDeletion
<1>2. row[deleter[d].task] \in Row
  BY <1>1 DEF TypeOK, Deletion
<1> QED
  BY <1>1, <1>2 DEF DeletionResult, Deletion, Row

\* Recovery decides on a state a deleting row may go to, for the right owner.
LEMMA OutcomeIsLegal ==
  ASSUME NEW found, NEW copy
  PROVE  /\ DeletionOutcome(found, copy)[1] \in
              {"delete_unknown", "deleted",
               IF copy.token THEN "present" ELSE "present_unclaimed"}
         /\ DeletionOutcome(found, copy)[2] \in
              {"none", "STORAGE_CONFIG_UNAVAILABLE", "DELETE_PENDING", "DELETE_FAILED",
               "OBJECT_CHANGED"}
  BY DEF DeletionOutcome

\* Recovery's verdict on a deletion keeps the row's status and owner, and ends
\* the deletion only when HEAD found nothing.
LEMMA DeletionRecoveredFits ==
  ASSUME NEW t, row[t] \in Row, recovery[t].copy = row[t],
         row[t].object_status \in {"deleting", "delete_unknown"}
  PROVE  LET new == DeletionRecovered(t) IN
         /\ new.status = row[t].status /\ new.token = row[t].token
         /\ new.object_status \in {"deleting", "delete_unknown", "deleted",
                                   IF row[t].token THEN "present" ELSE "present_unclaimed"}
         /\ new.object_status = "deleted" => recovery[t].found = "absent"
<1> DEFINE outcome == DeletionOutcome(recovery[t].found, recovery[t].copy)
<1>1. /\ outcome[1] \in {"delete_unknown", "deleted",
                         IF row[t].token THEN "present" ELSE "present_unclaimed"}
      /\ outcome[1] = "deleted" => recovery[t].found = "absent"
  BY DEF DeletionOutcome
<1> HIDE DEF outcome
<1>2. \/ DeletionRecovered(t) = row[t]
      \/ DeletionRecovered(t) = [row[t] EXCEPT !.object_status = outcome[1],
                                              !.delete_error = outcome[2]]
  BY DEF DeletionRecovered, outcome
<1> QED
  BY <1>1, <1>2 DEF Row

\* The recovery pass writes a row.
LEMMA RecoveredTyped ==
  ASSUME TypeOK, NEW t \in Task, recovery[t].pc = "save"
  PROVE  Recovered(t) \in Row
<1>1. row[t] \in Row /\ recovery[t].copy \in Row
  BY DEF TypeOK, Recovery
<1>2. recovery[t].found \in {"absent", "sent", "replaced", "resized", "none",
                             "error", "config"}
  BY DEF TypeOK, Recovery, Content
<1>3. UploadRecovered(t) \in Row
  BY <1>1, <1>2 DEF UploadRecovered, Row, Status, ObjectStatus, ETag, SameSize
<1>4. DeletionRecovered(t) \in Row
  <2> DEFINE outcome == DeletionOutcome(recovery[t].found, recovery[t].copy)
  <2>1. outcome[1] \in ObjectStatus /\ outcome[2] \in DeleteError
    BY OutcomeIsLegal DEF ObjectStatus, DeleteError
  <2> HIDE DEF outcome
  <2>2. \/ DeletionRecovered(t) = row[t]
        \/ DeletionRecovered(t) = [row[t] EXCEPT !.object_status = outcome[1],
                                                !.delete_error = outcome[2]]
    BY DEF DeletionRecovered, outcome
  <2> QED
    BY <1>1, <2>1, <2>2 DEF Row
<1> QED
  BY <1>3, <1>4 DEF Recovered

-----------------------------------------------------------------------------
(* Steps that write no row.  The lemmas are stated for the effect of a     *)
(* step, so that one of them serves every action with that effect.         *)

\* The bucket changes, or the process starts to serve: no row and no handler does.
LEMMA StoreMoves ==
  ASSUME IInv, UNCHANGED <<row, aged, upload, deleter, recovery, told>>,
         store' \in [Task -> Content],
         late' \subseteq {"PUT", "DELETE"} \X Task,
         misled' \subseteq {"PUT", "DELETE"} \X Task,
         mode' \in {"booting", "recovering", "serving"}
  PROVE  IInv'
<1>1. TypeOK'
  BY DEF IInv, TypeOK
<1>2. RowsLegal' /\ TokensFit' /\ UploadsOwn' /\ AfterUpload'
      /\ CreatedIsKept' /\ DeletedIsFinal'
  BY DEF IInv, RowsLegal, TokensFit, HasOwner, UploadsOwn, AfterUpload,
         CreatedIsKept, DeletedIsFinal
<1>3. DeletionsOwn' /\ OneDeleter'
  BY DEF IInv, DeletionsOwn, OneDeleter, Claimed
<1>4. CopyIsCurrent' /\ PassOwns'
  BY DEF IInv, CopyIsCurrent, PassOwns, PendingTask, PendingDeletion
<1> QED
  BY <1>1, <1>2, <1>3, <1>4 DEF IInv

\* The handler of t goes on to another step before its write.
LEMMA UploadMoves ==
  ASSUME IInv, NEW t \in Task, NEW u \in Upload,
         upload[t].pc \in {"put", "stored", "head"},
         u.pc \in {"stored", "head", "save"},
         upload' = [upload EXCEPT ![t] = u],
         UNCHANGED <<row, aged, deleter, recovery, mode, told>>,
         store' \in [Task -> Content],
         late' \subseteq {"PUT", "DELETE"} \X Task,
         misled' \subseteq {"PUT", "DELETE"} \X Task
  PROVE  IInv'
<1>1. TypeOK'
  BY DEF IInv, TypeOK
<1>2. RowsLegal' /\ TokensFit' /\ DeletedIsFinal'
  BY DEF IInv, RowsLegal, TokensFit, HasOwner, DeletedIsFinal
<1>3. UploadsOwn' /\ AfterUpload' /\ CreatedIsKept'
  BY DEF IInv, TypeOK, UploadsOwn, AfterUpload, CreatedIsKept
<1>4. DeletionsOwn' /\ OneDeleter'
  BY DEF IInv, DeletionsOwn, OneDeleter, Claimed
<1>5. CopyIsCurrent' /\ PassOwns'
  BY DEF IInv, CopyIsCurrent, PassOwns, PendingTask, PendingDeletion
<1> QED
  BY <1>1, <1>2, <1>3, <1>4, <1>5 DEF IInv

\* A handler ends without a write: it failed to save, or it answers the client.
LEMMA UploadEnds ==
  ASSUME IInv, NEW t \in Task, UploadLive(t),
         upload' = [upload EXCEPT ![t] = [pc |-> "done", found |-> "none"]],
         UNCHANGED <<row, aged, store, late, misled, deleter, recovery, mode>>,
         \/ UNCHANGED told
         \/ upload[t].pc = "reply" /\ told' = told \union {<<"created", t>>}
  PROVE  IInv'
<1>1. TypeOK'
  BY DEF IInv, TypeOK, Upload
<1>2. RowsLegal' /\ TokensFit' /\ DeletedIsFinal'
  BY DEF IInv, RowsLegal, TokensFit, HasOwner, DeletedIsFinal
<1>3. UploadsOwn' /\ AfterUpload'
  BY DEF IInv, TypeOK, UploadsOwn, AfterUpload, UploadLive
<1>4. CreatedIsKept'
  BY DEF IInv, TypeOK, TokensFit, HasOwner, UploadsOwn, CreatedIsKept, UploadLive
<1>5. DeletionsOwn' /\ OneDeleter'
  BY DEF IInv, DeletionsOwn, OneDeleter, Claimed
<1>6. CopyIsCurrent' /\ PassOwns'
  BY DEF IInv, CopyIsCurrent, PassOwns, PendingTask, PendingDeletion
<1> QED
  BY <1>1, <1>2, <1>3, <1>4, <1>5, <1>6 DEF IInv

\* A deletion request reads its row, goes on, or ends without a write.
LEMMA DeletionMoves ==
  ASSUME IInv, NEW d \in Deleter, NEW x \in {NoDeletion} \union Deletion,
         deleter' = [deleter EXCEPT ![d] = x],
         x.pc # "idle" => upload[x.task].pc = "done",
         x.pc \notin {"idle", "claim"} =>
           /\ Claimed(d) /\ x.task = deleter[d].task /\ x.admin = deleter[d].admin
           /\ x.pc = "save" => x.to \in {Deletable(x.admin), "delete_unknown", "deleted"},
         UNCHANGED <<row, aged, upload, recovery, mode>>,
         store' \in [Task -> Content],
         late' \subseteq {"PUT", "DELETE"} \X Task,
         misled' \subseteq {"PUT", "DELETE"} \X Task,
         told' \subseteq {"created", "deleted"} \X Task,
         \A t \in Task : /\ <<"created", t>> \in told' => <<"created", t>> \in told
                         /\ <<"deleted", t>> \in told' =>
                               \/ <<"deleted", t>> \in told
                               \/ row[t].object_status = "deleted"
  PROVE  IInv'
<1>1. TypeOK'
  BY DEF IInv, TypeOK
<1>2. RowsLegal' /\ TokensFit' /\ UploadsOwn'
  BY DEF IInv, RowsLegal, TokensFit, HasOwner, UploadsOwn
<1>3. AfterUpload'
  <2>1. ASSUME NEW t \in Task, row[t].object_status = "deleted"
        PROVE  upload[t].pc = "done"
    BY <2>1 DEF IInv, TypeOK, Upload, UploadsOwn, RowsLegal, CheckConstraint, NoRow
  <2> QED
    BY <2>1 DEF IInv, TypeOK, AfterUpload
<1>4. CreatedIsKept' /\ DeletedIsFinal'
  BY DEF IInv, CreatedIsKept, DeletedIsFinal
<1>5. DeletionsOwn' /\ OneDeleter'
  BY DEF IInv, TypeOK, DeletionsOwn, OneDeleter, Claimed
<1>6. CopyIsCurrent' /\ PassOwns'
  BY DEF IInv, CopyIsCurrent, PassOwns, PendingTask, PendingDeletion
<1> QED
  BY <1>1, <1>2, <1>3, <1>4, <1>5, <1>6 DEF IInv

\* The pass drops tasks, or learns something about the ones it holds.
LEMMA PassMoves ==
  ASSUME IInv, recovery' \in [Task -> Recovery],
         \A t \in Task : recovery'[t].pc # "idle" =>
           recovery[t].pc # "idle" /\ recovery'[t].copy = recovery[t].copy,
         mode' \in {"booting", "recovering", "serving"},
         UNCHANGED <<row, aged, store, late, misled, upload, deleter, told>>
  PROVE  IInv'
<1>1. TypeOK'
  BY DEF IInv, TypeOK
<1>2. RowsLegal' /\ TokensFit' /\ UploadsOwn' /\ AfterUpload'
      /\ CreatedIsKept' /\ DeletedIsFinal'
  BY DEF IInv, RowsLegal, TokensFit, HasOwner, UploadsOwn, AfterUpload,
         CreatedIsKept, DeletedIsFinal
<1>3. DeletionsOwn' /\ OneDeleter'
  BY DEF IInv, DeletionsOwn, OneDeleter, Claimed
<1>4. CopyIsCurrent' /\ PassOwns'
  BY DEF IInv, CopyIsCurrent, PassOwns, PendingTask, PendingDeletion
<1> QED
  BY <1>1, <1>2, <1>3, <1>4 DEF IInv

-----------------------------------------------------------------------------
(* Steps that write a row. *)

\* The row of a new task belongs to its handler; nobody else knows it yet.
LEMMA BeginUploadStep ==
  ASSUME IInv, NEW t \in Task, BeginUpload(t)
  PROVE  IInv'
<1> USE DEF BeginUpload, SetUpload
<1>1. /\ row[t] = NoRow /\ t \notin aged
      /\ recovery[t].pc = "idle" /\ upload[t].pc = "idle"
  BY DEF IInv, UploadsOwn, PassOwns, PendingTask, PendingDeletion, NoRow
<1>2. TypeOK'
  <2>1. NewRow \in Row
    BY DEF NewRow, NoRow, Row, Status, ObjectStatus, ETag, DeleteError
  <2>2. \A pc \in {"put", "save"}, found \in {"none", "refused"} :
          [pc |-> pc, found |-> found] \in Upload
    BY DEF Upload
  <2> QED
    BY <2>1, <2>2 DEF IInv, TypeOK
<1>3. RowsLegal' /\ TokensFit'
  BY DEF IInv, TypeOK, RowsLegal, TokensFit, HasOwner, CheckConstraint, NewRow, NoRow
<1>4. UploadsOwn'
  <2>1. /\ row'[t].status = "uploading" /\ t \notin aged'
        /\ upload'[t].pc \in {"put", "save"}
    BY <1>1 DEF IInv, TypeOK, NewRow, NoRow
  <2>2. \A s \in Task \ {t} : row'[s] = row[s] /\ upload'[s] = upload[s]
    BY DEF IInv, TypeOK
  <2> QED
    BY <2>1, <2>2 DEF IInv, UploadsOwn
<1>5. AfterUpload'
  BY <1>1 DEF IInv, TypeOK, AfterUpload, NoDeletion, Deletion
<1>6. CreatedIsKept' /\ DeletedIsFinal'
  BY <1>1 DEF IInv, TypeOK, AfterUpload, CreatedIsKept, DeletedIsFinal
<1>7. DeletionsOwn' /\ OneDeleter'
  BY <1>1 DEF IInv, TypeOK, DeletionsOwn, OneDeleter, Claimed, NoRow
<1>8. CopyIsCurrent' /\ PassOwns'
  BY <1>1 DEF IInv, TypeOK, CopyIsCurrent, PassOwns, PendingTask, PendingDeletion
<1> QED
  BY <1>2, <1>3, <1>4, <1>5, <1>6, <1>7, <1>8 DEF IInv

\* A write by the owner of a row that is neither old nor held by the pass.
LEMMA OwnerWrites ==
  ASSUME IInv, NEW t \in Task, NEW new \in Row,
         recovery[t].pc = "idle",
         row' = [row EXCEPT ![t] = new],
         UNCHANGED recovery,
         aged' \subseteq aged, aged \ {t} \subseteq aged'
  PROVE  CopyIsCurrent' /\ PassOwns'
  BY DEF IInv, TypeOK, CopyIsCurrent, PassOwns, PendingTask, PendingDeletion

\* The handler still owns the row when it writes the outcome.
LEMMA SaveUploadStep ==
  ASSUME IInv, NEW t \in Task, SaveUpload(t)
  PROVE  IInv'
<1> DEFINE new == UploadResult(t)
<1>1. /\ row[t].status = "uploading" /\ row[t].object_status = "pending"
      /\ t \notin aged /\ ~row[t].token /\ upload[t].pc = "save"
  BY DEF IInv, RowsLegal, CheckConstraint, NoRow, TokensFit, UploadsOwn, SaveUpload
<1>2. recovery[t].pc = "idle" /\ \A what \in {"created", "deleted"} : <<what, t>> \notin told
  BY <1>1 DEF IInv, PassOwns, PendingTask, PendingDeletion, AfterUpload
<1>3. new \in Row
  BY <1>1, UploadResultTyped DEF IInv
<1>4. /\ CheckConstraint(new)
      /\ new.status \in {"failed", "unknown", "succeeded"}
      /\ new.status = "succeeded" => new.object_status = "present" /\ new.token
      /\ new.status # "succeeded" => ~new.token
      /\ upload[t].found \in SameSize => new.status = "succeeded"
      /\ new.object_status \in {"absent", "pending", "present"}
  <2>1. row[t] \in Row
    BY DEF IInv, TypeOK
  <2> QED
    BY <1>1, <2>1 DEF UploadResult, CheckConstraint, SameSize, Row
<1>5. row' = [row EXCEPT ![t] = new]
  BY <1>1, <1>4 DEF SaveUpload, UpdateTask, NoRow
<1>6. /\ upload' = [upload EXCEPT ![t] = upload'[t]]
      /\ upload'[t] \in Upload
      /\ upload'[t].pc \in {"reply", "done"}
      /\ upload'[t].pc = "reply" => new.status = "succeeded"
  BY <1>4 DEF IInv, TypeOK, Upload, SaveUpload, SetUpload
<1> HIDE DEF new
<1> USE DEF SaveUpload
<1>7. TypeOK'
  BY <1>3, <1>5, <1>6 DEF IInv, TypeOK
<1>8. RowsLegal' /\ TokensFit'
  BY <1>4, <1>5 DEF IInv, TypeOK, RowsLegal, TokensFit, HasOwner, CheckConstraint
<1>9. UploadsOwn'
  <2>1. row'[t] = new /\ \A s \in Task \ {t} : row'[s] = row[s] /\ upload'[s] = upload[s]
    BY <1>5, <1>6 DEF IInv, TypeOK
  <2> QED
    BY <1>4, <1>6, <2>1 DEF IInv, UploadsOwn
<1>10. AfterUpload'
  BY <1>1, <1>2, <1>6 DEF IInv, TypeOK, AfterUpload, NoDeletion, Deletion
<1>11. CreatedIsKept' /\ DeletedIsFinal'
  BY <1>2, <1>5, <1>6 DEF IInv, TypeOK, CreatedIsKept, DeletedIsFinal
<1>12. DeletionsOwn' /\ OneDeleter'
  BY <1>1, <1>5 DEF IInv, TypeOK, DeletionsOwn, OneDeleter, Claimed
<1>13. CopyIsCurrent' /\ PassOwns'
  BY <1>2, <1>3, <1>5, OwnerWrites
<1> QED
  BY <1>7, <1>8, <1>9, <1>10, <1>11, <1>12, <1>13 DEF IInv

\* A task whose object has been deletable was uploaded and answered for.
LEMMA UploadIsOver ==
  ASSUME IInv, NEW t \in Task,
         \/ row[t].object_status \in {"present_unclaimed", "deleting",
                                     "delete_unknown", "deleted", "absent"}
         \/ row[t].status = "unknown"
         \/ row[t].status = "uploading" /\ t \in aged
  PROVE  upload[t].pc = "done"
<1>1. upload[t].pc \in {"idle", "put", "stored", "head", "save", "reply", "done"}
  BY DEF IInv, TypeOK, Upload
<1>2. row[t] = NoRow \/ CheckConstraint(row[t])
  BY DEF IInv, RowsLegal
<1> QED
  BY <1>1, <1>2 DEF IInv, UploadsOwn, CheckConstraint, NoRow

\* The claim takes a row that no request and no pass holds.
LEMMA ClaimStep ==
  ASSUME IInv, NEW d \in Deleter, Claim(d)
  PROVE  IInv'
<1> DEFINE t == deleter[d].task
           new == [row[t] EXCEPT !.object_status = "deleting", !.delete_error = "none"]
<1>1. /\ deleter[d] \in Deletion /\ t \in Task /\ row[t] \in Row
      /\ deleter[d].pc = "claim"
      /\ row[t].status = "succeeded"
      /\ row[t].object_status = Deletable(deleter[d].admin)
      /\ deleter[d].admin = ~row[t].token
  <2>1. deleter[d] \in Deletion /\ t \in Task /\ row[t] \in Row
    BY DEF IInv, TypeOK, Claim, NoDeletion, Deletion
  <2>2. /\ row[t].object_status = "present" => row[t].token
        /\ deleter[d].admin \in BOOLEAN /\ row[t].token \in BOOLEAN
    BY <2>1 DEF IInv, TokensFit, HasOwner, Deletion, Row
  <2> QED
    BY <2>1, <2>2 DEF Claim, Claimable, Deletable
<1>2. /\ row' = [row EXCEPT ![t] = new]
      /\ new \in Row /\ new.status = "succeeded" /\ new.object_status = "deleting"
      /\ new.token = row[t].token
  BY <1>1 DEF IInv, TypeOK, Claim, Row, ObjectStatus, DeleteError
<1>3. aged' = aged \ {t}
  BY DEF Claim
<1>4. /\ deleter' = [deleter EXCEPT ![d] = deleter'[d]]
      /\ deleter'[d] \in Deletion
      /\ deleter'[d].pc = "head" /\ deleter'[d].task = t
      /\ deleter'[d].admin = deleter[d].admin
  BY <1>1 DEF IInv, TypeOK, Claim, Goto, Deletion
<1>5. recovery[t].pc = "idle"
  BY <1>1 DEF IInv, PassOwns, PendingTask, PendingDeletion, Deletable
<1>6. \A e \in Deleter : Claimed(e) => deleter[e].task # t
  BY <1>1 DEF IInv, DeletionsOwn, Deletable
<1>7. /\ row'[t] = new /\ \A s \in Task \ {t} : row'[s] = row[s]
      /\ \A e \in Deleter \ {d} : deleter'[e] = deleter[e]
  BY <1>1, <1>2, <1>4 DEF IInv, TypeOK
<1> HIDE DEF new
<1>8. TypeOK'
  BY <1>1, <1>2, <1>3, <1>4 DEF IInv, TypeOK, Claim
<1>9. RowsLegal' /\ TokensFit'
  BY <1>1, <1>2, <1>7 DEF IInv, RowsLegal, TokensFit, HasOwner, CheckConstraint
<1>10. UploadsOwn'
  <2>1. upload[t].pc = "done"
    BY <1>1 DEF IInv, AfterUpload
  <2> QED
    BY <1>3, <1>7, <2>1 DEF IInv, UploadsOwn, Claim
<1>11. AfterUpload'
  BY <1>1, <1>4, <1>7 DEF IInv, AfterUpload, Claim
<1>12. CreatedIsKept' /\ DeletedIsFinal'
  <2>1. <<"deleted", t>> \notin told
    BY <1>1 DEF IInv, DeletedIsFinal, Deletable, NoRow
  <2>2. <<"created", t>> \in told => row[t].token
    BY <1>1 DEF IInv, CreatedIsKept, NoRow
  <2>3. CreatedIsKept'
    <3> SUFFICES ASSUME NEW s \in Task, <<"created", s>> \in told, s # t
                 PROVE  \/ row[s].status = "succeeded" /\ row[s].token
                           /\ row[s].object_status # "present_unclaimed"
                        \/ row[s] = NoRow /\ upload[s].pc = "done"
      BY <1>2, <1>7, <2>2 DEF CreatedIsKept, Claim
    <3> QED
      BY DEF IInv, CreatedIsKept
  <2>4. DeletedIsFinal'
    BY <1>7, <2>1 DEF IInv, DeletedIsFinal, Claim
  <2> QED
    BY <2>3, <2>4
<1>13. DeletionsOwn' /\ OneDeleter'
  BY <1>1, <1>2, <1>3, <1>4, <1>6, <1>7 DEF IInv, DeletionsOwn, OneDeleter, Claimed, TypeOK
<1>14. CopyIsCurrent' /\ PassOwns'
  BY <1>1, <1>2, <1>3, <1>5, OwnerWrites DEF Claim
<1> QED
  BY <1>8, <1>9, <1>10, <1>11, <1>12, <1>13, <1>14 DEF IInv

\* A deletion request writes an outcome the row's other columns agree with.
LEMMA DeletionWriteIsLegal ==
  ASSUME IInv, NEW d \in Deleter, deleter[d].pc = "save",
         NEW t, t = deleter[d].task,
         NEW new, new = DeletionResult(d)
  PROVE  /\ deleter[d] \in Deletion /\ t \in Task /\ row[t] \in Row /\ new \in Row
         /\ row[t].status = "succeeded" /\ row[t].object_status = "deleting"
         /\ t \notin aged
         /\ deleter[d].admin = ~row[t].token
         /\ deleter[d].to \in {Deletable(deleter[d].admin), "delete_unknown", "deleted"}
         /\ new.status = "succeeded" /\ new.token = row[t].token
         /\ new.object_status = deleter[d].to
         /\ CheckConstraint(new)
<1>1. /\ deleter[d] \in Deletion /\ t \in Task /\ row[t] \in Row /\ new \in Row
  BY DeletionResultTyped DEF IInv, TypeOK, Deletion
<1>2. /\ row[t].status = "succeeded" /\ row[t].object_status = "deleting"
      /\ t \notin aged
      /\ deleter[d].admin = ~row[t].token
      /\ deleter[d].to \in {Deletable(deleter[d].admin), "delete_unknown", "deleted"}
  BY <1>1 DEF IInv, DeletionsOwn, Claimed, RowsLegal, CheckConstraint, NoRow
<1>3. /\ new.status = "succeeded" /\ new.token = row[t].token
      /\ new.object_status = deleter[d].to
  BY <1>1, <1>2 DEF DeletionResult, Row
<1>4. CheckConstraint(new)
  BY <1>2, <1>3 DEF CheckConstraint, Deletable
<1> QED
  BY <1>1, <1>2, <1>3, <1>4

\* The request still owns the row it claimed when it writes the outcome.
LEMMA SaveDeletionStep ==
  ASSUME IInv, NEW d \in Deleter, SaveDeletion(d)
  PROVE  IInv'
<1> DEFINE t == deleter[d].task
           new == DeletionResult(d)
<1>1. /\ deleter[d] \in Deletion /\ t \in Task /\ row[t] \in Row /\ new \in Row
      /\ deleter[d].pc = "save"
  BY DeletionWriteIsLegal DEF SaveDeletion
<1>2. /\ row[t].status = "succeeded" /\ row[t].object_status = "deleting"
      /\ t \notin aged
      /\ deleter[d].admin = ~row[t].token
      /\ deleter[d].to \in {Deletable(deleter[d].admin), "delete_unknown", "deleted"}
  BY DeletionWriteIsLegal DEF SaveDeletion
<1>3. /\ new.status = "succeeded" /\ new.token = row[t].token
      /\ new.object_status = deleter[d].to
  BY DeletionWriteIsLegal DEF SaveDeletion
<1>4. CheckConstraint(new)
  BY DeletionWriteIsLegal DEF SaveDeletion
<1>5. row' = [row EXCEPT ![t] = new]
  BY <1>2, <1>4 DEF SaveDeletion, UpdateTask, NoRow
<1>6. deleter' = [deleter EXCEPT ![d] = NoDeletion]
  BY DEF SaveDeletion, EndDeletion
<1>7. /\ row'[t] = new /\ \A s \in Task \ {t} : row'[s] = row[s]
      /\ deleter'[d] = NoDeletion
      /\ \A e \in Deleter \ {d} : deleter'[e] = deleter[e]
  BY <1>1, <1>5, <1>6 DEF IInv, TypeOK
<1>8. \A e \in Deleter \ {d} : Claimed(e) => deleter[e].task # t
  BY <1>1 DEF IInv, OneDeleter, Claimed
<1>9. recovery[t].pc = "idle" /\ upload[t].pc = "done"
  <2>1. recovery[t].pc = "idle"
    BY <1>1, <1>2 DEF IInv, PassOwns, PendingTask, PendingDeletion
  <2>2. upload[t].pc = "done"
    BY <1>1, <1>2, UploadIsOver
  <2> QED
    BY <2>1, <2>2
<1>10. \/ told' = told
       \/ deleter[d].to = "deleted" /\ told' = told \union {<<"deleted", t>>}
  BY DEF SaveDeletion
<1>11. told' \subseteq {"created", "deleted"} \X Task
  BY <1>1, <1>10 DEF IInv, TypeOK
<1> HIDE DEF new
<1>12. TypeOK'
  BY <1>1, <1>5, <1>6, <1>11 DEF IInv, TypeOK, SaveDeletion
<1>13. RowsLegal' /\ TokensFit'
  <2>1. /\ new.object_status = "present" => new.token
        /\ new.object_status = "present_unclaimed" => ~new.token
    BY <1>1, <1>2, <1>3 DEF Deletable, Row
  <2>2. RowsLegal'
    BY <1>4, <1>7 DEF IInv, RowsLegal, CheckConstraint
  <2>3. TokensFit'
    BY <1>3, <1>7, <2>1 DEF IInv, TokensFit, HasOwner
  <2> QED
    BY <2>2, <2>3
<1>14. UploadsOwn'
  BY <1>7, <1>9 DEF IInv, UploadsOwn, SaveDeletion
<1>15. AfterUpload'
  BY <1>7, <1>9, <1>10 DEF IInv, AfterUpload, SaveDeletion, NoDeletion
<1>16. CreatedIsKept' /\ DeletedIsFinal'
  <2>1. <<"deleted", t>> \notin told
    BY <1>1, <1>2 DEF IInv, DeletedIsFinal, NoRow
  <2>2. <<"created", t>> \in told => row[t].token
    BY <1>1, <1>2 DEF IInv, CreatedIsKept, NoRow
  <2>3. \A s \in Task : /\ <<"created", s>> \in told' => <<"created", s>> \in told
                        /\ s # t /\ <<"deleted", s>> \in told' => <<"deleted", s>> \in told
    BY <1>10
  <2>4. <<"deleted", t>> \in told' => new.object_status = "deleted"
    BY <1>3, <1>10, <2>1
  <2>5. CreatedIsKept'
    <3>1. new.token => new.object_status # "present_unclaimed"
      BY <1>2, <1>3 DEF Deletable
    <3> QED
      BY <1>3, <1>7, <2>2, <2>3, <3>1 DEF IInv, CreatedIsKept, SaveDeletion
  <2>6. DeletedIsFinal'
    BY <1>7, <2>3, <2>4 DEF IInv, DeletedIsFinal
  <2> QED
    BY <2>5, <2>6
<1>17. DeletionsOwn' /\ OneDeleter'
  <2> SUFFICES ASSUME NEW e \in Deleter \ {d}, Claimed(e)
               PROVE  /\ deleter'[e] = deleter[e] /\ deleter[e].task # t
                      /\ row'[deleter[e].task] = row[deleter[e].task]
    BY <1>7 DEF IInv, DeletionsOwn, OneDeleter, Claimed, SaveDeletion, NoDeletion
  <2>1. deleter[e].task \in Task
    BY DEF IInv, TypeOK, Claimed, NoDeletion, Deletion
  <2> QED
    BY <1>7, <1>8, <2>1
<1>18. CopyIsCurrent' /\ PassOwns'
  BY <1>1, <1>5, <1>9, OwnerWrites DEF SaveDeletion
<1> QED
  BY <1>12, <1>13, <1>14, <1>15, <1>16, <1>17, <1>18 DEF IInv

\* Only the pass itself writes the rows it holds: nobody who is alive owns them.
LEMMA PassRowsAreFree ==
  ASSUME IInv, NEW t \in Task, PendingTask(t) \/ PendingDeletion(t)
  PROVE  /\ upload[t].pc = "done"
         /\ \A d \in Deleter : Claimed(d) => deleter[d].task # t
         /\ <<"deleted", t>> \notin told
         /\ <<"created", t>> \in told => row[t].status = "succeeded" /\ row[t].token
<1>1. /\ row[t] # NoRow
      /\ row[t].object_status \notin {"present", "present_unclaimed", "deleted"}
  BY DEF IInv, RowsLegal, CheckConstraint, PendingTask, PendingDeletion, NoRow
<1>2. upload[t].pc = "done"
  <2>1. \/ row[t].object_status \in {"deleting", "delete_unknown"}
        \/ row[t].status = "unknown"
        \/ row[t].status = "uploading" /\ t \in aged
    BY DEF PendingTask, PendingDeletion
  <2> QED
    BY <2>1, UploadIsOver
<1>3. \A d \in Deleter : Claimed(d) => deleter[d].task # t
  BY <1>1 DEF IInv, DeletionsOwn, RowsLegal, CheckConstraint, PendingTask, PendingDeletion
<1>4. /\ <<"deleted", t>> \notin told
      /\ <<"created", t>> \in told => row[t].status = "succeeded" /\ row[t].token
  BY <1>1 DEF IInv, CreatedIsKept, DeletedIsFinal
<1> QED
  BY <1>2, <1>3, <1>4

\* The pass writes a row whose columns agree, and which keeps its owner.
LEMMA RecoveredWriteIsLegal ==
  ASSUME IInv, NEW t \in Task, recovery[t].pc = "save",
         NEW new, new = Recovered(t)
  PROVE  /\ row[t] \in Row /\ new \in Row
         /\ PendingTask(t) \/ PendingDeletion(t)
         /\ row[t] # NoRow
         /\ CheckConstraint(new)
         /\ new.object_status = "present" => new.token
         /\ new.object_status = "present_unclaimed" => ~new.token
         /\ new.status # "succeeded" => ~new.token
         /\ row[t].status = "succeeded" => new.status = "succeeded" /\ new.token = row[t].token
<1>1. /\ row[t] \in Row /\ row[t] = recovery[t].copy
      /\ new \in Row
      /\ PendingTask(t) \/ PendingDeletion(t)
  BY RecoveredTyped DEF IInv, TypeOK, CopyIsCurrent, PassOwns
<1>2. row[t] # NoRow /\ (row[t].status # "succeeded" => ~row[t].token)
  BY <1>1 DEF IInv, TokensFit, PendingTask, PendingDeletion, NoRow
<1>3. row[t].status \in {"uploading", "unknown"} \/ row[t].status = "succeeded"
  BY <1>1 DEF IInv, RowsLegal, CheckConstraint, PendingTask, PendingDeletion, NoRow
<1>4. /\ CheckConstraint(new)
      /\ new.object_status = "present" => new.token
      /\ new.object_status = "present_unclaimed" => ~new.token
      /\ new.status # "succeeded" => ~new.token
      /\ row[t].status = "succeeded" => new.status = "succeeded" /\ new.token = row[t].token
  <2>1. CASE row[t].status \in {"uploading", "unknown"}
    <3>1. new = UploadRecovered(t) /\ row[t].object_status = "pending"
      BY <1>1, <1>2, <2>1 DEF Recovered, IInv, RowsLegal, CheckConstraint
    <3>2. ~row[t].token /\ ~recovery[t].copy.token
      BY <1>1, <1>2, <2>1
    <3> QED
      BY <1>1, <2>1, <3>1, <3>2 DEF UploadRecovered, CheckConstraint, Row, SameSize
  <2>2. CASE row[t].status = "succeeded"
    <3>1. new = DeletionRecovered(t) /\ recovery[t].copy.token = row[t].token
      BY <1>1, <2>2 DEF Recovered
    <3>2. row[t].object_status \in {"deleting", "delete_unknown"}
      BY <1>1, <2>2 DEF PendingTask, PendingDeletion
    <3> QED
      BY <1>1, <2>2, <3>1, <3>2, DeletionRecoveredFits DEF CheckConstraint, Row
  <2> QED
    BY <1>3, <2>1, <2>2
<1> QED
  BY <1>1, <1>2, <1>4

\* The pass writes a row that nobody else is about to write.
LEMMA RecoverSaveStep ==
  ASSUME IInv, NEW t \in Task, RecoverSave(t)
  PROVE  IInv'
<1> DEFINE new == Recovered(t)
<1>1. /\ row[t] \in Row /\ new \in Row /\ recovery[t].pc = "save"
      /\ PendingTask(t) \/ PendingDeletion(t)
  BY RecoveredWriteIsLegal DEF RecoverSave
<1>2. /\ upload[t].pc = "done"
      /\ \A d \in Deleter : Claimed(d) => deleter[d].task # t
      /\ <<"deleted", t>> \notin told
      /\ <<"created", t>> \in told => row[t].status = "succeeded" /\ row[t].token
  BY <1>1, PassRowsAreFree
<1>3. row[t] # NoRow
  BY RecoveredWriteIsLegal DEF RecoverSave
<1>4. /\ CheckConstraint(new)
      /\ new.object_status = "present" => new.token
      /\ new.object_status = "present_unclaimed" => ~new.token
      /\ new.status # "succeeded" => ~new.token
      /\ row[t].status = "succeeded" => new.status = "succeeded" /\ new.token = row[t].token
  BY RecoveredWriteIsLegal DEF RecoverSave
<1>5. row' = [row EXCEPT ![t] = new]
  BY <1>3, <1>4 DEF RecoverSave, UpdateTask
<1> HIDE DEF new
<1>6. row'[t] = new /\ \A s \in Task \ {t} : row'[s] = row[s]
  BY <1>5 DEF IInv, TypeOK
<1>7. /\ recovery' = [recovery EXCEPT ![t] = NotRecovering]
      /\ recovery'[t].pc = "idle"
      /\ \A s \in Task \ {t} : recovery'[s] = recovery[s]
  BY DEF IInv, TypeOK, RecoverSave, NotRecovering
<1> USE DEF RecoverSave
<1>8. TypeOK'
  <2>1. NotRecovering \in Recovery
    BY DEF NotRecovering, Recovery, Row, NoRow, Status, ObjectStatus, ETag, DeleteError
  <2> QED
    BY <1>1, <1>5, <1>7, <2>1 DEF IInv, TypeOK
<1>9. RowsLegal'
  BY <1>4, <1>6 DEF IInv, RowsLegal, CheckConstraint
<1>10. TokensFit'
  BY <1>4, <1>6 DEF IInv, TokensFit, HasOwner
<1>11. UploadsOwn' /\ AfterUpload'
  BY <1>2, <1>6 DEF IInv, UploadsOwn, AfterUpload
<1>12. DeletionsOwn' /\ OneDeleter'
  <2> SUFFICES ASSUME NEW d \in Deleter, Claimed(d)
               PROVE  row'[deleter[d].task] = row[deleter[d].task]
    BY DEF IInv, DeletionsOwn, OneDeleter, Claimed
  <2>1. deleter[d].task \in Task
    BY DEF IInv, TypeOK, Claimed, NoDeletion, Deletion
  <2> QED
    BY <1>2, <1>6, <2>1
<1>13. CreatedIsKept'
  BY <1>2, <1>4, <1>6 DEF IInv, CreatedIsKept
<1>14. DeletedIsFinal'
  BY <1>2, <1>6 DEF IInv, DeletedIsFinal
<1>15. CopyIsCurrent' /\ PassOwns'
  BY <1>6, <1>7 DEF IInv, CopyIsCurrent, PassOwns, PendingTask, PendingDeletion
<1> QED
  BY <1>8, <1>9, <1>10, <1>11, <1>12, <1>13, <1>14, <1>15 DEF IInv

\* A finished task is forgotten; nobody who is alive knows it.
LEMMA PurgeStep ==
  ASSUME IInv, NEW t \in Task, Purge(t)
  PROVE  IInv'
<1> USE DEF Purge
<1>1. /\ upload[t].pc = "done" /\ recovery[t].pc = "idle"
      /\ \A d \in Deleter : Claimed(d) => deleter[d].task # t
  <2>1. upload[t].pc = "done"
    BY UploadIsOver
  <2> QED
    BY <2>1 DEF Claimed
<1>2. NoRow \in Row
  BY DEF Row, NoRow, Status, ObjectStatus, ETag, DeleteError
<1>3. row'[t] = NoRow /\ \A s \in Task \ {t} : row'[s] = row[s]
  BY DEF IInv, TypeOK
<1>4. TypeOK'
  BY <1>2 DEF IInv, TypeOK
<1>5. RowsLegal' /\ TokensFit' /\ DeletedIsFinal'
  BY <1>3 DEF IInv, RowsLegal, TokensFit, HasOwner, CheckConstraint, DeletedIsFinal, NoRow
<1>6. UploadsOwn' /\ AfterUpload' /\ CreatedIsKept'
  BY <1>1, <1>3 DEF IInv, UploadsOwn, AfterUpload, CreatedIsKept
<1>7. DeletionsOwn' /\ OneDeleter'
  <2> SUFFICES ASSUME NEW d \in Deleter, Claimed(d)
               PROVE  row'[deleter[d].task] = row[deleter[d].task]
    BY DEF IInv, DeletionsOwn, OneDeleter, Claimed
  <2>1. deleter[d].task \in Task
    BY DEF IInv, TypeOK, Claimed, NoDeletion, Deletion
  <2> QED
    BY <1>1, <1>3, <2>1
<1>8. CopyIsCurrent' /\ PassOwns'
  BY <1>1, <1>3 DEF IInv, CopyIsCurrent, PassOwns, PendingTask, PendingDeletion
<1> QED
  BY <1>4, <1>5, <1>6, <1>7, <1>8 DEF IInv

-----------------------------------------------------------------------------
(* Steps of the environment, and the start of a pass. *)

\* Where requests end in time, only a row that nobody works on turns stale.
LEMMA AgeStep ==
  ASSUME IInv, SlowRequests = FALSE, NEW t \in Task, Age(t)
  PROVE  IInv'
<1> USE DEF Age
<1>1. /\ upload[t].pc = "done"
      /\ \A d \in Deleter : Claimed(d) => deleter[d].task # t
  BY DEF IInv, TypeOK, Upload, UploadsOwn, Handled, UploadLive, NoRow
<1>2. aged' \subseteq Task /\ aged \subseteq aged' /\ aged' \subseteq aged \union {t}
  BY DEF IInv, TypeOK
<1>3. TypeOK'
  BY <1>2 DEF IInv, TypeOK
<1>4. RowsLegal' /\ TokensFit' /\ AfterUpload' /\ CreatedIsKept' /\ DeletedIsFinal'
  BY DEF IInv, RowsLegal, TokensFit, HasOwner, AfterUpload, CreatedIsKept, DeletedIsFinal
<1>5. UploadsOwn'
  BY <1>1, <1>2 DEF IInv, UploadsOwn
<1>6. DeletionsOwn' /\ OneDeleter'
  BY <1>1, <1>2 DEF IInv, DeletionsOwn, OneDeleter, Claimed
<1>7. CopyIsCurrent' /\ PassOwns'
  BY <1>2 DEF IInv, CopyIsCurrent, PassOwns, PendingTask, PendingDeletion
<1> QED
  BY <1>3, <1>4, <1>5, <1>6, <1>7 DEF IInv

\* A client whose object is gone is told so again.
LEMMA AnswerDeletedStep ==
  ASSUME IInv, NEW t \in Task, AnswerDeleted(t)
  PROVE  IInv'
<1> USE DEF AnswerDeleted
<1>1. upload[t].pc = "done"
  BY UploadIsOver
<1>2. told' \subseteq {"created", "deleted"} \X Task
  BY DEF IInv, TypeOK
<1>3. TypeOK'
  BY <1>2 DEF IInv, TypeOK
<1>4. RowsLegal' /\ TokensFit' /\ UploadsOwn'
  BY DEF IInv, RowsLegal, TokensFit, HasOwner, UploadsOwn
<1>5. AfterUpload'
  BY <1>1 DEF IInv, AfterUpload
<1>6. CreatedIsKept' /\ DeletedIsFinal'
  BY DEF IInv, CreatedIsKept, DeletedIsFinal
<1>7. DeletionsOwn' /\ OneDeleter'
  BY DEF IInv, DeletionsOwn, OneDeleter, Claimed
<1>8. CopyIsCurrent' /\ PassOwns'
  BY DEF IInv, CopyIsCurrent, PassOwns, PendingTask, PendingDeletion
<1> QED
  BY <1>3, <1>4, <1>5, <1>6, <1>7, <1>8 DEF IInv

\* A crash leaves rows without owners, for the recovery pass to find.
LEMMA CrashStep ==
  ASSUME IInv, Crash
  PROVE  IInv'
<1> USE DEF Crash
<1>1. \A t \in Task : /\ upload'[t].pc \in {"idle", "done"}
                      /\ upload'[t].pc = "idle" => upload[t].pc = "idle"
                      /\ upload[t].pc = "done" => upload'[t].pc = "done"
  BY DEF IInv, TypeOK, UploadLive
<1>2. \A d \in Deleter : deleter'[d].pc = "idle"
  BY DEF NoDeletion
<1>3. \A t \in Task : recovery'[t].pc = "idle"
  BY DEF NotRecovering
<1>4. TypeOK'
  <2>1. NotRecovering \in Recovery
    BY DEF NotRecovering, Recovery, Row, NoRow, Status, ObjectStatus, ETag, DeleteError
  <2>2. upload' \in [Task -> Upload]
    BY DEF IInv, TypeOK, Upload, UploadLive
  <2>3. late' \subseteq {"PUT", "DELETE"} \X Task
    <3>1. \A d \in Deleter : deleter[d].pc = "delete" => deleter[d].task \in Task
      BY DEF IInv, TypeOK, NoDeletion, Deletion
    <3> QED
      BY <3>1 DEF IInv, TypeOK
  <2> QED
    BY <2>1, <2>2, <2>3 DEF IInv, TypeOK
<1>5. RowsLegal' /\ TokensFit' /\ DeletedIsFinal'
  BY DEF IInv, RowsLegal, TokensFit, HasOwner, DeletedIsFinal
<1>6. UploadsOwn' /\ AfterUpload' /\ CreatedIsKept'
  BY <1>1, <1>2 DEF IInv, UploadsOwn, AfterUpload, CreatedIsKept
<1>7. DeletionsOwn' /\ OneDeleter'
  BY <1>2 DEF DeletionsOwn, OneDeleter, Claimed
<1>8. CopyIsCurrent' /\ PassOwns'
  BY <1>3 DEF CopyIsCurrent, PassOwns
<1> QED
  BY <1>4, <1>5, <1>6, <1>7, <1>8 DEF IInv

\* A pass begins with rows nobody owns, copied as they are.
LEMMA StartPassStep ==
  ASSUME IInv, StartPass
  PROVE  IInv'
<1> USE DEF StartPass
<1>1. PICK S \in SUBSET Task :
        /\ Batch(S)
        /\ recovery' = [t \in Task |->
             IF t \in S THEN [pc |-> "queued", copy |-> row[t], found |-> "none"]
             ELSE NotRecovering]
  OBVIOUS
<1>2. \A t \in Task : recovery'[t].pc # "idle" =>
        /\ recovery'[t].copy = row[t]
        /\ PendingTask(t) \/ PendingDeletion(t)
  BY <1>1 DEF Batch, NotRecovering
<1>3. TypeOK'
  <2>1. NotRecovering \in Recovery
    BY DEF NotRecovering, Recovery, Row, NoRow, Status, ObjectStatus, ETag, DeleteError
  <2>2. \A t \in Task : [pc |-> "queued", copy |-> row[t], found |-> "none"] \in Recovery
    BY DEF IInv, TypeOK, Recovery
  <2>3. recovery' \in [Task -> Recovery]
    BY <1>1, <2>1, <2>2
  <2> QED
    BY <2>3 DEF IInv, TypeOK
<1>4. RowsLegal' /\ TokensFit' /\ UploadsOwn' /\ AfterUpload'
      /\ CreatedIsKept' /\ DeletedIsFinal'
  BY DEF IInv, RowsLegal, TokensFit, HasOwner, UploadsOwn, AfterUpload,
         CreatedIsKept, DeletedIsFinal
<1>5. DeletionsOwn' /\ OneDeleter'
  BY DEF IInv, DeletionsOwn, OneDeleter, Claimed
<1>6. CopyIsCurrent' /\ PassOwns'
  BY <1>2 DEF CopyIsCurrent, PassOwns, PendingTask, PendingDeletion
<1> QED
  BY <1>3, <1>4, <1>5, <1>6 DEF IInv

-----------------------------------------------------------------------------
(* Every action preserves the invariant. *)

\* Every step of an upload handler keeps the invariant.
LEMMA UploadStepIInv ==
  ASSUME IInv, NEW t \in Task, UploadStep(t)
  PROVE  IInv'
<1>1. CASE BeginUpload(t)
  BY <1>1, BeginUploadStep
<1>2. CASE SaveUpload(t)
  BY <1>2, SaveUploadStep
<1>3. CASE PutApplied(t) \/ PutConfirmed(t) \/ PutRefused(t) \/ PutUncertain(t) \/ HeadUpload(t)
  <2>1. PICK u \in Upload : /\ u.pc \in {"stored", "head", "save"}
                            /\ upload' = [upload EXCEPT ![t] = u]
    <3>1. \A found \in {"none", "refused", "uncertain", "sent", "replaced"} :
            /\ [pc |-> "stored", found |-> found] \in Upload
            /\ [pc |-> "head", found |-> found] \in Upload
            /\ [pc |-> "save", found |-> found] \in Upload
      BY DEF Upload, SameSize
    <3> QED
      BY <1>3, <3>1 DEF PutApplied, PutConfirmed, PutRefused, PutUncertain, HeadUpload,
                        SetUpload, SameSize
  <2>2. /\ upload[t].pc \in {"put", "stored", "head"}
        /\ UNCHANGED <<row, aged, deleter, recovery, mode, told>>
        /\ store' \in [Task -> Content]
        /\ late' \subseteq {"PUT", "DELETE"} \X Task
        /\ misled' \subseteq {"PUT", "DELETE"} \X Task
    BY <1>3 DEF PutApplied, PutConfirmed, PutRefused, PutUncertain, HeadUpload,
                IInv, TypeOK, Content
  <2> QED
    BY <2>1, <2>2, UploadMoves
<1>4. CASE SaveUploadFails(t) \/ ReplyCreated(t)
  BY <1>4, UploadEnds DEF SaveUploadFails, ReplyCreated, SetUpload, UploadLive
<1> QED
  BY <1>1, <1>2, <1>3, <1>4 DEF UploadStep

\* Every step of a deletion request keeps the invariant.
LEMMA DeletionStepIInv ==
  ASSUME IInv, NEW d \in Deleter, DeletionStep(d)
  PROVE  IInv'
<1>1. CASE Claim(d)
  BY <1>1, ClaimStep
<1>2. CASE SaveDeletion(d)
  BY <1>2, SaveDeletionStep
<1>3. ASSUME NEW t \in Task, NEW admin \in BOOLEAN, ReadTask(d, t, admin)
      PROVE  IInv'
  <2> DEFINE x == [pc |-> "claim", task |-> t, admin |-> admin, etag |-> row[t].etag,
                   to |-> "none", error |-> "none"]
  <2>1. x \in Deletion /\ x.pc = "claim" /\ x.task = t
    BY DEF IInv, TypeOK, Row, Deletion, ObjectStatus, DeleteError
  <2>2. upload[t].pc = "done"
    <3>1. CASE admin
      BY <1>3, <3>1, UploadIsOver DEF ReadTask, Deletable
    <3>2. CASE ~admin
      BY <1>3, <3>2 DEF ReadTask, Authorised, IInv, AfterUpload
    <3> QED
      BY <3>1, <3>2
  <2>3. /\ deleter' = [deleter EXCEPT ![d] = x]
        /\ UNCHANGED <<row, aged, store, late, misled, upload, recovery, mode, told>>
    BY <1>3 DEF ReadTask
  <2> HIDE DEF x
  <2>4. /\ store' \in [Task -> Content]
        /\ late' \subseteq {"PUT", "DELETE"} \X Task
        /\ misled' \subseteq {"PUT", "DELETE"} \X Task
        /\ told' \subseteq {"created", "deleted"} \X Task
    BY <2>3 DEF IInv, TypeOK
  <2> QED
    BY <2>1, <2>2, <2>3, <2>4, DeletionMoves
<1>4. CASE ClaimLost(d) \/ SaveDeletionFails(d)
  <2>1. deleter[d] \in Deletion
    BY <1>4 DEF ClaimLost, SaveDeletionFails, IInv, TypeOK, NoDeletion
  <2>2. /\ deleter' = [deleter EXCEPT ![d] = NoDeletion] /\ NoDeletion.pc = "idle"
        /\ UNCHANGED <<row, aged, store, late, misled, upload, recovery, mode>>
        /\ \/ told' = told
           \/ /\ told' = told \union {<<"deleted", deleter[d].task>>}
              /\ row[deleter[d].task].object_status = "deleted"
    BY <1>4 DEF ClaimLost, SaveDeletionFails, EndDeletion, NoDeletion
  <2>3. /\ store' \in [Task -> Content]
        /\ late' \subseteq {"PUT", "DELETE"} \X Task
        /\ misled' \subseteq {"PUT", "DELETE"} \X Task
        /\ told' \subseteq {"created", "deleted"} \X Task
        /\ \A t \in Task : /\ <<"created", t>> \in told' => <<"created", t>> \in told
                           /\ <<"deleted", t>> \in told' =>
                                 \/ <<"deleted", t>> \in told
                                 \/ row[t].object_status = "deleted"
    BY <2>1, <2>2 DEF IInv, TypeOK, Deletion
  <2> QED
    BY <2>2, <2>3, DeletionMoves
<1>5. CASE \/ HeadBefore(d) \/ DeleteApplied(d) \/ DeleteConfirmed(d) \/ DeleteRefused(d)
           \/ DeleteUncertain(d) \/ HeadAfter(d)
  <2>1. deleter[d] \in Deletion /\ Claimed(d)
    BY <1>5 DEF HeadBefore, DeleteApplied, DeleteConfirmed, DeleteRefused, DeleteUncertain,
                HeadAfter, IInv, TypeOK, NoDeletion, Claimed
  <2>2. upload[deleter[d].task].pc = "done"
    BY <2>1 DEF IInv, AfterUpload, Claimed
  <2>3. /\ UNCHANGED <<row, aged, upload, recovery, mode, told>>
        /\ store' \in [Task -> Content]
        /\ late' \subseteq {"PUT", "DELETE"} \X Task
        /\ misled' \subseteq {"PUT", "DELETE"} \X Task
        /\ told' \subseteq {"created", "deleted"} \X Task
    BY <1>5, <2>1 DEF HeadBefore, DeleteApplied, DeleteConfirmed, DeleteRefused,
                DeleteUncertain, HeadAfter, IInv, TypeOK, Content, Deletion
  <2>4. PICK x \in Deletion :
          /\ deleter' = [deleter EXCEPT ![d] = x]
          /\ x.task = deleter[d].task /\ x.admin = deleter[d].admin
          /\ x.pc = "save" => x.to \in {Deletable(x.admin), "delete_unknown", "deleted"}
    <3>1. CASE \E pc \in {"delete", "applied", "confirm"} : Goto(d, pc)
      <4>1. PICK pc \in {"delete", "applied", "confirm"} : Goto(d, pc)
        BY <3>1
      <4> DEFINE x == [deleter[d] EXCEPT !.pc = pc]
      <4>2. /\ x \in Deletion /\ x.task = deleter[d].task /\ x.admin = deleter[d].admin
            /\ x.pc # "save"
        BY <2>1 DEF Deletion
      <4>3. deleter' = [deleter EXCEPT ![d] = x]
        BY <4>1 DEF Goto, IInv, TypeOK
      <4> QED
        BY <4>2, <4>3
    <3>2. CASE \E to \in {Deletable(deleter[d].admin), "delete_unknown", "deleted"},
                  error \in DeleteError : Conclude(d, to, error)
      <4>1. PICK to \in {Deletable(deleter[d].admin), "delete_unknown", "deleted"},
                 error \in DeleteError : Conclude(d, to, error)
        BY <3>2
      <4> DEFINE x == [deleter[d] EXCEPT !.pc = "save", !.to = to, !.error = error]
      <4>2. to \in ObjectStatus
        BY DEF Deletable, ObjectStatus
      <4>3. x \in Deletion /\ x.task = deleter[d].task /\ x.admin = deleter[d].admin
            /\ x.to = to
        BY <2>1, <4>2 DEF Deletion
      <4>4. deleter' = [deleter EXCEPT ![d] = x]
        BY <4>1 DEF Conclude, IInv, TypeOK
      <4> QED
        BY <4>3, <4>4
    <3> QED
      BY <1>5, <3>1, <3>2 DEF HeadBefore, DeleteApplied, DeleteConfirmed, DeleteRefused,
                DeleteUncertain, HeadAfter, DeleteError
  <2> QED
    BY <2>1, <2>2, <2>3, <2>4, DeletionMoves
<1> QED
  BY <1>1, <1>2, <1>3, <1>4, <1>5 DEF DeletionStep

\* Every step of the recovery pass keeps the invariant.
LEMMA RecoveryStepIInv ==
  ASSUME IInv, NEW t \in Task, RecoveryStep(t)
  PROVE  IInv'
<1>1. CASE RecoverSave(t)
  BY <1>1, RecoverSaveStep
<1>2. CASE RecoverHead(t)
  <2>1. PICK found \in Content \union {"error", "config"} :
          recovery' = [recovery EXCEPT ![t].pc = "save", ![t].found = found]
    BY <1>2 DEF RecoverHead, IInv, TypeOK
  <2>2. /\ recovery' \in [Task -> Recovery]
        /\ \A s \in Task : recovery'[s].pc # "idle" =>
             recovery[s].pc # "idle" /\ recovery'[s].copy = recovery[s].copy
    <3> DEFINE x == [recovery[t] EXCEPT !.pc = "save", !.found = found]
    <3>1. x \in Recovery /\ x.copy = recovery[t].copy
      BY DEF IInv, TypeOK, Recovery
    <3>2. recovery' = [recovery EXCEPT ![t] = x]
      BY <2>1 DEF IInv, TypeOK
    <3>3. recovery[t].pc # "idle"
      BY <1>2 DEF RecoverHead
    <3> HIDE DEF x
    <3> QED
      BY <3>1, <3>2, <3>3 DEF IInv, TypeOK
  <2>3. /\ UNCHANGED <<row, aged, store, late, misled, upload, deleter, told>>
        /\ mode' \in {"booting", "recovering", "serving"}
    BY <1>2 DEF RecoverHead, IInv, TypeOK
  <2> QED
    BY <2>2, <2>3, PassMoves
<1>3. CASE RecoverSaveFails(t)
  <2>1. NotRecovering \in Recovery
    BY DEF NotRecovering, Recovery, Row, NoRow, Status, ObjectStatus, ETag, DeleteError
  <2>2. /\ UNCHANGED <<row, aged, store, late, misled, upload, deleter, told>>
        /\ mode' \in {"booting", "recovering", "serving"}
    BY <1>3 DEF RecoverSaveFails, IInv, TypeOK
  <2>3. CASE recovery' = [recovery EXCEPT ![t].found = "error"]
    BY <1>3, <2>2, <2>3, PassMoves DEF IInv, TypeOK, Recovery, RecoverSaveFails
  <2>4. ASSUME NEW dropped \in SUBSET Task,
               recovery' = [s \in Task |->
                 IF s = t \/ s \in dropped \/ mode = "recovering"
                 THEN NotRecovering ELSE recovery[s]]
        PROVE  IInv'
    <3>1. recovery' \in [Task -> Recovery]
      BY <2>1, <2>4 DEF IInv, TypeOK
    <3>2. \A s \in Task : recovery'[s].pc # "idle" =>
            recovery[s].pc # "idle" /\ recovery'[s].copy = recovery[s].copy
      BY <2>4 DEF NotRecovering
    <3> QED
      BY <2>2, <3>1, <3>2, PassMoves
  <2> QED
    BY <1>3, <2>3, <2>4 DEF RecoverSaveFails
<1> QED
  BY <1>1, <1>2, <1>3 DEF RecoveryStep

\* Time, other users of the bucket and retention keep the invariant.
LEMMA EnvironmentIInv ==
  ASSUME IInv, SlowRequests = FALSE, NEW t \in Task, Environment(t)
  PROVE  IInv'
<1>1. CASE Age(t)
  BY <1>1, AgeStep
<1>2. CASE Purge(t)
  BY <1>2, PurgeStep
<1>3. CASE ExternalChange(t) \/ \E op \in {"PUT", "DELETE"} : LateApplied(op, t)
  <2>1. store' \in [Task -> Content]
    BY <1>3, LedgerAssumption DEF ExternalChange, LateApplied, IInv, TypeOK, Content
  <2>2. /\ UNCHANGED <<row, aged, upload, deleter, recovery, told>>
        /\ late' \subseteq {"PUT", "DELETE"} \X Task
        /\ misled' \subseteq {"PUT", "DELETE"} \X Task
        /\ mode' \in {"booting", "recovering", "serving"}
    BY <1>3 DEF ExternalChange, LateApplied, IInv, TypeOK
  <2> QED
    BY <2>1, <2>2, StoreMoves
<1>4. CASE AnswerDeleted(t)
  BY <1>4, AnswerDeletedStep
<1> QED
  BY <1>1, <1>2, <1>3, <1>4 DEF Environment

\* The inductive step: every step, and every stutter, keeps the invariant.
LEMMA NextIInv ==
  ASSUME SlowRequests = FALSE, IInv, [Next]_vars
  PROVE  IInv'
<1>1. CASE UNCHANGED vars
  <2>1. /\ store' \in [Task -> Content]
        /\ late' \subseteq {"PUT", "DELETE"} \X Task
        /\ misled' \subseteq {"PUT", "DELETE"} \X Task
        /\ mode' \in {"booting", "recovering", "serving"}
    BY <1>1 DEF vars, IInv, TypeOK
  <2> QED
    BY <1>1, <2>1, StoreMoves DEF vars
<1>2. ASSUME NEW t \in Task, UploadStep(t)
      PROVE  IInv'
  BY <1>2, UploadStepIInv
<1>3. ASSUME NEW t \in Task, RecoveryStep(t)
      PROVE  IInv'
  BY <1>3, RecoveryStepIInv
<1>4. ASSUME NEW t \in Task, Environment(t)
      PROVE  IInv'
  BY <1>4, EnvironmentIInv
<1>5. ASSUME NEW d \in Deleter, DeletionStep(d)
      PROVE  IInv'
  BY <1>5, DeletionStepIInv
<1>6. CASE StartPass
  BY <1>6, StartPassStep
<1>7. CASE Crash
  BY <1>7, CrashStep
<1>8. CASE BudgetSpent
  <2>1. NotRecovering \in Recovery
    BY DEF NotRecovering, Recovery, Row, NoRow, Status, ObjectStatus, ETag, DeleteError
  <2>2. /\ recovery' \in [Task -> Recovery]
        /\ \A s \in Task : recovery'[s].pc # "idle" =>
             recovery[s].pc # "idle" /\ recovery'[s].copy = recovery[s].copy
    BY <1>8, <2>1 DEF BudgetSpent, IInv, TypeOK, NotRecovering
  <2>3. /\ UNCHANGED <<row, aged, store, late, misled, upload, deleter, told>>
        /\ mode' \in {"booting", "recovering", "serving"}
    BY <1>8 DEF BudgetSpent, IInv, TypeOK
  <2> QED
    BY <2>2, <2>3, PassMoves
<1>9. CASE Serve
  <2>1. /\ UNCHANGED <<row, aged, upload, deleter, recovery, told>>
        /\ store' \in [Task -> Content]
        /\ late' \subseteq {"PUT", "DELETE"} \X Task
        /\ misled' \subseteq {"PUT", "DELETE"} \X Task
        /\ mode' \in {"booting", "recovering", "serving"}
    BY <1>9 DEF Serve, IInv, TypeOK
  <2> QED
    BY <2>1, StoreMoves
<1> QED
  BY <1>1, <1>2, <1>3, <1>4, <1>5, <1>6, <1>7, <1>8, <1>9 DEF Next

-----------------------------------------------------------------------------
(* The theorems.  SlowRequests = FALSE says that a request ends before its *)
(* row passes the stale limit; without it none of them holds.              *)

\* Every reachable state satisfies the inductive invariant.
THEOREM InvariantHolds ==
  ASSUME SlowRequests = FALSE
  PROVE  Spec => []IInv
<1>1. Init => IInv
  BY InitIInv
<1>2. IInv /\ [Next]_vars => IInv'
  BY NextIInv
<1> QED
  BY <1>1, <1>2, PTL DEF Spec

\* Whatever uploads, deletions, crashes, provider failures and changes by other
\* users of the bucket do, the table holds only the rows its code expects: the
\* types of upload_tasks and of every handler's state.
THEOREM TypesHold ==
  ASSUME SlowRequests = FALSE
  PROVE  Spec => []TypeOK
<1>1. IInv => TypeOK
  BY DEF IInv
<1> QED
  BY <1>1, InvariantHolds, PTL

\* Every stored object has exactly one party that may ask for its deletion:
\* no task is ever left where both delete routes refuse it.
THEOREM OwnerHolds ==
  ASSUME SlowRequests = FALSE
  PROVE  Spec => []HasOwner
<1>1. IInv => HasOwner
  BY DEF IInv, TokensFit
<1> QED
  BY <1>1, InvariantHolds, PTL

\* The conditional claim is a lock: two deletion requests never act on one
\* object, and the recovery pass never unlocks it under a request.
THEOREM OneDeleterHolds ==
  ASSUME SlowRequests = FALSE
  PROVE  Spec => []OneDeleter
<1>1. IInv => OneDeleter
  BY DEF IInv
<1> QED
  BY <1>1, InvariantHolds, PTL

\* What a 201 promised is kept until the object is deleted, across crashes and
\* recovery passes.
THEOREM CreatedHolds ==
  ASSUME SlowRequests = FALSE
  PROVE  Spec => []CreatedIsKept
<1>1. IInv => CreatedIsKept
  BY DEF IInv
<1> QED
  BY <1>1, InvariantHolds, PTL

\* A client that was told its object is deleted is never contradicted.
THEOREM DeletedHolds ==
  ASSUME SlowRequests = FALSE
  PROVE  Spec => []DeletedIsFinal
<1>1. IInv => DeletedIsFinal
  BY DEF IInv
<1> QED
  BY <1>1, InvariantHolds, PTL

\* The blind writes of the recovery pass are safe: the row is still the one
\* the pass read when it writes its decision.
THEOREM CopyHolds ==
  ASSUME SlowRequests = FALSE
  PROVE  Spec => []CopyIsCurrent
<1>1. IInv => CopyIsCurrent
  BY DEF IInv
<1> QED
  BY <1>1, InvariantHolds, PTL

\* No write of a handler or of the pass is refused by the table's CHECK.
THEOREM UpdatesHold ==
  ASSUME SlowRequests = FALSE
  PROVE  Spec => []NoUpdateRefused
<1>1. ASSUME IInv PROVE NoUpdateRefused
  <2>1. ASSUME NEW d \in Deleter, deleter[d].pc = "save"
        PROVE  CheckConstraint(DeletionResult(d))
    BY <1>1, <2>1, DeletionWriteIsLegal
  <2>2. ASSUME NEW t \in Task, recovery[t].pc = "save"
        PROVE  CheckConstraint(Recovered(t))
    BY <1>1, <2>2, RecoveredWriteIsLegal
  <2> QED
    BY <2>1, <2>2 DEF NoUpdateRefused
<1> QED
  BY <1>1, InvariantHolds, PTL

-----------------------------------------------------------------------------
(* No orphan, when the provider applies nothing its client gave up.        *)

\* A row that stays, or moves between states that own an object, hides none.
LEMMA RowKeepsObject ==
  ASSUME NoOrphan, NEW t \in Task,
         \A s \in Task \ {t} : row'[s] = row[s],
         UNCHANGED <<store, misled>>,
         \/ store[t] = "absent" \/ <<"PUT", t>> \in misled
         \/ row'[t].status \in {"uploading", "unknown"}
         \/ row'[t].object_status \in {"present", "present_unclaimed", "deleting",
                                       "delete_unknown"}
  PROVE  NoOrphan'
  BY DEF NoOrphan

\* An upload records no object as absent that is there.
LEMMA UploadStepAbsence ==
  ASSUME IInv, AbsenceHolds, NoOrphan, LateEffects = FALSE,
         NEW t \in Task, UploadStep(t)
  PROVE  AbsenceHolds' /\ NoOrphan'
<1>1. CASE BeginUpload(t)
  <2>1. store[t] = "absent" /\ row[t] = NoRow
    BY <1>1 DEF BeginUpload, AbsenceHolds, IInv, UploadsOwn
  <2>2. AbsenceHolds'
    BY <1>1, <2>1 DEF BeginUpload, SetUpload, AbsenceHolds, IInv, TypeOK
  <2>3. NoOrphan'
    BY <1>1, <2>1, RowKeepsObject DEF BeginUpload, IInv, TypeOK
  <2> QED
    BY <2>2, <2>3
<1>2. CASE PutApplied(t)
  <2>1. row[t].status = "uploading" /\ recovery[t].pc = "idle"
    BY <1>2 DEF PutApplied, IInv, UploadsOwn, PassOwns, PendingTask, PendingDeletion,
                RowsLegal, CheckConstraint, NoRow
  <2>2. \A d \in Deleter : deleter[d].pc # "idle" => deleter[d].task # t
    BY <1>2 DEF PutApplied, IInv, AfterUpload
  <2>3. AbsenceHolds'
    BY <1>2, <2>1, <2>2 DEF PutApplied, SetUpload, AbsenceHolds, IInv, TypeOK
  <2>4. NoOrphan'
    BY <1>2, <2>1 DEF PutApplied, NoOrphan, IInv, TypeOK
  <2> QED
    BY <2>3, <2>4
<1>3. CASE \/ PutConfirmed(t) \/ PutRefused(t) \/ PutUncertain(t) \/ HeadUpload(t)
           \/ SaveUploadFails(t) \/ ReplyCreated(t)
  <2>1. AbsenceHolds'
    BY <1>3 DEF PutConfirmed, PutRefused, PutUncertain, HeadUpload, SaveUploadFails,
                ReplyCreated, SetUpload, AbsenceHolds, IInv, TypeOK, SameSize
  <2>2. NoOrphan'
    BY <1>3 DEF PutConfirmed, PutRefused, PutUncertain, HeadUpload, SaveUploadFails,
                ReplyCreated, NoOrphan
  <2> QED
    BY <2>1, <2>2
<1>4. CASE SaveUpload(t)
  <2>1. row'[t] = row[t] \/ row'[t] = UploadResult(t)
    BY <1>4 DEF SaveUpload, UpdateTask, IInv, TypeOK
  <2>2. \A s \in Task \ {t} : row'[s] = row[s]
    BY <1>4 DEF SaveUpload, UpdateTask, IInv, TypeOK
  <2>3. \/ store[t] = "absent" \/ <<"PUT", t>> \in misled
        \/ UploadResult(t).status \in {"uploading", "unknown"}
        \/ UploadResult(t).object_status = "present"
    <3>1. row[t] \in Row
      BY DEF IInv, TypeOK
    <3> QED
      BY <3>1 DEF UploadResult, AbsenceHolds, Row
  <2>4. NoOrphan'
    BY <1>4, <2>1, <2>2, <2>3, RowKeepsObject DEF SaveUpload, NoOrphan
  <2>5. AbsenceHolds'
    BY <1>4 DEF SaveUpload, SetUpload, AbsenceHolds, IInv, TypeOK
  <2> QED
    BY <2>4, <2>5
<1> QED
  BY <1>1, <1>2, <1>3, <1>4 DEF UploadStep

\* A deletion records no object as gone that is there.
LEMMA DeletionStepAbsence ==
  ASSUME IInv, AbsenceHolds, NoOrphan, LateEffects = FALSE,
         NEW d \in Deleter, DeletionStep(d)
  PROVE  AbsenceHolds' /\ NoOrphan'
<1> DEFINE t == deleter[d].task
<1>1. CASE (\E s \in Task, admin \in BOOLEAN : ReadTask(d, s, admin)) \/ ClaimLost(d)
             \/ SaveDeletionFails(d)
  <2>1. AbsenceHolds'
    BY <1>1 DEF ReadTask, ClaimLost, SaveDeletionFails, EndDeletion, NoDeletion,
                AbsenceHolds, IInv, TypeOK
  <2>2. NoOrphan'
    BY <1>1 DEF ReadTask, ClaimLost, SaveDeletionFails, NoOrphan
  <2> QED
    BY <2>1, <2>2
<1>2. CASE Claim(d)
  <2>1. deleter[d] \in Deletion /\ t \in Task
    BY <1>2 DEF Claim, IInv, TypeOK, NoDeletion, Deletion
  <2>2. AbsenceHolds'
    BY <1>2 DEF Claim, Goto, AbsenceHolds, IInv, TypeOK
  <2>3. /\ \A s \in Task \ {t} : row'[s] = row[s]
        /\ row'[t].object_status = "deleting"
    BY <1>2, <2>1 DEF Claim, IInv, TypeOK, Row
  <2>4. NoOrphan'
    BY <1>2, <2>1, <2>3, RowKeepsObject DEF Claim
  <2> QED
    BY <2>2, <2>4
<1>3. CASE \/ HeadBefore(d) \/ DeleteConfirmed(d) \/ DeleteRefused(d)
           \/ DeleteUncertain(d) \/ HeadAfter(d)
  <2>1. deleter[d] \in Deletion
    BY <1>3 DEF HeadBefore, DeleteConfirmed, DeleteRefused, DeleteUncertain, HeadAfter,
                IInv, TypeOK, NoDeletion
  <2>2. /\ UNCHANGED <<row, store, upload, recovery>>
        /\ misled \subseteq misled'
        /\ late' = {}
    BY <1>3 DEF HeadBefore, DeleteConfirmed, DeleteRefused, DeleteUncertain, HeadAfter,
                AbsenceHolds
  <2>3. /\ \A e \in Deleter \ {d} : deleter'[e] = deleter[e]
        /\ deleter'[d].task = deleter[d].task
        /\ deleter'[d].pc = "save" /\ deleter'[d].to = "deleted" => store[t] = "absent"
    BY <1>3, <2>1 DEF HeadBefore, DeleteConfirmed, DeleteRefused, DeleteUncertain,
                HeadAfter, Goto, Conclude, Deletable, IInv, TypeOK, Deletion
  <2>4. AbsenceHolds'
    BY <2>2, <2>3 DEF AbsenceHolds
  <2>5. NoOrphan'
    BY <2>2 DEF NoOrphan
  <2> QED
    BY <2>4, <2>5
<1>4. CASE DeleteApplied(d)
  <2>1. deleter[d] \in Deletion
    BY <1>4 DEF DeleteApplied, IInv, TypeOK, NoDeletion
  <2>2. /\ UNCHANGED <<row, upload, recovery, late, misled>>
        /\ \A s \in Task : store'[s] = store[s] \/ store'[s] = "absent"
        /\ \A e \in Deleter \ {d} : deleter'[e] = deleter[e]
        /\ deleter'[d].pc = "applied"
    BY <1>4, <2>1 DEF DeleteApplied, Goto, IInv, TypeOK, Deletion
  <2>3. \A e \in Deleter : deleter[e].pc = "save" => deleter[e].task \in Task
    BY DEF IInv, TypeOK, NoDeletion, Deletion
  <2> QED
    BY <2>2, <2>3 DEF AbsenceHolds, NoOrphan
<1>5. CASE SaveDeletion(d)
  <2>1. deleter[d].pc = "save" /\ deleter[d].to \in {"present", "present_unclaimed",
                                                   "delete_unknown", "deleted"}
        /\ t \in Task /\ DeletionResult(d).object_status = deleter[d].to
    BY <1>5, DeletionWriteIsLegal DEF SaveDeletion, Deletable
  <2>2. /\ \A s \in Task \ {t} : row'[s] = row[s]
        /\ row'[t] = row[t] \/ row'[t] = DeletionResult(d)
        /\ UNCHANGED <<store, misled>>
    BY <1>5, <2>1 DEF SaveDeletion, UpdateTask, IInv, TypeOK
  <2>3. deleter[d].to = "deleted" => store[t] = "absent"
    BY <2>1 DEF AbsenceHolds
  <2>4. NoOrphan'
    BY <2>1, <2>2, <2>3, RowKeepsObject DEF NoOrphan
  <2>5. AbsenceHolds'
    BY <1>5 DEF SaveDeletion, EndDeletion, NoDeletion, AbsenceHolds, IInv, TypeOK
  <2> QED
    BY <2>4, <2>5
<1> QED
  BY <1>1, <1>2, <1>3, <1>4, <1>5 DEF DeletionStep

\* Recovery records no object as absent or gone that is there.
LEMMA RecoveryStepAbsence ==
  ASSUME IInv, AbsenceHolds, NoOrphan, LateEffects = FALSE,
         NEW t \in Task, RecoveryStep(t)
  PROVE  AbsenceHolds' /\ NoOrphan'
<1>1. CASE RecoverHead(t)
  <2>1. PICK found \in {store[t], "error", "config"} :
          recovery' = [recovery EXCEPT ![t].pc = "save", ![t].found = found]
    BY <1>1 DEF RecoverHead
  <2>2. /\ \A s \in Task \ {t} : recovery'[s] = recovery[s]
        /\ recovery'[t].found = "absent" => store[t] = "absent"
    BY <2>1 DEF IInv, TypeOK, Recovery
  <2> QED
    BY <1>1, <2>2 DEF RecoverHead, AbsenceHolds, NoOrphan
<1>2. CASE RecoverSaveFails(t)
  <2>1. \A s \in Task :
          recovery'[s].pc = "save" /\ recovery'[s].found = "absent" =>
            recovery[s].pc = "save" /\ recovery[s].found = "absent"
    BY <1>2 DEF RecoverSaveFails, IInv, TypeOK, Recovery, NotRecovering
  <2> QED
    BY <1>2, <2>1 DEF RecoverSaveFails, AbsenceHolds, NoOrphan
<1>3. CASE RecoverSave(t)
  <2>1. /\ \A s \in Task \ {t} : row'[s] = row[s]
        /\ row'[t] = row[t] \/ row'[t] = Recovered(t)
        /\ UNCHANGED <<store, misled>>
    BY <1>3 DEF RecoverSave, UpdateTask, IInv, TypeOK
  <2>2. \/ store[t] = "absent"
        \/ Recovered(t).status \in {"uploading", "unknown"}
        \/ Recovered(t).object_status \in {"present", "present_unclaimed", "deleting",
                                           "delete_unknown"}
    <3>1. row[t] \in Row /\ recovery[t].copy = row[t]
      BY <1>3 DEF RecoverSave, IInv, TypeOK, CopyIsCurrent
    <3>2. recovery[t].found = "absent" => store[t] = "absent"
      BY <1>3 DEF RecoverSave, AbsenceHolds
    <3>3. recovery[t].found = "absent" \/
             \/ UploadRecovered(t).status \in {"uploading", "unknown"}
             \/ UploadRecovered(t).object_status \in {"present", "present_unclaimed"}
      BY <3>1 DEF UploadRecovered, Row
    <3>4. PendingTask(t) \/ PendingDeletion(t)
      BY <1>3 DEF RecoverSave, IInv, PassOwns
    <3>5. row[t].status \notin {"uploading", "unknown"} =>
            row[t].object_status \in {"deleting", "delete_unknown"}
      BY <3>4 DEF PendingTask, PendingDeletion
    <3>6. row[t].status \notin {"uploading", "unknown"} =>
            \/ recovery[t].found = "absent"
            \/ DeletionRecovered(t).object_status \in
                 {"present", "present_unclaimed", "deleting", "delete_unknown"}
      BY <3>1, <3>5, DeletionRecoveredFits
    <3> QED
      BY <3>1, <3>2, <3>3, <3>6 DEF Recovered
  <2>3. NoOrphan'
    BY <2>1, <2>2, RowKeepsObject DEF NoOrphan
  <2>4. AbsenceHolds'
    BY <1>3 DEF RecoverSave, NotRecovering, AbsenceHolds, IInv, TypeOK
  <2> QED
    BY <2>3, <2>4
<1> QED
  BY <1>1, <1>2, <1>3 DEF RecoveryStep

\* Nobody else creates an object, and only rows without one are forgotten.
LEMMA EnvironmentAbsence ==
  ASSUME IInv, AbsenceHolds, NoOrphan, NEW t \in Task, Environment(t)
  PROVE  AbsenceHolds' /\ NoOrphan'
<1>1. CASE Age(t) \/ AnswerDeleted(t)
  BY <1>1 DEF Age, AnswerDeleted, AbsenceHolds, NoOrphan
<1>2. CASE ExternalChange(t)
  <2>1. /\ \A s \in Task : store[s] = "absent" => store'[s] = "absent"
        /\ \A e \in Deleter : deleter[e].pc = "save" => deleter[e].task \in Task
    BY <1>2 DEF ExternalChange, IInv, TypeOK, NoDeletion, Deletion
  <2> QED
    BY <1>2, <2>1 DEF ExternalChange, AbsenceHolds, NoOrphan
<1>3. CASE \E op \in {"PUT", "DELETE"} : LateApplied(op, t)
  BY <1>3 DEF LateApplied, AbsenceHolds
<1>4. CASE Purge(t)
  <2>1. store[t] = "absent" \/ <<"PUT", t>> \in misled
    BY <1>4 DEF Purge, NoOrphan
  <2>2. AbsenceHolds'
    BY <1>4 DEF Purge, AbsenceHolds
  <2>3. NoOrphan'
    BY <1>4, <2>1, RowKeepsObject DEF Purge, IInv, TypeOK
  <2> QED
    BY <2>2, <2>3
<1> QED
  BY <1>1, <1>2, <1>3, <1>4 DEF Environment

\* While the provider applies nothing that was given up, every object in the
\* bucket can be found through the ledger, but for an upload the provider
\* applied and then refused when its client repeated it.
THEOREM OrphanHolds ==
  ASSUME SlowRequests = FALSE, LateEffects = FALSE
  PROVE  Spec => []NoOrphan
<1>1. Init => AbsenceHolds /\ NoOrphan
  BY DEF Init, AbsenceHolds, NoOrphan, NotRecovering, NoDeletion
<1>2. IInv /\ AbsenceHolds /\ NoOrphan /\ [Next]_vars => (AbsenceHolds /\ NoOrphan)'
  <2> SUFFICES ASSUME IInv, AbsenceHolds, NoOrphan, [Next]_vars
               PROVE  AbsenceHolds' /\ NoOrphan'
    OBVIOUS
  <2>1. CASE UNCHANGED vars
    BY <2>1 DEF vars, AbsenceHolds, NoOrphan
  <2>2. CASE StartPass \/ BudgetSpent \/ Serve
    BY <2>2 DEF StartPass, BudgetSpent, Serve, NotRecovering, AbsenceHolds, NoOrphan
  <2>3. CASE Crash
    BY <2>3 DEF Crash, NoDeletion, NotRecovering, UploadLive, AbsenceHolds, NoOrphan
  <2>4. ASSUME NEW t \in Task, UploadStep(t)
        PROVE  AbsenceHolds' /\ NoOrphan'
    BY <2>4, UploadStepAbsence
  <2>5. ASSUME NEW t \in Task, RecoveryStep(t)
        PROVE  AbsenceHolds' /\ NoOrphan'
    BY <2>5, RecoveryStepAbsence
  <2>6. ASSUME NEW t \in Task, Environment(t)
        PROVE  AbsenceHolds' /\ NoOrphan'
    BY <2>6, EnvironmentAbsence
  <2>7. ASSUME NEW d \in Deleter, DeletionStep(d)
        PROVE  AbsenceHolds' /\ NoOrphan'
    BY <2>7, DeletionStepAbsence
  <2> QED
    BY <2>1, <2>2, <2>3, <2>4, <2>5, <2>6, <2>7 DEF Next
<1> QED
  BY <1>1, <1>2, InvariantHolds, PTL DEF Spec

-----------------------------------------------------------------------------
(* What is offered is there, when besides nobody else removes objects.     *)

\* A row that offers no object, or one that is there, hides no loss.
LEMMA RowOffers ==
  ASSUME PresentIsStored, NEW t \in Task,
         \A s \in Task \ {t} : row'[s] = row[s],
         UNCHANGED <<store, misled>>,
         \/ store[t] # "absent" \/ <<"DELETE", t>> \in misled
         \/ row'[t].object_status \notin {"present", "present_unclaimed"}
  PROVE  PresentIsStored'
  BY DEF PresentIsStored

\* An upload only records an object that its HEAD saw.
LEMMA UploadStepPresence ==
  ASSUME IInv, PresenceHolds, PresentIsStored, LateEffects = FALSE,
         NEW t \in Task, UploadStep(t)
  PROVE  PresenceHolds' /\ PresentIsStored'
<1>1. CASE BeginUpload(t)
  <2>1. PresenceHolds'
    BY <1>1 DEF BeginUpload, SetUpload, PresenceHolds, IInv, TypeOK
  <2>2. PresentIsStored'
    BY <1>1, RowOffers DEF BeginUpload, IInv, TypeOK, NewRow, NoRow
  <2> QED
    BY <2>1, <2>2
<1>2. CASE PutApplied(t)
  <2>1. \A s \in Task : store[s] # "absent" => store'[s] # "absent"
    BY <1>2 DEF PutApplied, IInv, TypeOK
  <2>2. \A d \in Deleter : deleter[d].pc # "idle" => deleter[d].task \in Task
    BY DEF IInv, TypeOK, NoDeletion, Deletion
  <2>3. PresenceHolds'
    BY <1>2, <2>1, <2>2 DEF PutApplied, SetUpload, PresenceHolds, IInv, TypeOK
  <2>4. PresentIsStored'
    BY <1>2, <2>1 DEF PutApplied, PresentIsStored
  <2> QED
    BY <2>3, <2>4
<1>3. CASE \/ PutConfirmed(t) \/ PutRefused(t) \/ PutUncertain(t) \/ HeadUpload(t)
           \/ SaveUploadFails(t) \/ ReplyCreated(t)
  <2>1. PresenceHolds'
    BY <1>3 DEF PutConfirmed, PutRefused, PutUncertain, HeadUpload, SaveUploadFails,
                ReplyCreated, SetUpload, PresenceHolds, IInv, TypeOK, SameSize
  <2>2. PresentIsStored'
    BY <1>3 DEF PutConfirmed, PutRefused, PutUncertain, HeadUpload, SaveUploadFails,
                ReplyCreated, PresentIsStored
  <2> QED
    BY <2>1, <2>2
<1>4. CASE SaveUpload(t)
  <2>1. /\ \A s \in Task \ {t} : row'[s] = row[s]
        /\ row'[t] = row[t] \/ row'[t] = UploadResult(t)
        /\ UNCHANGED <<store, misled>>
    BY <1>4 DEF SaveUpload, UpdateTask, IInv, TypeOK
  <2>2. \/ store[t] # "absent"
        \/ UploadResult(t).object_status \notin {"present", "present_unclaimed"}
    <3>1. row[t] \in Row
      BY DEF IInv, TypeOK
    <3>2. upload[t].found \in {"refused", "uncertain"} \/ store[t] # "absent"
      BY <1>4 DEF SaveUpload, PresenceHolds
    <3> QED
      BY <3>1, <3>2 DEF UploadResult, Row
  <2>3. PresentIsStored'
    BY <2>1, <2>2, RowOffers DEF PresentIsStored
  <2>4. PresenceHolds'
    BY <1>4 DEF SaveUpload, SetUpload, PresenceHolds, IInv, TypeOK
  <2> QED
    BY <2>3, <2>4
<1> QED
  BY <1>1, <1>2, <1>3, <1>4 DEF UploadStep

\* A deletion gives an object back only while it is there.
LEMMA DeletionStepPresence ==
  ASSUME IInv, PresenceHolds, PresentIsStored, LateEffects = FALSE,
         NEW d \in Deleter, DeletionStep(d)
  PROVE  PresenceHolds' /\ PresentIsStored'
<1> DEFINE t == deleter[d].task
<1>1. CASE (\E s \in Task, admin \in BOOLEAN : ReadTask(d, s, admin)) \/ ClaimLost(d)
             \/ SaveDeletionFails(d)
  <2>1. PresenceHolds'
    BY <1>1 DEF ReadTask, ClaimLost, SaveDeletionFails, EndDeletion, NoDeletion,
                PresenceHolds, IInv, TypeOK
  <2>2. PresentIsStored'
    BY <1>1 DEF ReadTask, ClaimLost, SaveDeletionFails, PresentIsStored
  <2> QED
    BY <2>1, <2>2
<1>2. CASE Claim(d)
  <2>1. deleter[d] \in Deletion /\ t \in Task
    BY <1>2 DEF Claim, IInv, TypeOK, NoDeletion, Deletion
  <2>2. store[t] # "absent" \/ <<"DELETE", t>> \in misled
    BY <1>2, <2>1 DEF Claim, Claimable, Deletable, PresentIsStored
  <2>3. /\ UNCHANGED <<store, late, misled, upload, recovery>>
        /\ \A e \in Deleter \ {d} : deleter'[e] = deleter[e]
        /\ deleter'[d].task = deleter[d].task
    BY <1>2, <2>1 DEF Claim, Goto, IInv, TypeOK, Deletion
  <2>4. PresenceHolds'
    BY <2>2, <2>3 DEF PresenceHolds
  <2>5. PresentIsStored'
    <3>1. \A s \in Task \ {t} : row'[s] = row[s]
      BY <1>2, <2>1 DEF Claim, IInv, TypeOK
    <3> QED
      BY <2>1, <2>2, <2>3, <3>1, RowOffers
  <2> QED
    BY <2>4, <2>5
<1>3. CASE \/ HeadBefore(d) \/ DeleteConfirmed(d) \/ DeleteRefused(d)
           \/ DeleteUncertain(d) \/ HeadAfter(d)
  <2>1. deleter[d] \in Deletion
    BY <1>3 DEF HeadBefore, DeleteConfirmed, DeleteRefused, DeleteUncertain, HeadAfter,
                IInv, TypeOK, NoDeletion
  <2>2. /\ UNCHANGED <<row, store, upload, recovery>>
        /\ misled \subseteq misled'
        /\ late' = {}
    BY <1>3 DEF HeadBefore, DeleteConfirmed, DeleteRefused, DeleteUncertain, HeadAfter,
                PresenceHolds
  <2>3. /\ \A e \in Deleter \ {d} : deleter'[e] = deleter[e]
        /\ deleter'[d].task = deleter[d].task
        /\ \/ store[t] # "absent" \/ <<"DELETE", t>> \in misled'
           \/ /\ deleter'[d].pc \notin {"head", "delete"}
              /\ deleter'[d].pc = "save" =>
                   deleter'[d].to \notin {"present", "present_unclaimed"}
    <3>1. CASE HeadBefore(d) \/ DeleteRefused(d)
      <4>1. store[t] # "absent" \/ <<"DELETE", t>> \in misled'
        BY <3>1 DEF HeadBefore, DeleteRefused, PresenceHolds
      <4> QED
        BY <2>1, <3>1, <4>1 DEF HeadBefore, DeleteRefused, Goto, Conclude, IInv, TypeOK,
           Deletion
    <3>2. CASE DeleteConfirmed(d) \/ DeleteUncertain(d)
      BY <2>1, <3>2 DEF DeleteConfirmed, DeleteUncertain, Goto, Conclude, IInv, TypeOK,
         Deletion
    <3>3. CASE HeadAfter(d)
      BY <2>1, <3>3 DEF HeadAfter, Conclude, Matches, ETag, IInv, TypeOK, Deletion
    <3> QED
      BY <1>3, <3>1, <3>2, <3>3
  <2>4. PresenceHolds'
    BY <2>2, <2>3 DEF PresenceHolds
  <2>5. PresentIsStored'
    BY <2>2 DEF PresentIsStored
  <2> QED
    BY <2>4, <2>5
<1>4. CASE DeleteApplied(d)
  <2>1. /\ deleter[d] \in Deletion /\ t \in Task /\ Claimed(d)
        /\ deleter[d].pc = "delete"
    BY <1>4 DEF DeleteApplied, IInv, TypeOK, NoDeletion, Deletion, Claimed
  <2>2. /\ row[t].object_status = "deleting" /\ t \notin aged
        /\ \A e \in Deleter \ {d} : Claimed(e) => deleter[e].task # t
    BY <2>1 DEF IInv, OneDeleter, DeletionsOwn
  <2>3. /\ upload[t].pc = "done"
        /\ recovery[t].pc = "idle"
    BY <2>1, <2>2 DEF IInv, AfterUpload, PassOwns, PendingTask, PendingDeletion,
       RowsLegal, CheckConstraint, NoRow
  <2>4. /\ UNCHANGED <<row, upload, recovery, late, misled>>
        /\ \A s \in Task \ {t} : store'[s] = store[s]
        /\ \A e \in Deleter \ {d} : deleter'[e] = deleter[e]
        /\ deleter'[d].pc = "applied"
    BY <1>4, <2>1 DEF DeleteApplied, Goto, IInv, TypeOK, Deletion
  <2>5. \A e \in Deleter : deleter[e].pc # "idle" => deleter[e].task \in Task
    BY DEF IInv, TypeOK, NoDeletion, Deletion
  <2>6. PresenceHolds'
    <3>1. ASSUME NEW e \in Deleter,
                 \/ deleter'[e].pc \in {"head", "delete"}
                 \/ deleter'[e].pc = "save" /\ deleter'[e].to \in {"present", "present_unclaimed"}
          PROVE  \/ store'[deleter'[e].task] # "absent"
                 \/ <<"DELETE", deleter'[e].task>> \in misled'
      <4>1. e # d /\ deleter'[e] = deleter[e] /\ Claimed(e)
        BY <2>4, <3>1 DEF Claimed
      <4>2. deleter[e].task \in Task \ {t}
        BY <2>2, <2>5, <4>1 DEF Claimed
      <4> QED
        BY <2>4, <3>1, <4>1, <4>2 DEF PresenceHolds
    <3> QED
      BY <2>3, <2>4, <3>1 DEF PresenceHolds
  <2>7. PresentIsStored'
    BY <2>2, <2>4 DEF PresentIsStored
  <2> QED
    BY <2>6, <2>7
<1>5. CASE SaveDeletion(d)
  <2>1. /\ deleter[d].pc = "save" /\ t \in Task
        /\ DeletionResult(d).object_status = deleter[d].to
    BY <1>5, DeletionWriteIsLegal DEF SaveDeletion
  <2>2. /\ \A s \in Task \ {t} : row'[s] = row[s]
        /\ row'[t] = row[t] \/ row'[t] = DeletionResult(d)
        /\ UNCHANGED <<store, misled>>
    BY <1>5, <2>1 DEF SaveDeletion, UpdateTask, IInv, TypeOK
  <2>3. deleter[d].to \in {"present", "present_unclaimed"} =>
          store[t] # "absent" \/ <<"DELETE", t>> \in misled
    BY <2>1 DEF PresenceHolds
  <2>4. PresentIsStored'
    BY <2>1, <2>2, <2>3, RowOffers DEF PresentIsStored
  <2>5. PresenceHolds'
    BY <1>5 DEF SaveDeletion, EndDeletion, NoDeletion, PresenceHolds, IInv, TypeOK
  <2> QED
    BY <2>4, <2>5
<1> QED
  BY <1>1, <1>2, <1>3, <1>4, <1>5 DEF DeletionStep

\* Recovery offers an object, or gives it back, only if its HEAD saw it.
LEMMA RecoveryStepPresence ==
  ASSUME IInv, PresenceHolds, PresentIsStored, LateEffects = FALSE,
         NEW t \in Task, RecoveryStep(t)
  PROVE  PresenceHolds' /\ PresentIsStored'
<1>1. CASE RecoverHead(t)
  <2>1. PICK found \in {store[t], "error", "config"} :
          recovery' = [recovery EXCEPT ![t].pc = "save", ![t].found = found]
    BY <1>1 DEF RecoverHead
  <2>2. /\ \A s \in Task \ {t} : recovery'[s] = recovery[s]
        /\ recovery'[t].found \notin {"error", "config", "absent"} => store[t] # "absent"
    BY <2>1 DEF IInv, TypeOK, Recovery
  <2> QED
    BY <1>1, <2>2 DEF RecoverHead, PresenceHolds, PresentIsStored
<1>2. CASE RecoverSaveFails(t)
  <2>1. \A s \in Task :
          recovery'[s].pc = "save" /\ recovery'[s].found \notin {"error", "config", "absent"} =>
            recovery[s].pc = "save" /\ recovery[s].found \notin {"error", "config", "absent"}
    <3>1. \A s \in Task : \/ recovery'[s] = recovery[s]
                          \/ recovery'[s].pc = "idle"
                          \/ recovery'[s].found = "error"
      BY <1>2 DEF RecoverSaveFails, IInv, TypeOK, Recovery, NotRecovering
    <3> QED
      BY <3>1
  <2> QED
    BY <1>2, <2>1 DEF RecoverSaveFails, PresenceHolds, PresentIsStored
<1>3. CASE RecoverSave(t)
  <2>1. /\ \A s \in Task \ {t} : row'[s] = row[s]
        /\ row'[t] = row[t] \/ row'[t] = Recovered(t)
        /\ UNCHANGED <<store, misled>>
    BY <1>3 DEF RecoverSave, UpdateTask, IInv, TypeOK
  <2>2. store[t] # "absent" \/ recovery[t].found \in {"error", "config", "absent"}
    BY <1>3 DEF RecoverSave, PresenceHolds
  <2>3. \/ store[t] # "absent"
        \/ Recovered(t).object_status \notin {"present", "present_unclaimed"}
    <3>1. SUFFICES ASSUME recovery[t].found \in {"error", "config", "absent"}
                   PROVE  Recovered(t).object_status \notin {"present", "present_unclaimed"}
      BY <2>2
    <3>2. row[t] \in Row /\ recovery[t].copy = row[t]
      BY <1>3 DEF RecoverSave, IInv, TypeOK, CopyIsCurrent
    <3>3. UploadRecovered(t).object_status \notin {"present", "present_unclaimed"}
      BY <3>1, <3>2 DEF UploadRecovered, SameSize, Row
    <3>4. row[t].status \notin {"uploading", "unknown"} =>
            row[t].object_status \in {"deleting", "delete_unknown"}
      BY <1>3 DEF RecoverSave, IInv, PassOwns, PendingTask, PendingDeletion
    <3>5. row[t].object_status \in {"deleting", "delete_unknown"} =>
            DeletionRecovered(t).object_status \notin {"present", "present_unclaimed"}
      <4> DEFINE outcome == DeletionOutcome(recovery[t].found, recovery[t].copy)
      <4>1. outcome[1] \in {"delete_unknown", "deleted"}
        <5>1. ~Matches(recovery[t].found, recovery[t].copy.etag)
          BY <3>1, <3>2 DEF Matches, Row, ETag
        <5> QED
          BY <3>1, <5>1 DEF DeletionOutcome
      <4> HIDE DEF outcome
      <4>2. \/ DeletionRecovered(t) = row[t]
            \/ DeletionRecovered(t) = [row[t] EXCEPT !.object_status = outcome[1],
                                                    !.delete_error = outcome[2]]
        BY DEF DeletionRecovered, outcome
      <4> QED
        BY <3>2, <4>1, <4>2 DEF Row
    <3> QED
      BY <3>2, <3>3, <3>4, <3>5 DEF Recovered
  <2>4. PresentIsStored'
    BY <2>1, <2>3, RowOffers DEF PresentIsStored
  <2>5. PresenceHolds'
    BY <1>3 DEF RecoverSave, NotRecovering, PresenceHolds, IInv, TypeOK
  <2> QED
    BY <2>4, <2>5
<1> QED
  BY <1>1, <1>2, <1>3 DEF RecoveryStep

\* Others leave some object where there was one; only rows without are forgotten.
LEMMA EnvironmentPresence ==
  ASSUME IInv, PresenceHolds, PresentIsStored, "absent" \notin OutOfBand,
         NEW t \in Task, Environment(t)
  PROVE  PresenceHolds' /\ PresentIsStored'
<1>1. CASE Age(t) \/ AnswerDeleted(t)
  BY <1>1 DEF Age, AnswerDeleted, PresenceHolds, PresentIsStored
<1>2. CASE ExternalChange(t)
  <2>1. /\ \A s \in Task : store[s] # "absent" => store'[s] # "absent"
        /\ \A e \in Deleter : deleter[e].pc # "idle" => deleter[e].task \in Task
    BY <1>2 DEF ExternalChange, IInv, TypeOK, NoDeletion, Deletion
  <2> QED
    BY <1>2, <2>1 DEF ExternalChange, PresenceHolds, PresentIsStored
<1>3. CASE \E op \in {"PUT", "DELETE"} : LateApplied(op, t)
  BY <1>3 DEF LateApplied, PresenceHolds
<1>4. CASE Purge(t)
  <2>1. PresenceHolds'
    BY <1>4 DEF Purge, PresenceHolds
  <2>2. PresentIsStored'
    BY <1>4, RowOffers DEF Purge, IInv, TypeOK, NoRow
  <2> QED
    BY <2>1, <2>2
<1> QED
  BY <1>1, <1>2, <1>3, <1>4 DEF Environment

\* Conversely, as long as nobody else removes an object, a client or an
\* administrator that is offered one finds it, unless the provider refused a
\* deletion it had applied.
THEOREM PresentHolds ==
  ASSUME SlowRequests = FALSE, LateEffects = FALSE, "absent" \notin OutOfBand
  PROVE  Spec => []PresentIsStored
<1>1. Init => PresenceHolds /\ PresentIsStored
  BY DEF Init, PresenceHolds, PresentIsStored, NotRecovering, NoDeletion, NoRow
<1>2. IInv /\ PresenceHolds /\ PresentIsStored /\ [Next]_vars
        => (PresenceHolds /\ PresentIsStored)'
  <2> SUFFICES ASSUME IInv, PresenceHolds, PresentIsStored, [Next]_vars
               PROVE  PresenceHolds' /\ PresentIsStored'
    OBVIOUS
  <2>1. CASE UNCHANGED vars
    BY <2>1 DEF vars, PresenceHolds, PresentIsStored
  <2>2. CASE StartPass \/ BudgetSpent \/ Serve
    BY <2>2 DEF StartPass, BudgetSpent, Serve, NotRecovering, PresenceHolds, PresentIsStored
  <2>3. CASE Crash
    BY <2>3 DEF Crash, NoDeletion, NotRecovering, UploadLive, PresenceHolds, PresentIsStored
  <2>4. ASSUME NEW t \in Task, UploadStep(t)
        PROVE  PresenceHolds' /\ PresentIsStored'
    BY <2>4, UploadStepPresence
  <2>5. ASSUME NEW t \in Task, RecoveryStep(t)
        PROVE  PresenceHolds' /\ PresentIsStored'
    BY <2>5, RecoveryStepPresence
  <2>6. ASSUME NEW t \in Task, Environment(t)
        PROVE  PresenceHolds' /\ PresentIsStored'
    BY <2>6, EnvironmentPresence
  <2>7. ASSUME NEW d \in Deleter, DeletionStep(d)
        PROVE  PresenceHolds' /\ PresentIsStored'
    BY <2>7, DeletionStepPresence
  <2> QED
    BY <2>1, <2>2, <2>3, <2>4, <2>5, <2>6, <2>7 DEF Next
<1> QED
  BY <1>1, <1>2, InvariantHolds, PTL DEF Spec

-----------------------------------------------------------------------------
(* The ledger implements the life cycle promised to clients.               *)

LifecycleVars ==
  <<[t \in Task |-> PhaseOf(row[t])], [t \in Task |-> OwnerOf(row[t])],
    {t \in Task : <<"created", t>> \in told}>>

\* Where a row may go, read as phase and owner.
LifecycleMove(r, new) ==
  \/ PhaseOf(new) = PhaseOf(r) /\ OwnerOf(new) = OwnerOf(r)
  \/ /\ <<PhaseOf(r), PhaseOf(new)>> \in
          {<<"none", "open">>, <<"open", "void">>, <<"kept", "closing">>,
           <<"closing", "kept">>, <<"closing", "gone">>}
     /\ OwnerOf(new) = OwnerOf(r)
  \/ /\ PhaseOf(r) = "open" /\ PhaseOf(new) = "kept"
     /\ OwnerOf(new) \in {"caller", "administrator"}
  \/ PhaseOf(r) \in {"void", "gone"} /\ PhaseOf(new) = "none" /\ OwnerOf(new) = "nobody"

\* An open task stays open, fails, or gets an object with an owner.
LEMMA OpenMoves ==
  ASSUME NEW r, r.status \in {"uploading", "unknown"}, r.object_status = "pending",
         NEW new \in Row,
         \/ new.status = "failed" /\ new.object_status = "absent"
         \/ new.status = "unknown" /\ new.object_status = "pending"
         \/ /\ new.status = "succeeded"
            /\ new.object_status \in {"present", "present_unclaimed"}
  PROVE  LifecycleMove(r, new)
  BY DEF LifecycleMove, PhaseOf, OwnerOf, Row

\* A deletion in progress gives the object back to its owner or ends it.
LEMMA ClosingMoves ==
  ASSUME NEW r \in Row, r.status = "succeeded",
         r.object_status \in {"deleting", "delete_unknown"},
         NEW new \in Row, new.status = "succeeded", new.token = r.token,
         new.object_status \in {"present", "present_unclaimed", "deleting",
                               "delete_unknown", "deleted"}
  PROVE  LifecycleMove(r, new)
  BY DEF LifecycleMove, PhaseOf, OwnerOf

\* A step that changes one row along LifecycleMove is a step of the life cycle.
LEMMA RowMoves ==
  ASSUME TypeOK, NEW t \in Task, NEW new \in Row,
         row' = [row EXCEPT ![t] = new],
         LifecycleMove(row[t], new),
         \A s \in Task : <<"created", s>> \in told' <=> <<"created", s>> \in told
  PROVE  Lifecycle!Next \/ UNCHANGED LifecycleVars
<1> DEFINE phase == [s \in Task |-> PhaseOf(row[s])]
           owner == [s \in Task |-> OwnerOf(row[s])]
           promised == {s \in Task : <<"created", s>> \in told}
<1>1. /\ phase' = [phase EXCEPT ![t] = PhaseOf(new)]
      /\ owner' = [owner EXCEPT ![t] = OwnerOf(new)]
      /\ promised' = promised
      /\ phase[t] = PhaseOf(row[t]) /\ owner[t] = OwnerOf(row[t])
  BY DEF TypeOK
<1>2. CASE PhaseOf(new) = PhaseOf(row[t]) /\ OwnerOf(new) = OwnerOf(row[t])
  BY <1>1, <1>2 DEF LifecycleVars
<1>3. CASE PhaseOf(row[t]) = "none" /\ PhaseOf(new) = "open" /\ OwnerOf(new) = OwnerOf(row[t])
  <2>1. Lifecycle!Open(t)
    BY <1>1, <1>3 DEF Lifecycle!Open, Lifecycle!Move
  <2> QED
    BY <2>1 DEF Lifecycle!Next
<1>4. CASE PhaseOf(row[t]) = "open" /\ PhaseOf(new) = "void" /\ OwnerOf(new) = OwnerOf(row[t])
  <2>1. Lifecycle!Fail(t)
    BY <1>1, <1>4 DEF Lifecycle!Fail, Lifecycle!Move
  <2> QED
    BY <2>1 DEF Lifecycle!Next
<1>5. CASE PhaseOf(row[t]) = "kept" /\ PhaseOf(new) = "closing" /\ OwnerOf(new) = OwnerOf(row[t])
  <2>1. Lifecycle!Close(t)
    BY <1>1, <1>5 DEF Lifecycle!Close, Lifecycle!Move
  <2> QED
    BY <2>1 DEF Lifecycle!Next
<1>6. CASE PhaseOf(row[t]) = "closing" /\ PhaseOf(new) = "kept" /\ OwnerOf(new) = OwnerOf(row[t])
  <2>1. Lifecycle!Restore(t)
    BY <1>1, <1>6 DEF Lifecycle!Restore, Lifecycle!Move
  <2> QED
    BY <2>1 DEF Lifecycle!Next
<1>7. CASE PhaseOf(row[t]) = "closing" /\ PhaseOf(new) = "gone" /\ OwnerOf(new) = OwnerOf(row[t])
  <2>1. Lifecycle!End(t)
    BY <1>1, <1>7 DEF Lifecycle!End, Lifecycle!Move
  <2> QED
    BY <2>1 DEF Lifecycle!Next
<1>8. CASE PhaseOf(row[t]) = "open" /\ PhaseOf(new) = "kept"
           /\ OwnerOf(new) \in {"caller", "administrator"}
  <2>1. Lifecycle!Keep(t)
    BY <1>1, <1>8 DEF Lifecycle!Keep, Lifecycle!Move
  <2> QED
    BY <2>1 DEF Lifecycle!Next
<1>9. CASE PhaseOf(row[t]) \in {"void", "gone"} /\ PhaseOf(new) = "none"
           /\ OwnerOf(new) = "nobody"
  <2>1. Lifecycle!Forget(t)
    BY <1>1, <1>9 DEF Lifecycle!Forget
  <2> QED
    BY <2>1 DEF Lifecycle!Next
<1> QED
  BY <1>2, <1>3, <1>4, <1>5, <1>6, <1>7, <1>8, <1>9 DEF LifecycleMove

\* A step that changes no row and promises nothing is a stutter.
LEMMA NoRowMoves ==
  ASSUME UNCHANGED row,
         \A s \in Task : <<"created", s>> \in told' <=> <<"created", s>> \in told
  PROVE  UNCHANGED LifecycleVars
  BY DEF LifecycleVars

\* Every step of the ledger is a step of the life cycle, or none.
LEMMA StepImplements ==
  ASSUME IInv, [Next]_vars
  PROVE  Lifecycle!Next \/ UNCHANGED LifecycleVars
<1> USE DEF PhaseOf, OwnerOf
<1>1. ASSUME NEW t \in Task, BeginUpload(t)
      PROVE  Lifecycle!Next \/ UNCHANGED LifecycleVars
  <2>1. NewRow \in Row /\ row[t] = NoRow
    BY <1>1 DEF BeginUpload, IInv, UploadsOwn, NewRow, NoRow, Row, Status, ObjectStatus,
                ETag, DeleteError
  <2>2. LifecycleMove(row[t], NewRow)
    BY <2>1 DEF LifecycleMove, NewRow, NoRow
  <2> QED
    BY <1>1, <2>1, <2>2, RowMoves DEF BeginUpload, IInv
<1>2. ASSUME NEW t \in Task, SaveUpload(t)
      PROVE  Lifecycle!Next \/ UNCHANGED LifecycleVars
  <2>1. row[t] \in Row /\ UploadResult(t) \in Row
    BY <1>2, UploadResultTyped DEF SaveUpload, IInv, TypeOK
  <2>2. row[t].status = "uploading" /\ row[t].object_status = "pending"
    BY <1>2 DEF SaveUpload, IInv, UploadsOwn, RowsLegal, CheckConstraint, NoRow
  <2>3. LifecycleMove(row[t], UploadResult(t))
    <3>1. LET new == UploadResult(t) IN
            \/ new.status = "failed" /\ new.object_status = "absent"
            \/ new.status = "unknown" /\ new.object_status = "pending"
            \/ new.status = "succeeded" /\ new.object_status = "present"
      BY <2>1 DEF UploadResult, Row
    <3> QED
      BY <2>1, <2>2, <3>1, OpenMoves
  <2>4. UNCHANGED told
    BY <1>2 DEF SaveUpload
  <2>5. row' = row \/ row' = [row EXCEPT ![t] = UploadResult(t)]
    BY <1>2 DEF SaveUpload, UpdateTask
  <2> QED
    BY <2>1, <2>3, <2>4, <2>5, RowMoves, NoRowMoves DEF IInv
<1>3. ASSUME NEW t \in Task, ReplyCreated(t)
      PROVE  Lifecycle!Next \/ UNCHANGED LifecycleVars
  <2>1. row[t].status = "succeeded" /\ row[t].object_status = "present" /\ row[t].token
    BY <1>3 DEF ReplyCreated, IInv, UploadsOwn, TokensFit, HasOwner
  <2>2. Lifecycle!Promise(t)
    BY <1>3, <2>1 DEF ReplyCreated, Lifecycle!Promise
  <2> QED
    BY <2>2 DEF Lifecycle!Next
<1>4. ASSUME NEW t \in Task,
             \/ PutApplied(t) \/ PutConfirmed(t) \/ PutRefused(t) \/ PutUncertain(t)
             \/ HeadUpload(t) \/ SaveUploadFails(t) \/ RecoverHead(t) \/ RecoverSaveFails(t)
             \/ Age(t) \/ ExternalChange(t) \/ AnswerDeleted(t)
             \/ \E op \in {"PUT", "DELETE"} : LateApplied(op, t)
      PROVE  Lifecycle!Next \/ UNCHANGED LifecycleVars
  BY <1>4, NoRowMoves DEF PutApplied, PutConfirmed, PutRefused, PutUncertain, HeadUpload,
          SaveUploadFails, RecoverHead, RecoverSaveFails, Age, ExternalChange,
          AnswerDeleted, LateApplied
<1>5. ASSUME NEW t \in Task, RecoverSave(t)
      PROVE  Lifecycle!Next \/ UNCHANGED LifecycleVars
  <2>1. /\ row[t] \in Row /\ Recovered(t) \in Row
        /\ recovery[t].copy = row[t]
        /\ CheckConstraint(row[t])
        /\ PendingTask(t) \/ PendingDeletion(t)
    BY <1>5, RecoveredWriteIsLegal DEF RecoverSave, IInv, RowsLegal, CopyIsCurrent
  <2>2. LifecycleMove(row[t], Recovered(t))
    <3>1. CASE row[t].status \in {"uploading", "unknown"}
      <4>1. Recovered(t) = UploadRecovered(t)
        BY <2>1, <3>1 DEF Recovered
      <4>2. LET new == Recovered(t) IN
              \/ new.status = "failed" /\ new.object_status = "absent"
              \/ new.status = "unknown" /\ new.object_status = "pending"
              \/ /\ new.status = "succeeded"
                 /\ new.object_status \in {"present", "present_unclaimed"}
        BY <2>1, <4>1 DEF UploadRecovered, Row
      <4>3. row[t].object_status = "pending"
        BY <2>1, <3>1 DEF CheckConstraint
      <4> QED
        BY <2>1, <3>1, <4>2, <4>3, OpenMoves
    <3>2. CASE row[t].status \notin {"uploading", "unknown"}
      <4>1. /\ Recovered(t) = DeletionRecovered(t)
            /\ row[t].status = "succeeded"
            /\ row[t].object_status \in {"deleting", "delete_unknown"}
        BY <2>1, <3>2 DEF Recovered, PendingTask, PendingDeletion, CheckConstraint
      <4>2. /\ Recovered(t).status = "succeeded" /\ Recovered(t).token = row[t].token
            /\ Recovered(t).object_status \in {"present", "present_unclaimed", "deleting",
                                              "delete_unknown", "deleted"}
        BY <2>1, <4>1, DeletionRecoveredFits
      <4> QED
        BY <2>1, <4>1, <4>2, ClosingMoves
    <3> QED
      BY <3>1, <3>2
  <2>3. UNCHANGED told
    BY <1>5 DEF RecoverSave
  <2>4. row' = row \/ row' = [row EXCEPT ![t] = Recovered(t)]
    BY <1>5 DEF RecoverSave, UpdateTask
  <2> QED
    BY <2>1, <2>2, <2>3, <2>4, RowMoves, NoRowMoves DEF IInv
<1>6. ASSUME NEW t \in Task, Purge(t)
      PROVE  Lifecycle!Next \/ UNCHANGED LifecycleVars
  <2>1. row[t] \in Row /\ CheckConstraint(row[t])
    BY <1>6 DEF Purge, IInv, TypeOK, RowsLegal, NoRow
  <2>2. NoRow \in Row
    BY DEF Row, NoRow, Status, ObjectStatus, ETag, DeleteError
  <2>3. LifecycleMove(row[t], NoRow)
    BY <1>6, <2>1 DEF LifecycleMove, Purge, CheckConstraint, NoRow
  <2> QED
    BY <1>6, <2>2, <2>3, RowMoves DEF Purge, IInv
<1>7. ASSUME NEW d \in Deleter, Claim(d)
      PROVE  Lifecycle!Next \/ UNCHANGED LifecycleVars
  <2> DEFINE t == deleter[d].task
             new == [row[t] EXCEPT !.object_status = "deleting", !.delete_error = "none"]
  <2>1. /\ t \in Task /\ row[t] \in Row
        /\ row[t].status = "succeeded"
        /\ row[t].object_status \in {"present", "present_unclaimed"}
    BY <1>7 DEF Claim, Claimable, Deletable, IInv, TypeOK, NoDeletion, Deletion
  <2>2. new \in Row /\ LifecycleMove(row[t], new)
    BY <2>1 DEF LifecycleMove, Row, ObjectStatus, DeleteError
  <2>3. row' = [row EXCEPT ![t] = new]
    BY <1>7, <2>1 DEF Claim, IInv, TypeOK
  <2> HIDE DEF new
  <2> QED
    BY <1>7, <2>1, <2>2, <2>3, RowMoves DEF Claim, IInv
<1>8. ASSUME NEW d \in Deleter, SaveDeletion(d)
      PROVE  Lifecycle!Next \/ UNCHANGED LifecycleVars
  <2> DEFINE t == deleter[d].task
             new == DeletionResult(d)
  <2>1. /\ t \in Task /\ row[t] \in Row /\ new \in Row
        /\ row[t].status = "succeeded" /\ row[t].object_status = "deleting"
        /\ new.status = "succeeded" /\ new.token = row[t].token
        /\ new.object_status \in {"present", "present_unclaimed", "delete_unknown", "deleted"}
    BY <1>8, DeletionWriteIsLegal DEF SaveDeletion, Deletable
  <2>2. \A s \in Task : <<"created", s>> \in told' <=> <<"created", s>> \in told
    BY <1>8 DEF SaveDeletion
  <2>3. row' = row \/ row' = [row EXCEPT ![t] = new]
    BY <1>8 DEF SaveDeletion, UpdateTask
  <2> HIDE DEF new
  <2>4. LifecycleMove(row[t], new)
    BY <2>1, ClosingMoves
  <2> QED
    BY <2>1, <2>2, <2>3, <2>4, RowMoves, NoRowMoves DEF IInv
<1>9. ASSUME NEW d \in Deleter,
             \/ \E t \in Task, admin \in BOOLEAN : ReadTask(d, t, admin)
             \/ ClaimLost(d) \/ HeadBefore(d) \/ DeleteApplied(d) \/ DeleteConfirmed(d)
             \/ DeleteRefused(d) \/ DeleteUncertain(d) \/ HeadAfter(d)
             \/ SaveDeletionFails(d)
      PROVE  Lifecycle!Next \/ UNCHANGED LifecycleVars
  BY <1>9, NoRowMoves DEF ReadTask, ClaimLost, HeadBefore, DeleteApplied,
          DeleteConfirmed, DeleteRefused, DeleteUncertain, HeadAfter, SaveDeletionFails
<1>10. CASE StartPass \/ BudgetSpent \/ Serve \/ Crash \/ UNCHANGED vars
  BY <1>10, NoRowMoves DEF StartPass, BudgetSpent, Serve, Crash, vars
<1> QED
  BY <1>1, <1>2, <1>3, <1>4, <1>5, <1>6, <1>7, <1>8, <1>9, <1>10
     DEF Next, UploadStep, RecoveryStep, Environment, DeletionStep

\* The three actors, crashes and all, show clients nothing but the life cycle
\* of ObjectLifecycle: an owner never changes and an end is final.
THEOREM LifecycleImplemented ==
  ASSUME SlowRequests = FALSE
  PROVE  Spec => ImplementsLifecycle
<1>1. Init => Lifecycle!Init
  BY DEF Init, Lifecycle!Init, PhaseOf, OwnerOf, NoRow
<1>2. IInv /\ [Next]_vars => Lifecycle!Next \/ UNCHANGED LifecycleVars
  BY StepImplements
<1>3. (Lifecycle!Next \/ UNCHANGED LifecycleVars)
        => [Lifecycle!Next]_LifecycleVars
  OBVIOUS
<1> QED
  BY <1>1, <1>2, <1>3, InvariantHolds, PTL
     DEF Spec, ImplementsLifecycle, Lifecycle!Spec, LifecycleVars

=============================================================================
