------------------------------ MODULE Migration ------------------------------
(***************************************************************************)
(* Opening the database (initialize in app/database.py): a start reads the *)
(* schema version, copies a database of an earlier version next to it and  *)
(* takes it to version 5, one transaction for every version, while starts  *)
(* fail and the process dies; then it verifies what it has and serves.     *)
(*                                                                         *)
(* A task's row is reduced to the columns that the steps look at or fill:  *)
(* its status, what is known of its object, whether a delete token was     *)
(* handed out for it, and the client it belongs to.  One process migrates *)
(* the database at a time: Release!OneProcess.                             *)
(***************************************************************************)
EXTENDS Naturals

CONSTANTS
  Task,      \* upload tasks
  Client,    \* the clients of version 5
  Legacy,    \* the client that older tasks are given
  NoClient,  \* before version 5 a task has none
  NoRow,     \* no row: the task is not stored
  Broken,    \* a copy that was not finished
  Found,     \* the databases that the first start may find
  Written,   \* the rows that this version's handlers leave behind
  MaxFaults  \* bound on the commands that fail and the processes that die

SchemaVersion == 5

VARIABLES
  db,       \* the database: its version, the rows, is there a default preset?
  origin,   \* what its last user left: where the upgrade comes from
  copies,   \* the copies that starts have made next to the database
  start,    \* the start: its step, the version its next migration expects
  faults    \* failures so far

migrationVars == <<db, origin, copies, start, faults>>

-----------------------------------------------------------------------------
(* Rows *)

Undecided == {"uploading", "unknown"}
Status == Undecided \union {"succeeded", "failed"}
ObjectV2 == {"pending", "present", "absent", "legacy_unverified",
             "deleting", "deleted", "delete_unknown"}
Object == ObjectV2 \union {"present_unclaimed"}

Row == [status : Status, object : Object \union {"none"}, token : BOOLEAN,
        client : Client \union {Legacy, NoClient}]

\* The CHECK of version 4 on status and object_status.
Consistent(row) ==
  \/ row.status \in Undecided /\ row.object = "pending"
  \/ row.status = "failed" /\ row.object = "absent"
  \/ row.status = "succeeded" /\ row.object \in Object \ {"pending", "absent"}

\* Who may delete the object: the holder of the token, or an administrator.
Owned(row) == /\ row.object = "present" => row.token
              /\ row.object = "present_unclaimed" => ~row.token

\* The rows a database of a version may hold: what its CHECKs let in and, from
\* version 4 on, what this repository's handlers leave (TaskLedger).
RowOf(version) ==
  {row \in Row :
     /\ row.client \in (IF version = 5 THEN Client \union {Legacy} ELSE {NoClient})
     /\ version = 1 => row.object = "none" /\ ~row.token
     /\ version \in {2, 3} => row.object \in ObjectV2
     /\ version \in {4, 5} => Consistent(row) /\ Owned(row)}

ASSUME MigrationAssumption ==
  /\ Legacy \notin Client /\ NoClient \notin Client \union {Legacy}
  /\ NoRow \notin Row
  /\ Written \subseteq RowOf(5)
  /\ MaxFaults \in Nat

Rows(version) ==
  [Task -> (IF version = 0 THEN {} ELSE RowOf(version)) \union {NoRow}]

\* Versions 1 and 2 have no presets; from 3 on every task belongs to one.
Database ==
  {d \in UNION {[version : {v}, task : Rows(v), preset : BOOLEAN]
                  : v \in 0..SchemaVersion} :
     /\ d.preset => d.version >= 3
     /\ d.version >= 3 => d.preset \/ \A t \in Task : d.task[t] = NoRow}

ASSUME DatabaseAssumption == Broken \notin Database /\ Found \subseteq Database

MigrationTypeOK ==
  /\ db \in Database
  /\ origin \in Database
  /\ copies \subseteq Database \union {Broken}
  /\ start \in [pc : {"down", "copy", "migrate", "verify", "serve"},
                at : 0..SchemaVersion]
  /\ faults \in 0..MaxFaults

MigrationInit ==
  /\ db \in Found /\ origin = db
  /\ copies = {}
  /\ start = [pc |-> "down", at |-> 0]
  /\ faults = 0

-----------------------------------------------------------------------------
(* What the migrations make of a row *)

\* Mistake: what was uploaded by version 1 is called present.
ToV2Present(row) ==
  [row EXCEPT !.object = CASE row.status = "succeeded" -> "present"
                           [] row.status = "failed" -> "absent"
                           [] OTHER -> "pending"]

ToV2(row) ==
  [row EXCEPT !.object = CASE row.status = "succeeded" -> "legacy_unverified"
                           [] row.status = "failed" -> "absent"
                           [] OTHER -> "pending"]

\* Mistakes: a row without a token stays present; failed rows stay as they are.
ToV4Present(row) ==
  [row EXCEPT !.object =
     CASE row.status = "failed" -> "absent"
       [] row.status \in Undecided -> "pending"
       [] OTHER -> IF row.object = "pending" THEN "present" ELSE @]
ToV4Failed(row) ==
  [row EXCEPT !.object =
     CASE row.status \in Undecided -> "pending"
       [] row.status \notin Undecided /\ @ \in {"present", "pending"} ->
            IF row.token THEN "present" ELSE "present_unclaimed"
       [] OTHER -> @]

ToV4(row) ==
  [row EXCEPT !.object =
     CASE row.status = "failed" -> "absent"
       [] row.status \in Undecided -> "pending"
       [] row.status = "succeeded" /\ @ \in {"present", "pending"} ->
            IF row.token THEN "present" ELSE "present_unclaimed"
       [] OTHER -> @]

ToV5(row) == [row EXCEPT !.client = Legacy]

\* The step from a version to the next; version 3 brings the presets.
Convert(version, row) == IF row = NoRow THEN NoRow
                         ELSE CASE version = 1 -> ToV2(row)
                                [] version = 3 -> ToV4(row)
                                [] version = 4 -> ToV5(row)
                                [] OTHER -> row

Converted(version) == [t \in Task |-> Convert(version, db.task[t])]

\* The new table's CHECK refuses a row: the INSERT fails, and with it the step.
Refused(version) ==
  version >= 3 /\ \E row \in {Converted(version)[t] : t \in Task} \ {NoRow} :
                    ~Consistent(row)

-----------------------------------------------------------------------------
(* A start *)

Go(pc, at) == start' = [pc |-> pc, at |-> at]
Fault == faults < MaxFaults /\ faults' = faults + 1

\* Mistake: only databases of version 1 are copied.
OpenV1Copied ==
  /\ start.pc = "down"
  /\ Go(CASE db.version = SchemaVersion -> "verify"
          [] db.version = 1 -> "copy" [] OTHER -> "migrate", db.version)
  /\ UNCHANGED <<db, origin, copies, faults>>

\* The version is read before the first transaction begins.
Open ==
  /\ start.pc = "down"
  /\ Go(CASE db.version = SchemaVersion -> "verify"
          [] db.version = 0 -> "migrate" [] OTHER -> "copy", db.version)
  /\ UNCHANGED <<db, origin, copies, faults>>

\* _backup_before_upgrade, to a file of its own every time.
CopyDatabase ==
  /\ start.pc = "copy"
  /\ copies' = copies \union {db}
  /\ Go("migrate", start.at)
  /\ UNCHANGED <<db, origin, faults>>

CopyFails ==
  /\ start.pc = "copy" /\ Fault
  /\ copies' = copies \union {Broken}
  /\ Go("down", 0)
  /\ UNCHANGED <<db, origin>>

\* An empty database gets the schema of version 5 at once.
CreateSchema ==
  /\ start.pc = "migrate" /\ start.at = 0
  /\ db' = [db EXCEPT !.version = SchemaVersion]
  /\ Go("verify", SchemaVersion)
  /\ UNCHANGED <<origin, copies, faults>>

Migrate ==
  /\ start.pc = "migrate" /\ start.at \in 1..SchemaVersion - 1
  /\ ~Refused(start.at)
  /\ db' = [version |-> start.at + 1, task |-> Converted(start.at),
            preset |-> db.preset \/ start.at = 2]
  /\ Go(IF start.at + 1 = SchemaVersion THEN "verify" ELSE "migrate", start.at + 1)
  /\ UNCHANGED <<origin, copies, faults>>

\* The transaction is rolled back, and the start is over.
MigrateRefused ==
  /\ start.pc = "migrate" /\ start.at >= 1 /\ Refused(start.at)
  /\ Go("down", 0)
  /\ UNCHANGED <<db, origin, copies, faults>>

\* _verify_schema_v5.
Sound == /\ db.version = SchemaVersion
         /\ db.preset \/ \A t \in Task : db.task[t] = NoRow

Verify ==
  /\ start.pc = "verify"
  /\ Go(IF Sound THEN "serve" ELSE "down", start.at)
  /\ UNCHANGED <<db, origin, copies, faults>>

\* The service is at work on a task, or retention removes it; or a preset is
\* saved.
Work ==
  /\ start.pc = "serve"
  /\ \E t \in Task, row \in Written \union {NoRow} :
       db' = [db EXCEPT !.task[t] = row, !.preset = TRUE]
  /\ origin' = db'
  /\ UNCHANGED <<copies, start, faults>>

\* The operator stops the service.
StopService ==
  /\ start.pc = "serve"
  /\ Go("down", 0)
  /\ UNCHANGED <<db, origin, copies, faults>>

\* A step fails, or the process dies.
Crash ==
  /\ start.pc # "down" /\ Fault
  /\ Go("down", 0)
  /\ UNCHANGED <<db, origin, copies>>

StartStep ==
  \/ Open \/ CopyDatabase \/ CreateSchema \/ Migrate \/ MigrateRefused \/ Verify

MigrationNext == StartStep \/ CopyFails \/ Work \/ StopService \/ Crash

MigrationSpec == MigrationInit /\ [][MigrationNext]_migrationVars

-----------------------------------------------------------------------------
(* Properties *)

\* What a row of a later version may say of a task, given the row it had.
Tells(old, new) ==
  /\ new.status = old.status /\ new.token = old.token
  \* undecided tasks, and no others, are left to recovery
  /\ new.object = "pending" => old.object \in {"pending", "none"} \/ old.status \in Undecided
  \* nothing is known of an object that was not known before (docs PLAN.md:351)
  /\ new.object = "present" => old.object \in {"present", "pending"}
  /\ new.object = "present_unclaimed" =>
       old.object \in {"present", "pending", "present_unclaimed"} /\ ~old.token
  /\ new.object = "absent" => old.object = "absent" \/ old.status = "failed"
  /\ new.object \in {"deleting", "deleted", "delete_unknown"} => new.object = old.object
  /\ old.object \in {"deleting", "deleted", "delete_unknown"} /\ old.status = "succeeded" =>
       new.object = old.object
  /\ new.object = "legacy_unverified" => old.object \in {"legacy_unverified", "none"}
  /\ old.client # NoClient => new.client = old.client

\* README.md:63: an upgrade keeps every task, and says of none of them what was
\* not known before, wherever the process died and a later start went on.
MigrationFaithful ==
  \A t \in Task :
    /\ db.task[t] = NoRow <=> origin.task[t] = NoRow
    /\ db.task[t] # NoRow => Tells(origin.task[t], db.task[t])

\* README.md:60: before anything of a database of an earlier version changes,
\* there is a complete copy of it, and no later start that fails takes it away.
UpgradeCopied == db # origin /\ origin.version # 0 => origin \in copies

\* What the handlers of TaskLedger rely on, whatever version the database once
\* had: every row's columns agree, what is present can be deleted by the holder
\* of a token, what is unclaimed by an administrator, and every task has a
\* client and a preset.
ServesOwned ==
  start.pc = "serve" =>
    /\ db.version = SchemaVersion
    /\ \A t \in Task : db.task[t] # NoRow =>
         /\ Consistent(db.task[t]) /\ Owned(db.task[t])
         /\ db.task[t].client # NoClient
         /\ db.preset

\* No row that version 4 has no place for: a succeeded task without an object.
Acceptable(d) == \A t \in Task : d.task[t] # NoRow =>
  ~(d.version \in {2, 3} /\ d.task[t].status = "succeeded" /\ d.task[t].object = "absent")
=============================================================================
