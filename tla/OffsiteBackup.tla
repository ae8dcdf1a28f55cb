---------------------------- MODULE OffsiteBackup ----------------------------
(***************************************************************************)
(* Backups away from the host (app/backup.py, scripts/zos-backup.sh): one  *)
(* command at a time saves the database into the backup bucket, with or    *)
(* without reading it back, or restores a backup into a new directory; and *)
(* the operator who puts a restored directory in place of the database,    *)
(* which the next start opens and, when it is of an earlier version,       *)
(* upgrades (Migration).  Commands run beside starts and the service.      *)
(***************************************************************************)
EXTENDS Migration, Sequences

CONSTANTS
  Directory,   \* directories an operator restores into
  MaxBackup    \* bound on the backups ever uploaded

ASSUME BackupAssumption == MaxBackup \in Nat

VARIABLES
  remote,    \* the uploaded backups, in the order of their keys
  taken,     \* the database each was taken of, as it was committed
  reported,  \* backups that create-verify called verified
  dir,       \* what is in the directories: a database file, a key file
  command    \* the command that runs, its step and what it works on

backupVars == <<remote, taken, reported, dir, command>>
vars == <<migrationVars, backupVars>>

-----------------------------------------------------------------------------
Backup == 1..MaxBackup
NoBackup == 0
Uploaded == 1..Len(remote)

\* An archive holds a database and a settings key; a damaged object decrypts to
\* neither.  short: not as many bytes as were sent.
Blob == [db : Database \union {Broken}, short : BOOLEAN]

\* The files carry the number of the backup they come from: 0 if a file is not
\* there or empty, MaxBackup + 1 if it was not written to its end.
Partial == MaxBackup + 1
NoDirectory == [exists |-> FALSE, db |-> NoBackup, key |-> NoBackup]
EmptyDirectory == [exists |-> TRUE, db |-> NoBackup, key |-> NoBackup]
CutShort == [exists |-> TRUE, db |-> Partial, key |-> NoBackup]
DirectoryState == [exists : BOOLEAN, db : 0..Partial, key : 0..MaxBackup]

Idle == [pc |-> "idle"]
Commands ==
  {Idle}
  \union [pc : {"put"}, verify : BOOLEAN, db : Database]
  \union [pc : {"head", "verify"}, verify : BOOLEAN, id : Backup]
  \union [pc : {"write", "key"}, id : Backup, into : Directory]

BackupTypeOK ==
  /\ MigrationTypeOK
  /\ remote \in Seq(Blob) /\ Len(remote) <= MaxBackup
  /\ taken \in Seq(Database) /\ Len(taken) = Len(remote)
  /\ reported \subseteq Uploaded
  /\ dir \in [Directory -> DirectoryState]
  /\ command \in Commands

Init ==
  /\ MigrationInit
  /\ remote = <<>> /\ taken = <<>>
  /\ reported = {}
  /\ dir = [d \in Directory |-> NoDirectory]
  /\ command = Idle

-----------------------------------------------------------------------------
(* create, create-verify *)

\* The script holds the lock, the container runs; build_backup reads what is
\* committed, be it between two migrations.
Build(verify) ==
  /\ command = Idle /\ start.pc # "down"
  /\ Len(remote) < MaxBackup
  /\ command' = [pc |-> "put", verify |-> verify, db |-> db]
  /\ UNCHANGED <<migrationVars, remote, taken, reported, dir>>

\* PUT: the object arrives, whole or not.
Put ==
  /\ command.pc = "put"
  /\ \E blob \in {[db |-> command.db, short |-> FALSE]}
                   \union [db : {Broken}, short : BOOLEAN] :
       remote' = Append(remote, blob)
  /\ taken' = Append(taken, command.db)
  /\ command' = [pc |-> "head", verify |-> command.verify, id |-> Len(remote) + 1]
  /\ UNCHANGED <<migrationVars, reported, dir>>

\* HEAD: another size ends the command; create is content with the right one.
CheckSize ==
  /\ command.pc = "head"
  /\ command' = IF ~remote[command.id].short /\ command.verify
                THEN [command EXCEPT !.pc = "verify"] ELSE Idle
  /\ UNCHANGED <<migrationVars, remote, taken, reported, dir>>

\* _download and verify_backup: only an undamaged archive decrypts, with a
\* database as the manifest describes it.
Intact(id) == remote[id].db # Broken

ReadBack ==
  /\ command.pc = "verify"
  /\ reported' = IF Intact(command.id) THEN reported \union {command.id} ELSE reported
  /\ command' = Idle
  /\ UNCHANGED <<migrationVars, remote, taken, dir>>

-----------------------------------------------------------------------------
(* restore *)

\* Mistake: the directory may be there.
RestoreOver(id, d) ==
  /\ command = Idle
  /\ id \in Uploaded /\ Intact(id)
  /\ dir' = [dir EXCEPT ![d].exists = TRUE]
  /\ command' = [pc |-> "write", id |-> id, into |-> d]
  /\ UNCHANGED <<migrationVars, remote, taken, reported>>

\* An archive that decrypts is restored, into a directory that is not there.
Restore(id, d) ==
  /\ command = Idle
  /\ id \in Uploaded /\ Intact(id)
  /\ ~dir[d].exists
  /\ dir' = [dir EXCEPT ![d] = EmptyDirectory]
  /\ command' = [pc |-> "write", id |-> id, into |-> d]
  /\ UNCHANGED <<migrationVars, remote, taken, reported>>

WriteDatabase ==
  /\ command.pc = "write"
  /\ dir' = [dir EXCEPT ![command.into].db = command.id]
  /\ command' = [command EXCEPT !.pc = "key"]
  /\ UNCHANGED <<migrationVars, remote, taken, reported>>

\* The command reports the directory.
WriteKey ==
  /\ command.pc = "key"
  /\ dir' = [dir EXCEPT ![command.into].key = command.id]
  /\ command' = Idle
  /\ UNCHANGED <<migrationVars, remote, taken, reported>>

\* A command dies, or its request fails, at any step: a PUT may have been
\* carried out for all that, a file may be cut short.
Kill ==
  /\ command # Idle /\ Fault
  /\ command' = Idle
  /\ \/ UNCHANGED dir
     \/ command.pc = "write" /\ dir' = [dir EXCEPT ![command.into] = CutShort]
  /\ UNCHANGED <<db, origin, copies, start, remote, taken, reported>>

Complete(d) == dir[d].db # NoBackup /\ dir[d].key # NoBackup

\* The operator puts a restored database in place of the stopped service's.
PutInPlace(d) ==
  /\ start.pc = "down" /\ Complete(d) /\ dir[d].db \in Uploaded
  /\ db' = remote[dir[d].db].db
  /\ origin' = db'
  /\ UNCHANGED <<copies, start, faults, backupVars>>

-----------------------------------------------------------------------------
BackupNext ==
  \/ \E verify \in BOOLEAN : Build(verify)
  \/ Put \/ CheckSize \/ ReadBack \/ WriteDatabase \/ WriteKey \/ Kill
  \/ \E id \in Backup, d \in Directory : Restore(id, d)
  \/ \E d \in Directory : PutInPlace(d)

Next == (MigrationNext /\ UNCHANGED backupVars) \/ BackupNext

Spec == Init /\ [][Next]_vars

\* The container is restarted until it serves.
FairSpec == Spec /\ WF_vars(StartStep /\ UNCHANGED backupVars)

-----------------------------------------------------------------------------
(* Properties *)

\* README.md:208-225: what create-verify called verified is the database as it
\* was committed when the command read it; so is what was restored, and a
\* directory that holds both files has the database of one backup with its own
\* key, whatever command died before and whatever is restored twice.
BackupsRestore ==
  /\ \A id \in reported : remote[id].db = taken[id]
  /\ \A d \in Directory : Complete(d) =>
       /\ dir[d].db = dir[d].key
       /\ remote[dir[d].db].db = taken[dir[d].db]

\* A start that nothing stops comes to serve: what a failed one leaves, what a
\* backup taken between two migrations holds, can be upgraded by the next.
UpgradeEnds == Acceptable(origin) ~> start.pc = "serve"
=============================================================================
