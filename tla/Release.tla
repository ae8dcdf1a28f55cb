------------------------------- MODULE Release -------------------------------
(***************************************************************************)
(* A release on the server (scripts/deploy-release.sh): the old service is *)
(* stopped, its database saved, the new image tried out as a candidate and *)
(* then put in its place, or everything is rolled back.  Containers        *)
(* migrate the database when they start (app/database.py, initialize), and *)
(* the service takes uploads meanwhile.                                    *)
(*                                                                         *)
(* One script runs at a time (flock), and its stage_id names one candidate.*)
(* A command that fails has had no effect, except where it says otherwise. *)
(* The volume survives everything; the database on it is a file and its    *)
(* write-ahead log, and a restore begins by removing the log.              *)
(***************************************************************************)
EXTENDS Naturals

CONSTANTS
  Image,     \* images that are released
  SchemaOf,  \* the SCHEMA_VERSION of each image
  None,      \* no image
  Task       \* uploads

ASSUME ReleaseAssumption ==
  /\ None \notin Image
  /\ SchemaOf \in [Image -> Nat \ {0}]

VARIABLES
  container,    \* the candidate and the service
  db,           \* the database on the volume; schema 0: there is none
  mainFile,     \* what its main file holds without the write-ahead log
  script,       \* the release script
  snapshot,     \* the snapshot it made
  report,       \* what the last script said
  told,         \* tasks whose client was given a 201
  provisional,  \* those of them a release that is not over may still undo
  dropped,      \* those whose rows were in a log that a restore removed
  damaged       \* has a script died, reported that its rollback failed, or
                \* restored the database while a container was using it?

volume == <<db, mainFile>>
clientVars == <<told, provisional, dropped>>
vars == <<container, volume, script, snapshot, report, clientVars, damaged>>

-----------------------------------------------------------------------------
Slot == {"candidate", "service"}
\* stuck: docker was told to remove it and did not.
Container == [image : Image \union {None},
              state : {"none", "down", "starting", "serving"},
              stuck : BOOLEAN]
Database == [schema : Nat, tasks : SUBSET Task]

NoContainer == [image |-> None, state |-> "none", stuck |-> FALSE]
NoDatabase == [schema |-> 0, tasks |-> {}]

\* stopped is old_stopped, saved snapshot_created, broken recovery_failed.
\* release_started is saved, or there is no previous image.
Script == [pc : {"idle", "stop", "snapshot", "candidate", "accept", "remove",
                 "cut_over", "check", "prune", "roll_back", "undo", "restore",
                 "start_old", "down"},
           image : Image \union {None}, previous : Image \union {None},
           stopped : BOOLEAN, saved : BOOLEAN, broken : BOOLEAN]

NoScript == [pc |-> "idle", image |-> None, previous |-> None,
             stopped |-> FALSE, saved |-> FALSE, broken |-> FALSE]

\* A database is only saved after the service that uses it was stopped.
ReleaseTypeOK ==
  /\ container \in [Slot -> Container]
  /\ db \in Database /\ mainFile \in Database /\ snapshot \in Database
  /\ script \in Script /\ (script.saved => script.stopped)
  /\ report \in {"none", "success", "restored", "cleaned", "broken"}
  /\ told \subseteq Task /\ provisional \subseteq told /\ dropped \subseteq Task
  /\ damaged \in BOOLEAN

Init ==
  /\ container = [c \in Slot |-> NoContainer]
  /\ db = NoDatabase /\ mainFile = NoDatabase /\ snapshot = NoDatabase
  /\ script = NoScript
  /\ report = "none"
  /\ told = {} /\ provisional = {} /\ dropped = {}
  /\ damaged = FALSE

-----------------------------------------------------------------------------
(* Containers *)

WithRun(c, image) == [container EXCEPT ![c] =
                        [image |-> image, state |-> "starting", stuck |-> FALSE]]
Without(c) == [container EXCEPT ![c] = NoContainer]
Run(c, image) == container' = WithRun(c, image)
Remove(c) == container' = Without(c)

\* remove_candidate: docker rm -f ... || true, a failure goes unnoticed.
Cleaned(slots) ==
  {[slots EXCEPT !["candidate"] = NoContainer]} \union
  IF slots["candidate"] = NoContainer THEN {}
  ELSE {[slots EXCEPT !["candidate"].stuck = TRUE]}
RemoveCandidate == container' \in Cleaned(container)

StopService ==
  container' = [container EXCEPT !["service"].state = IF @ = "none" THEN @ ELSE "down"]

Up(c) == container[c].state \in {"starting", "serving"}
Supported(c) == SchemaOf[container[c].image]

\* initialize(): an empty database gets the image's schema, an older one is
\* migrated version by version, each a transaction.  A newer one is refused:
\* the container keeps being restarted.
Migrate(c) ==
  /\ container[c].state = "starting"
  /\ db.schema < Supported(c)
  /\ db' = [db EXCEPT !.schema = IF @ = 0 THEN Supported(c) ELSE @ + 1]
  /\ UNCHANGED <<container, mainFile, script, snapshot, report, clientVars, damaged>>

Serve(c) ==
  /\ container[c].state = "starting"
  /\ db.schema = Supported(c)
  /\ container' = [container EXCEPT ![c].state = "serving"]
  /\ UNCHANGED <<volume, script, snapshot, report, clientVars, damaged>>

\* SQLite moves the log into the main file, as it does by itself now and then
\* and when a database is closed; a process that is killed leaves its log.
Checkpoint ==
  /\ \E c \in Slot : Up(c)
  /\ mainFile' = db
  /\ UNCHANGED <<container, db, script, snapshot, report, clientVars, damaged>>

Undoable ==
  script.saved /\ script.pc \in {"check", "prune", "roll_back", "undo", "restore"}

\* An upload, from its request to the 201.  The candidate publishes no port.
Upload(t) ==
  /\ container["service"].state = "serving"
  /\ t \notin told
  /\ told' = told \union {t}
  /\ db' = [db EXCEPT !.tasks = @ \union {t}]
  /\ provisional' = IF Undoable THEN provisional \union {t} ELSE provisional
  /\ UNCHANGED <<container, mainFile, script, snapshot, report, dropped, damaged>>

-----------------------------------------------------------------------------
(* The release *)

At(pc) == script.pc = pc
Goto(pc) == script' = [script EXCEPT !.pc = pc]

\* The script ends, saying `what'.
End(what) ==
  /\ script' = NoScript /\ snapshot' = NoDatabase
  /\ report' = what
  /\ IF what = "broken" THEN damaged' = TRUE ELSE UNCHANGED damaged

Begin(i) ==
  LET previous == container["service"].image IN
  /\ At("idle") /\ container["candidate"] = NoContainer
  /\ script' = [NoScript EXCEPT !.image = i, !.previous = previous,
                  !.pc = IF previous = None THEN "candidate" ELSE "stop"]
  /\ report' = "none"
  /\ UNCHANGED <<container, volume, snapshot, clientVars, damaged>>

\* Mistakes: the service is not stopped; the script does not remember it.
StopNothing ==
  /\ At("stop")
  /\ script' = [script EXCEPT !.pc = "snapshot", !.stopped = TRUE]
  /\ UNCHANGED <<container, volume, snapshot, report, clientVars, damaged>>
StopForgotten ==
  /\ At("stop") /\ StopService /\ Goto("snapshot")
  /\ UNCHANGED <<volume, snapshot, report, clientVars, damaged>>

Stop ==
  /\ At("stop") /\ StopService
  /\ script' = [script EXCEPT !.pc = "snapshot", !.stopped = TRUE]
  /\ UNCHANGED <<volume, snapshot, report, clientVars, damaged>>

SaveDatabase ==
  /\ At("snapshot")
  /\ snapshot' = db
  /\ script' = [script EXCEPT !.pc = "candidate", !.saved = TRUE]
  /\ provisional' = provisional \ db.tasks
  /\ UNCHANGED <<container, volume, report, told, dropped, damaged>>

StartCandidate ==
  /\ At("candidate") /\ Run("candidate", script.image) /\ Goto("accept")
  /\ UNCHANGED <<volume, snapshot, report, clientVars, damaged>>

\* The candidate, and later the service, is asked for /healthz and /readyz
\* until it answers, for a minute.
Accept ==
  /\ At("accept") /\ container["candidate"].state = "serving" /\ Goto("remove")
  /\ UNCHANGED <<container, volume, snapshot, report, clientVars, damaged>>

RemoveAccepted ==
  /\ At("remove") /\ RemoveCandidate /\ Goto("cut_over")
  /\ UNCHANGED <<volume, snapshot, report, clientVars, damaged>>

CutOver ==
  /\ At("cut_over") /\ Run("service", script.image) /\ Goto("check")
  /\ UNCHANGED <<volume, snapshot, report, clientVars, damaged>>

\* From here on nothing undoes the release.
Succeed ==
  /\ End("success")
  /\ provisional' = provisional \ db.tasks
  /\ container' \in Cleaned(container)
  /\ UNCHANGED <<volume, told, dropped>>

Check ==
  /\ At("check") /\ container["service"].state = "serving"
  /\ \/ script.saved /\ Goto("prune")
        /\ UNCHANGED <<container, volume, snapshot, report, clientVars, damaged>>
     \/ ~script.saved /\ Succeed

\* Old snapshots are deleted, still under the trap.
Prune == At("prune") /\ Succeed

-----------------------------------------------------------------------------
(* Rolling back *)

\* A command or a probe fails; compose up may have put the new image up.
Fail ==
  /\ script.pc \in {"stop", "snapshot", "candidate", "accept", "cut_over",
                    "check", "prune"}
  /\ Goto("roll_back")
  /\ \/ UNCHANGED container
     \/ At("cut_over") /\ Run("service", script.image)
  /\ UNCHANGED <<volume, snapshot, report, clientVars, damaged>>

RollBack ==
  /\ At("roll_back") /\ RemoveCandidate
  /\ Goto(IF script.previous = None THEN "down"
          ELSE IF script.saved THEN "undo" ELSE "start_old")
  /\ UNCHANGED <<volume, snapshot, report, clientVars, damaged>>

\* Under set +e nobody asks whether the service was stopped.
StopRelease ==
  /\ At("undo") /\ (StopService \/ UNCHANGED container) /\ Goto("restore")
  /\ UNCHANGED <<volume, snapshot, report, clientVars, damaged>>

\* Mistake: the database stays as the new image made it.
RestoreNothing ==
  /\ At("restore") /\ Goto("start_old")
  /\ UNCHANGED <<container, volume, snapshot, report, clientVars, damaged>>

InUse == \E c \in Slot : Up(c)

\* The snapshot is validated, the log removed, the snapshot copied, the copy
\* validated: what was done by the time one of this failed, or all of it.  Of
\* a database that is overwritten in use nothing is known.
LogRemoved ==
  /\ db' = mainFile /\ UNCHANGED mainFile
  /\ dropped' = dropped \union (IF InUse THEN Task ELSE db.tasks \ mainFile.tasks)
Copied ==
  /\ db' = snapshot /\ mainFile' \in {mainFile, snapshot}
  /\ dropped' = dropped \union (IF InUse THEN Task ELSE {})

Restore ==
  /\ At("restore")
  /\ \/ Copied /\ Goto("start_old")
     \/ /\ LogRemoved \/ Copied \/ UNCHANGED <<volume, dropped>>
        /\ script' = [script EXCEPT !.pc = "start_old", !.broken = TRUE]
  /\ damaged' = (damaged \/ InUse)
  /\ UNCHANGED <<container, snapshot, report, told, provisional>>

\* The old image is started whether or not its database is back; that may fail.
StartOld ==
  /\ At("start_old")
  /\ \/ /\ container' \in Cleaned(IF script.stopped THEN WithRun("service", script.previous)
                                  ELSE container)
        /\ End(IF script.broken THEN "broken" ELSE "restored")
     \/ script.stopped /\ RemoveCandidate /\ End("broken")
  /\ UNCHANGED <<volume, clientVars>>

\* The first release of all: there is nothing to go back to.
Down ==
  /\ At("down")
  /\ \/ container' \in Cleaned(Without("service")) /\ End("cleaned")
     \/ RemoveCandidate /\ End("broken")
  /\ UNCHANGED <<volume, clientVars>>

\* The script dies; its EXIT trap may still remove the candidate.
Kill ==
  /\ ~At("idle")
  /\ script' = NoScript /\ snapshot' = NoDatabase /\ damaged' = TRUE
  /\ UNCHANGED container \/ RemoveCandidate
  /\ UNCHANGED <<volume, dropped>> \/ (At("restore") /\ (LogRemoved \/ Copied))
  /\ UNCHANGED <<report, told, provisional>>

\* An operator removes a candidate that a script left behind; the next release
\* waits for that.
Tidy ==
  /\ At("idle") /\ container["candidate"] # NoContainer /\ Remove("candidate")
  /\ UNCHANGED <<volume, script, snapshot, report, clientVars, damaged>>

-----------------------------------------------------------------------------
ScriptStep ==
  \/ Stop \/ SaveDatabase \/ StartCandidate \/ Accept \/ RemoveAccepted
  \/ CutOver \/ Check \/ Prune
  \/ Fail \/ RollBack \/ StopRelease \/ Restore \/ StartOld \/ Down

Next ==
  \/ \E i \in Image : Begin(i)
  \/ ScriptStep \/ Kill \/ Tidy
  \/ \E c \in Slot : Migrate(c) \/ Serve(c)
  \/ Checkpoint
  \/ \E t \in Task : Upload(t)

Spec == Init /\ [][Next]_vars

\* A script that is not killed goes on, every wait in it being bounded.
FairSpec == Spec /\ WF_vars(ScriptStep)

-----------------------------------------------------------------------------
(* Properties *)

\* No client loses a task that was stored before the new image took uploads,
\* whatever command fails, whenever a script is killed, and however many
\* releases follow, but for what a failing restore has removed with the log
\* (app/deploy_backups.py:31-32); and no script that did so ends as if it had
\* not, unless docker had not stopped what was using the database.
TasksKept ==
  /\ told \ (provisional \union dropped) \subseteq db.tasks
  /\ dropped # {} => script.broken \/ damaged

\* Two processes never work on the database at once: recovery and retention
\* are written for one.  Only a candidate that docker fails to remove, which
\* the script passes over, may go on beside the service, and then both are of
\* one image: neither migrates the database away from the other.
OneProcess ==
  ~damaged /\ Up("candidate") /\ Up("service") =>
    /\ container["candidate"].stuck
    /\ container["candidate"].image = container["service"].image

\* What a script says is so: after "success" or "restored" a service runs that
\* can open the database.
ReportHolds ==
  report \in {"success", "restored"} /\ ~damaged =>
    Up("service") /\ db.schema <= Supported("service")

\* A service that was stopped for a release is started again, with the old
\* image or the new one, unless the script dies or says that it failed.
BackInService == container["service"].state = "down" ~> Up("service") \/ damaged
==============================================================================
