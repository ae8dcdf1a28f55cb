--------------------------- MODULE Release_proofs ---------------------------
(***************************************************************************)
(* Proofs about Release and ReleaseSnapshots, for every set of images,     *)
(* schema versions and uploads, and for every limit on the files that the  *)
(* releases leave.                                                         *)
(***************************************************************************)
EXTENDS ReleaseSnapshots, Sums

-----------------------------------------------------------------------------
(* The inductive invariant *)

\* What the flags of the script say about where it is.
Flags ==
  /\ script.pc = "idle" => script = NoScript
  /\ script.pc # "idle" => script.image # None /\ report = "none"
  /\ script.stopped => script.previous # None
  /\ script.pc = "stop" => script.previous # None /\ ~script.stopped
  /\ script.pc = "snapshot" => script.stopped /\ ~script.saved
  /\ script.pc \in {"candidate", "accept", "remove", "cut_over", "check"}
       => script.previous = None \/ script.saved
  /\ script.pc \in {"prune", "undo", "restore"} => script.saved
  /\ script.pc = "start_old" => script.previous # None
  /\ script.pc = "down" => script.previous = None
  /\ script.broken => script.pc = "start_old"

\* A container has an image.
Slots == \A c \in Slot : container[c].image = None <=> container[c].state = "none"

\* The script works on the database while no service does.
Resting ==
  \/ script.pc \in {"snapshot", "candidate", "accept", "remove", "cut_over"}
  \/ script.pc = "roll_back" /\ script.stopped /\ ~script.saved
Still == Resting => ~Up("service")

\* Tasks are in the database and, while it may be restored, in the snapshot.
Saved ==
  script.saved /\ script.pc # "start_old" =>
    told \ (provisional \union dropped) \subseteq snapshot.tasks

\* The candidate runs while the service rests, but for one that docker did not
\* remove, beside a service of the same image.
Alone ==
  ~damaged /\ container["candidate"] # NoContainer =>
    /\ Up("candidate")
    /\ script.previous = None \/ script.saved
    /\ script.pc \in {"accept", "remove", "cut_over", "check", "prune", "roll_back",
                      "undo", "restore", "down", "idle"}
    /\ script.pc # "idle" => container["candidate"].image = script.image
    /\ script.pc \in {"cut_over", "check", "prune", "undo", "restore", "down", "idle"}
         => container["candidate"].stuck
    /\ Up("service") => /\ container["candidate"].stuck
                        /\ container["service"].image = container["candidate"].image

\* Whichever image is next to run can open the database it will find.
Opens ==
  ~damaged =>
    /\ script.pc = "idle" /\ container["service"].image # None =>
         Up("service") /\ db.schema <= Supported("service")
    /\ /\ script.pc \in {"stop", "snapshot", "roll_back", "start_old"}
       /\ script.previous # None /\ ~script.saved
       => /\ container["service"].image = script.previous
          /\ db.schema <= SchemaOf[script.previous]
          /\ ~script.stopped => Up("service")
    /\ script.pc = "start_old" /\ script.stopped => ~Up("service") /\ ~Up("candidate")
    /\ script.saved => snapshot.schema <= SchemaOf[script.previous]
    /\ script.pc = "start_old" /\ ~script.broken =>
         db.schema <= SchemaOf[script.previous]
    /\ container["service"].state = "serving" => db.schema <= Supported("service")

\* What was not stopped is the old service, what was accepted serves, and what
\* was reported runs.
Reported ==
  /\ /\ script.pc \in {"stop", "roll_back", "start_old"}
     /\ script.previous # None /\ ~script.stopped
     => container["service"].image = script.previous
  /\ script.pc \in {"check", "prune"} => container["service"].image = script.image
  /\ script.pc = "prune" => container["service"].state = "serving"
  /\ report \in {"success", "restored"} => container["service"].image # None

RInv ==
  /\ ReleaseTypeOK /\ Flags /\ Slots
  /\ Still
  /\ TasksKept /\ Saved
  /\ Alone
  /\ Opens /\ Reported

-----------------------------------------------------------------------------
(* It is inductive *)

\* Before the first release.
LEMMA InitHolds == Init => RInv
<1> SUFFICES ASSUME Init PROVE RInv
  OBVIOUS
<1> USE ReleaseAssumption
    DEF Init, NoScript, NoDatabase, NoContainer, Slot
<1>1. ReleaseTypeOK
  <2>1. container \in [Slot -> Container] /\ script \in Script
    BY DEF Container, Script
  <2> QED BY <2>1 DEF ReleaseTypeOK, Database
<1>2. Flags /\ Slots /\ Still
  BY DEF Flags, Slots, Still, Resting
<1>3. TasksKept /\ Saved /\ Alone /\ Opens /\ Reported
  BY DEF TasksKept, Saved, Alone, Opens, Reported
<1> QED BY <1>1, <1>2, <1>3 DEF RInv

\* What it means that the script ends.
LEMMA Ended ==
  ASSUME ReleaseTypeOK, NEW what \in {"success", "restored", "cleaned", "broken"},
         End(what)
  PROVE  /\ script' = NoScript /\ script' \in Script
         /\ snapshot' \in Database /\ report' = what
         /\ damaged' \in BOOLEAN
         /\ ~damaged' => ~damaged /\ what # "broken"
BY DEF End, NoScript, Script, NoDatabase, Database, ReleaseTypeOK

\* A candidate that is to be removed is gone, or stuck.
LEMMA Cleans ==
  ASSUME NEW slots \in [Slot -> Container], NEW left \in Cleaned(slots)
  PROVE  /\ left \in [Slot -> Container] /\ left["service"] = slots["service"]
         /\ \/ left["candidate"] = NoContainer
            \/ /\ slots["candidate"] # NoContainer
               /\ left["candidate"] = [slots["candidate"] EXCEPT !.stuck = TRUE]
<1> USE DEF Slot, Container, NoContainer
<1>1. CASE left = [slots EXCEPT !["candidate"] = NoContainer]
  BY <1>1
<1>2. CASE /\ slots["candidate"] # NoContainer
           /\ left = [slots EXCEPT !["candidate"].stuck = TRUE]
  BY <1>2
<1> QED BY <1>1, <1>2 DEF Cleaned

\* What containers, clients and operators do.
LEMMA WorldKeeps ==
  ASSUME RInv,
         (\E c \in Slot : Migrate(c)) \/ (\E c \in Slot : Serve(c)) \/
         (\E t \in Task : Upload(t)) \/ Checkpoint \/ Kill \/ Tidy
  PROVE  RInv'
<1> USE ReleaseAssumption
    DEF Slot, Container, Database, Script, NoContainer, NoDatabase, NoScript,
        volume, clientVars, Run, WithRun, Remove, Without
<1>1. ASSUME NEW c \in Slot, Migrate(c) PROVE RInv'
  <2>1. ReleaseTypeOK' /\ Flags' /\ Slots'
    BY <1>1 DEF Migrate, RInv, ReleaseTypeOK, Flags, Slots, Supported, Up
  <2>2. Still'
    BY <1>1 DEF Migrate, RInv, ReleaseTypeOK, Flags, Slots, Still, Resting,
       Supported, Up
  <2>3. TasksKept' /\ Saved'
    BY <1>1 DEF Migrate, RInv, ReleaseTypeOK, Flags, Still, Resting,
       TasksKept, Saved, Supported, Up
  <2>4. Alone'
    BY <1>1 DEF Migrate, RInv, ReleaseTypeOK, Flags, Slots, Still, Resting,
       Alone, Supported, Up
  <2>5. Opens'
    BY <1>1 DEF Migrate, RInv, ReleaseTypeOK, Flags, Slots, Still, Resting,
       Alone, Opens, Reported, Supported, Up
  <2>6. Reported'
    BY <1>1 DEF Migrate, RInv, ReleaseTypeOK, Flags, Slots, Still, Resting,
       Reported, Supported, Up
  <2> QED BY <2>1, <2>2, <2>3, <2>4, <2>5, <2>6 DEF RInv
<1>2. ASSUME NEW c \in Slot, Serve(c) PROVE RInv'
  <2>1. ReleaseTypeOK' /\ Flags' /\ Slots'
    BY <1>2 DEF Serve, RInv, ReleaseTypeOK, Flags, Slots, Supported, Up
  <2>2. Still'
    BY <1>2 DEF Serve, RInv, ReleaseTypeOK, Flags, Slots, Still, Resting,
       Supported, Up
  <2>3. TasksKept' /\ Saved'
    BY <1>2 DEF Serve, RInv, ReleaseTypeOK, Flags, Still, Resting, TasksKept,
       Saved, Supported, Up
  <2>4. Alone'
    <3>1. \A d \in Slot : /\ container'[d].image = container[d].image
                          /\ container'[d].stuck = container[d].stuck
                          /\ container'[d].state = container[d].state
                             \/ /\ container[d].state = "starting"
                                /\ container'[d].state = "serving"
      BY <1>2 DEF Serve, RInv, ReleaseTypeOK
    <3>2. /\ Up("candidate")' <=> Up("candidate")
          /\ Up("service")' <=> Up("service")
      BY <3>1 DEF Up
    <3>3. container'["candidate"] # NoContainer => container["candidate"] # NoContainer
      <4>1. CASE c = "candidate"
        BY <1>2, <4>1 DEF Serve
      <4>2. CASE c # "candidate"
        BY <1>2, <4>2 DEF Serve, RInv, ReleaseTypeOK
      <4> QED BY <4>1, <4>2
    <3>4. script' = script /\ damaged' = damaged
      BY <1>2 DEF Serve
    <3>5. Alone
      BY DEF RInv
    <3> QED BY <3>1, <3>2, <3>3, <3>4, <3>5 DEF Alone
  <2>5. Opens'
    BY <1>2 DEF Serve, RInv, ReleaseTypeOK, Flags, Slots, Still, Resting, Alone,
       Opens, Reported, Supported, Up
  <2>6. Reported'
    BY <1>2 DEF Serve, RInv, ReleaseTypeOK, Flags, Slots, Still, Resting, Alone,
       Reported, Supported, Up
  <2> QED BY <2>1, <2>2, <2>3, <2>4, <2>5, <2>6 DEF RInv
<1>3. ASSUME NEW t \in Task, Upload(t) PROVE RInv'
  <2>1. ReleaseTypeOK' /\ Flags' /\ Slots'
    BY <1>3 DEF Upload, RInv, ReleaseTypeOK, Flags, Slots, Undoable, Supported,
       Up
  <2>2. Still'
    BY <1>3 DEF Upload, RInv, ReleaseTypeOK, Flags, Slots, Still, Resting,
       Undoable, Supported, Up
  <2>3. TasksKept' /\ Saved'
    BY <1>3 DEF Upload, RInv, ReleaseTypeOK, Flags, Still, Resting, TasksKept,
       Saved, Undoable, Supported, Up
  <2>4. Alone'
    BY <1>3 DEF Upload, RInv, ReleaseTypeOK, Flags, Slots, Still, Resting,
       Alone, Reported, Undoable, Supported, Up
  <2>5. Opens'
    BY <1>3 DEF Upload, RInv, ReleaseTypeOK, Flags, Slots, Still, Resting,
       Alone, Opens, Reported, Undoable, Supported, Up
  <2>6. Reported'
    BY <1>3 DEF Upload, RInv, ReleaseTypeOK, Flags, Slots, Still, Resting,
       Alone, Reported, Undoable, Supported, Up
  <2> QED BY <2>1, <2>2, <2>3, <2>4, <2>5, <2>6 DEF RInv
<1>4. CASE Kill
  <2>1. /\ container' \in [Slot -> Container] /\ container'["service"] = container["service"]
        /\ \/ container'["candidate"] = NoContainer \/ container' = container
           \/ /\ container["candidate"] # NoContainer
              /\ container'["candidate"] = [container["candidate"] EXCEPT !.stuck = TRUE]
    BY <1>4, Cleans DEF Kill, RemoveCandidate, RInv, ReleaseTypeOK
  <2>2. /\ db' \in Database /\ mainFile' \in Database /\ dropped' \subseteq Task
        /\ told \ (provisional \union dropped') \subseteq db'.tasks
    BY <1>4 DEF Kill, LogRemoved, Copied, InUse, RInv, ReleaseTypeOK, Flags, At,
       TasksKept, Saved
  <2>3. /\ script' = NoScript /\ snapshot' = NoDatabase /\ damaged' = TRUE
        /\ report' = report /\ report = "none" /\ told' = told /\ provisional' = provisional
    BY <1>4 DEF Kill, RInv, Flags, At
  <2>4. ReleaseTypeOK' /\ Flags' /\ Slots'
    BY <2>1, <2>2, <2>3 DEF RInv, ReleaseTypeOK, Flags, Slots
  <2>5. TasksKept' /\ Saved'
    BY <2>2, <2>3 DEF TasksKept, Saved
  <2>6. Still' /\ Alone' /\ Opens' /\ Reported'
    BY <2>3 DEF Still, Resting, Alone, Opens, Reported
  <2> QED BY <2>4, <2>5, <2>6 DEF RInv
<1>5. CASE Tidy
  BY <1>5 DEF Tidy, RInv, ReleaseTypeOK, Flags, Slots, Still, Resting,
     TasksKept, Saved, Alone, Opens, Reported, At, Up, Supported
<1>6. CASE Checkpoint
  BY <1>6 DEF Checkpoint, RInv, ReleaseTypeOK, Flags, Slots, Still, Resting,
     TasksKept, Saved, Alone, Opens, Reported, Up, Supported
<1> QED BY <1>1, <1>2, <1>3, <1>4, <1>5, <1>6

\* What it means that a release succeeds.
LEMMA SuccessKeeps ==
  ASSUME RInv, Succeed, script.pc \in {"check", "prune"},
         container["service"].state = "serving"
  PROVE  RInv'
<1> USE ReleaseAssumption
    DEF Slot, Container, Database, Script, NoContainer, NoDatabase, NoScript
<1>1. /\ container' \in [Slot -> Container] /\ container'["service"] = container["service"]
      /\ \/ container'["candidate"] = NoContainer
         \/ /\ container["candidate"] # NoContainer
            /\ container'["candidate"] = [container["candidate"] EXCEPT !.stuck = TRUE]
  BY Cleans DEF Succeed, RInv, ReleaseTypeOK
<1>2. /\ script' = NoScript /\ script' \in Script
      /\ snapshot' \in Database /\ report' = "success"
      /\ damaged' \in BOOLEAN /\ (~damaged' => ~damaged)
  BY Ended DEF Succeed, RInv
<1>3. /\ db' = db /\ mainFile' = mainFile /\ told' = told /\ dropped' = dropped
      /\ provisional' = provisional \ db.tasks /\ (damaged => damaged')
      /\ ~script.broken
  BY DEF Succeed, End, volume, RInv, Flags
<1>4. ReleaseTypeOK' /\ Flags' /\ Slots'
  BY <1>1, <1>2, <1>3 DEF RInv, ReleaseTypeOK, Flags, Slots
<1>5. Still' /\ TasksKept' /\ Saved'
  BY <1>2, <1>3 DEF RInv, Still, Resting, TasksKept, Saved
<1>6. Alone' /\ Opens' /\ Reported'
  BY <1>1, <1>2, <1>3 DEF RInv, Alone, Opens, Reported, Slots, Up, Supported
<1> QED BY <1>4, <1>5, <1>6 DEF RInv

\* What a release does that goes well.
LEMMA ReleaseKeeps ==
  ASSUME RInv,
         (\E i \in Image : Begin(i)) \/ Stop \/ SaveDatabase \/
         StartCandidate \/ Accept \/ RemoveAccepted \/ CutOver \/
         Check \/ Prune
  PROVE  RInv'
<1> USE ReleaseAssumption
    DEF Slot, Container, Database, Script, NoContainer, NoDatabase, NoScript,
        volume, clientVars, Run, WithRun, Remove, Without
<1>1. ASSUME NEW i \in Image, Begin(i) PROVE RInv'
  <2>1. ReleaseTypeOK' /\ Flags' /\ Slots'
    BY <1>1 DEF Begin, RInv, ReleaseTypeOK, Flags, Slots, At, Up, Supported
  <2>2. Still'
    BY <1>1 DEF Begin, RInv, ReleaseTypeOK, Flags, Slots, Still, Resting, At,
       Up, Supported
  <2>3. TasksKept' /\ Saved'
    BY <1>1 DEF Begin, RInv, ReleaseTypeOK, Flags, Still, Resting, TasksKept,
       Saved, At, Up, Supported
  <2>4. Alone'
    BY <1>1 DEF Begin, RInv, ReleaseTypeOK, Flags, Slots, Still, Resting,
       Alone, At, Up, Supported
  <2>5. Opens'
    BY <1>1 DEF Begin, RInv, ReleaseTypeOK, Flags, Slots, Still, Resting,
       Alone, Opens, Reported, At, Up, Supported
  <2>6. Reported'
    BY <1>1 DEF Begin, RInv, ReleaseTypeOK, Flags, Slots, Still, Resting,
       Reported, At, Up, Supported
  <2> QED BY <2>1, <2>2, <2>3, <2>4, <2>5, <2>6 DEF RInv
<1>2. CASE Stop
  <2>1. ReleaseTypeOK' /\ Flags' /\ Slots'
    BY <1>2 DEF Stop, RInv, ReleaseTypeOK, Flags, Slots, At, StopService, Up,
       Supported
  <2>2. Still'
    BY <1>2 DEF Stop, RInv, ReleaseTypeOK, Flags, Slots, Still, Resting, At,
       StopService, Up, Supported
  <2>3. TasksKept' /\ Saved'
    BY <1>2 DEF Stop, RInv, ReleaseTypeOK, Flags, Still, Resting, TasksKept,
       Saved, At, StopService, Up, Supported
  <2>4. Alone'
    BY <1>2 DEF Stop, RInv, ReleaseTypeOK, Flags, Slots, Still, Resting,
       Alone, At, StopService, Up, Supported
  <2>5. Opens'
    BY <1>2 DEF Stop, RInv, ReleaseTypeOK, Flags, Slots, Still, Resting,
       Alone, Opens, Reported, At, StopService, Up, Supported
  <2>6. Reported'
    BY <1>2 DEF Stop, RInv, ReleaseTypeOK, Flags, Slots, Still, Resting,
       Reported, At, StopService, Up, Supported
  <2> QED BY <2>1, <2>2, <2>3, <2>4, <2>5, <2>6 DEF RInv
<1>3. CASE SaveDatabase
  <2>1. ReleaseTypeOK' /\ Flags' /\ Slots'
    BY <1>3 DEF SaveDatabase, RInv, ReleaseTypeOK, Flags, Slots, At, Up,
       Supported
  <2>2. Still'
    BY <1>3 DEF SaveDatabase, RInv, ReleaseTypeOK, Flags, Slots, Still,
       Resting, At, Up, Supported
  <2>3. TasksKept' /\ Saved'
    BY <1>3 DEF SaveDatabase, RInv, ReleaseTypeOK, Flags, Still, Resting,
       TasksKept, Saved, At, Up, Supported
  <2>4. Alone'
    BY <1>3 DEF SaveDatabase, RInv, ReleaseTypeOK, Flags, Slots, Still,
       Resting, Alone, At, Up, Supported
  <2>5. Opens'
    BY <1>3 DEF SaveDatabase, RInv, ReleaseTypeOK, Flags, Slots, Still,
       Resting, Alone, Opens, Reported, At, Up, Supported
  <2>6. Reported'
    BY <1>3 DEF SaveDatabase, RInv, ReleaseTypeOK, Flags, Slots, Still,
       Resting, Reported, At, Up, Supported
  <2> QED BY <2>1, <2>2, <2>3, <2>4, <2>5, <2>6 DEF RInv
<1>4. CASE StartCandidate
  BY <1>4 DEF StartCandidate, RInv, ReleaseTypeOK, Flags, Slots, Still,
     Resting, TasksKept, Saved, Alone, Opens, Reported, At, Goto, Up,
     Supported
<1>5. CASE Accept
  BY <1>5 DEF Accept, RInv, ReleaseTypeOK, Flags, Slots, Still, Resting,
     TasksKept, Saved, Alone, Opens, Reported, At, Goto, Up, Supported
<1>6. CASE RemoveAccepted
  <2>1. /\ container' \in [Slot -> Container] /\ container'["service"] = container["service"]
        /\ \/ container'["candidate"] = NoContainer
           \/ /\ container["candidate"] # NoContainer
              /\ container'["candidate"] = [container["candidate"] EXCEPT !.stuck = TRUE]
    BY <1>6, Cleans DEF RemoveAccepted, RemoveCandidate, RInv, ReleaseTypeOK
  <2>2. ReleaseTypeOK' /\ Flags' /\ Slots'
    BY <1>6, <2>1 DEF RemoveAccepted, RInv, ReleaseTypeOK, Flags, Slots, At,
       Goto, Supported, Up
  <2>3. Still'
    BY <1>6, <2>1 DEF RemoveAccepted, RInv, ReleaseTypeOK, Flags, Slots, Still,
       Resting, At, Goto, Supported, Up
  <2>4. TasksKept' /\ Saved'
    BY <1>6, <2>1 DEF RemoveAccepted, RInv, ReleaseTypeOK, Flags, Still,
       Resting, TasksKept, Saved, At, Goto, Supported, Up
  <2>5. Alone'
    BY <1>6, <2>1 DEF RemoveAccepted, RInv, ReleaseTypeOK, Flags, Slots, Still,
       Resting, Alone, Reported, At, Goto, Supported, Up
  <2>6. Opens'
    BY <1>6, <2>1 DEF RemoveAccepted, RInv, ReleaseTypeOK, Flags, Slots, Still,
       Resting, Alone, Opens, Reported, At, Goto, Supported, Up
  <2>7. Reported'
    BY <1>6, <2>1 DEF RemoveAccepted, RInv, ReleaseTypeOK, Flags, Slots, Still,
       Resting, Alone, Reported, At, Goto, Supported, Up
  <2> QED BY <2>2, <2>3, <2>4, <2>5, <2>6, <2>7 DEF RInv
<1>7. CASE CutOver
  <2>1. ReleaseTypeOK' /\ Flags' /\ Slots'
    BY <1>7 DEF CutOver, RInv, ReleaseTypeOK, Flags, Slots, At, Goto, Supported,
       Up
  <2>2. Still'
    BY <1>7 DEF CutOver, RInv, ReleaseTypeOK, Flags, Slots, Still, Resting, At,
       Goto, Supported, Up
  <2>3. TasksKept' /\ Saved'
    BY <1>7 DEF CutOver, RInv, ReleaseTypeOK, Flags, Still, Resting, TasksKept,
       Saved, At, Goto, Supported, Up
  <2>4. Alone'
    BY <1>7 DEF CutOver, RInv, ReleaseTypeOK, Flags, Slots, Still, Resting,
       Alone, Reported, At, Goto, Supported, Up
  <2>5. Opens'
    BY <1>7 DEF CutOver, RInv, ReleaseTypeOK, Flags, Slots, Still, Resting,
       Alone, Opens, Reported, At, Goto, Supported, Up
  <2>6. Reported'
    BY <1>7 DEF CutOver, RInv, ReleaseTypeOK, Flags, Slots, Still, Resting,
       Alone, Reported, At, Goto, Supported, Up
  <2> QED BY <2>1, <2>2, <2>3, <2>4, <2>5, <2>6 DEF RInv
<1>8. CASE Check
  <2>1. CASE script.saved
    <3>1. ReleaseTypeOK' /\ Flags' /\ Slots'
      BY <1>8, <2>1 DEF Check, RInv, ReleaseTypeOK, Flags, Slots, At, Goto,
         Succeed, End, Up, Supported
    <3>2. Still'
      BY <1>8, <2>1 DEF Check, RInv, ReleaseTypeOK, Flags, Slots, Still,
         Resting, At, Goto, Succeed, End, Up, Supported
    <3>3. TasksKept' /\ Saved'
      BY <1>8, <2>1 DEF Check, RInv, ReleaseTypeOK, Flags, Still, Resting,
         TasksKept, Saved, At, Goto, Succeed, End, Up, Supported
    <3>4. Alone'
      BY <1>8, <2>1 DEF Check, RInv, ReleaseTypeOK, Flags, Slots, Still,
         Resting, Alone, At, Goto, Succeed, End, Up, Supported
    <3>5. Opens'
      BY <1>8, <2>1 DEF Check, RInv, ReleaseTypeOK, Flags, Slots, Still,
         Resting, Alone, Opens, Reported, At, Goto, Succeed, End, Up, Supported
    <3>6. Reported'
      BY <1>8, <2>1 DEF Check, RInv, ReleaseTypeOK, Flags, Slots, Still,
         Resting, Reported, At, Goto, Succeed, End, Up, Supported
    <3> QED BY <3>1, <3>2, <3>3, <3>4, <3>5, <3>6 DEF RInv
  <2>2. CASE ~script.saved
    <3>1. Succeed
      BY <1>8, <2>2 DEF Check
    <3> QED BY <1>8, <3>1, SuccessKeeps DEF Check, At, RInv, Reported
  <2> QED BY <2>1, <2>2
<1>9. CASE Prune
  BY <1>9, SuccessKeeps DEF Prune, At, RInv, Reported
<1> QED BY <1>1, <1>2, <1>3, <1>4, <1>5, <1>6, <1>7, <1>8, <1>9

\* What its failure leads to.
LEMMA RollbackKeeps ==
  ASSUME RInv,
         Fail \/ RollBack \/ StopRelease \/ Restore \/ StartOld \/
         Down
  PROVE  RInv'
<1> USE ReleaseAssumption
    DEF Slot, Container, Database, Script, NoContainer, NoDatabase, NoScript,
        volume, clientVars, Run, WithRun, Remove, Without
<1>1. CASE Fail
  <2>1. /\ \/ container' = container
           \/ script.pc = "cut_over" /\ Run("service", script.image)
        /\ script' = [script EXCEPT !.pc = "roll_back"]
        /\ script.pc \in {"stop", "snapshot", "candidate", "accept", "cut_over",
                          "check", "prune"}
        /\ UNCHANGED <<volume, snapshot, report, clientVars, damaged>>
    BY <1>1 DEF Fail, At, Goto
  <2>2. /\ container' \in [Slot -> Container]
        /\ container'["candidate"] = container["candidate"]
        /\ \/ container'["service"] = container["service"]
           \/ /\ script.pc = "cut_over"
              /\ container'["service"] = [image |-> script.image, state |-> "starting",
                                         stuck |-> FALSE]
    <3>1. script.image \in Image \union {None} /\ container \in [Slot -> Container]
      BY DEF RInv, ReleaseTypeOK
    <3>2. CASE container' = container
      BY <3>1, <3>2
    <3>3. CASE script.pc = "cut_over" /\ Run("service", script.image)
      BY <3>1, <3>3
    <3> QED BY <2>1, <3>2, <3>3
  <2>3. script'.pc = "roll_back" /\ script' \in Script
    BY <2>1 DEF RInv, ReleaseTypeOK
  <2>4. ReleaseTypeOK' /\ Flags' /\ Slots'
    BY <2>1, <2>2, <2>3 DEF RInv, ReleaseTypeOK, Flags, Slots, Supported, Up
  <2>5. Still'
    BY <2>1 DEF RInv, ReleaseTypeOK, Flags, Slots, Still, Resting, Supported, Up
  <2>6. TasksKept' /\ Saved'
    BY <2>1 DEF RInv, ReleaseTypeOK, Flags, Still, Resting, TasksKept, Saved,
       Supported, Up
  <2>7. Alone'
    BY <2>1, <2>2, <2>3 DEF RInv, ReleaseTypeOK, Flags, Slots, Still, Resting, Alone,
       Reported, Supported, Up
  <2>8. Opens'
    BY <2>1 DEF RInv, ReleaseTypeOK, Flags, Slots, Still, Resting, Alone, Opens,
       Reported, Supported, Up
  <2>9. Reported'
    BY <2>1 DEF RInv, ReleaseTypeOK, Flags, Slots, Still, Resting, Alone,
       Reported, Supported, Up
  <2> QED BY <2>4, <2>5, <2>6, <2>7, <2>8, <2>9 DEF RInv
<1>2. CASE RollBack
  <2>1. /\ container' \in [Slot -> Container] /\ container'["service"] = container["service"]
        /\ \/ container'["candidate"] = NoContainer
           \/ /\ container["candidate"] # NoContainer
              /\ container'["candidate"] = [container["candidate"] EXCEPT !.stuck = TRUE]
    BY <1>2, Cleans DEF RollBack, RemoveCandidate, RInv, ReleaseTypeOK
  <2>2. ReleaseTypeOK' /\ Flags' /\ Slots'
    BY <1>2, <2>1 DEF RollBack, RInv, ReleaseTypeOK, Flags, Slots, At, Goto,
       Supported, Up
  <2>3. Still'
    BY <1>2, <2>1 DEF RollBack, RInv, ReleaseTypeOK, Flags, Slots, Still,
       Resting, At, Goto, Supported, Up
  <2>4. TasksKept' /\ Saved'
    BY <1>2, <2>1 DEF RollBack, RInv, ReleaseTypeOK, Flags, Still, Resting,
       TasksKept, Saved, At, Goto, Supported, Up
  <2>5. Alone'
    BY <1>2, <2>1 DEF RollBack, RInv, ReleaseTypeOK, Flags, Slots, Still,
       Resting, Alone, Reported, At, Goto, Supported, Up
  <2>6. Opens'
    BY <1>2, <2>1 DEF RollBack, RInv, ReleaseTypeOK, Flags, Slots, Still,
       Resting, Alone, Opens, Reported, At, Goto, Supported, Up
  <2>7. Reported'
    BY <1>2, <2>1 DEF RollBack, RInv, ReleaseTypeOK, Flags, Slots, Still,
       Resting, Alone, Reported, At, Goto, Supported, Up
  <2> QED BY <2>2, <2>3, <2>4, <2>5, <2>6, <2>7 DEF RInv
<1>3. CASE StopRelease
  <2>1. ReleaseTypeOK' /\ Flags' /\ Slots'
    BY <1>3 DEF StopRelease, RInv, ReleaseTypeOK, Flags, Slots, At, Goto,
       StopService, Supported, Up
  <2>2. Still'
    BY <1>3 DEF StopRelease, RInv, ReleaseTypeOK, Flags, Slots, Still, Resting,
       At, Goto, StopService, Supported, Up
  <2>3. TasksKept' /\ Saved'
    BY <1>3 DEF StopRelease, RInv, ReleaseTypeOK, Flags, Still, Resting,
       TasksKept, Saved, At, Goto, StopService, Supported, Up
  <2>4. Alone'
    <3>1. /\ container'["candidate"] = container["candidate"]
          /\ container'["service"].image = container["service"].image
          /\ Up("service")' => Up("service")
      BY <1>3 DEF StopRelease, StopService, RInv, ReleaseTypeOK, Up
    <3>2. /\ script.pc = "undo" /\ script'.pc = "restore" /\ damaged' = damaged
          /\ script'.previous = script.previous /\ script'.saved = script.saved
          /\ script'.image = script.image
      BY <1>3 DEF StopRelease, At, Goto, RInv, ReleaseTypeOK
    <3> QED BY <3>1, <3>2 DEF RInv, Alone, Up
  <2>5. Opens'
    BY <1>3 DEF StopRelease, RInv, ReleaseTypeOK, Flags, Slots, Still, Resting,
       Alone, Opens, Reported, At, Goto, StopService, Supported, Up
  <2>6. Reported'
    BY <1>3 DEF StopRelease, RInv, ReleaseTypeOK, Flags, Slots, Still, Resting,
       Alone, Reported, At, Goto, StopService, Supported, Up
  <2> QED BY <2>1, <2>2, <2>3, <2>4, <2>5, <2>6 DEF RInv
<1>4. CASE Restore
  <2>1. /\ db' \in Database /\ mainFile' \in Database /\ dropped' \subseteq Task
        /\ dropped \subseteq dropped' /\ damaged' \in BOOLEAN
        /\ container' = container /\ snapshot' = snapshot /\ report' = report
        /\ told' = told /\ provisional' = provisional
        /\ script'.pc = "start_old" /\ script' \in Script
        /\ script' = [script EXCEPT !.pc = "start_old", !.broken = script'.broken]
        /\ script.pc = "restore"
        /\ ~damaged' => ~damaged /\ ~Up("candidate") /\ ~Up("service")
    BY <1>4 DEF Restore, LogRemoved, Copied, InUse, RInv, ReleaseTypeOK, Flags, At, Goto, Up
  <2>2. /\ told \ (provisional \union dropped') \subseteq db'.tasks
        /\ ~script'.broken => db' = snapshot /\ (dropped' = dropped \/ damaged')
    BY <1>4 DEF Restore, LogRemoved, Copied, InUse, RInv, ReleaseTypeOK, Flags, At, Goto, Up,
       TasksKept, Saved
  <2>3. ReleaseTypeOK' /\ Flags' /\ Slots'
    BY <2>1, <2>2 DEF RInv, ReleaseTypeOK, Flags, Slots
  <2>4. TasksKept' /\ Saved'
    BY <2>1, <2>2 DEF RInv, TasksKept, Saved, Flags
  <2>5. Still' /\ Alone'
    BY <2>1 DEF RInv, Still, Resting, Alone, Slots, Up
  <2>6. Opens' /\ Reported'
    BY <2>1, <2>2 DEF RInv, ReleaseTypeOK, Flags, Opens, Reported, Up, Supported
  <2> QED BY <2>3, <2>4, <2>5, <2>6 DEF RInv
<1>5. CASE StartOld
  <2>1. PICK what \in {"restored", "broken"}, slots \in [Slot -> Container] :
          /\ End(what) /\ container' \in Cleaned(slots)
          /\ slots["candidate"] = container["candidate"]
          /\ \/ slots["service"] = container["service"]
             \/ /\ script.stopped
                /\ slots["service"] = [image |-> script.previous, state |-> "starting",
                                       stuck |-> FALSE]
          /\ what # "broken" =>
               ~script.broken /\ (script.stopped => slots["service"].image = script.previous
                                                   /\ slots["service"].state = "starting")
    <3> DEFINE restarted == WithRun("service", script.previous)
    <3>1. CASE script.stopped /\ container' \in Cleaned(restarted)
      <4>1. script.previous \in Image \union {None} /\ restarted \in [Slot -> Container]
        BY DEF RInv, ReleaseTypeOK
      <4>2. End("broken") \/ (End("restored") /\ ~script.broken)
        <5>1. CASE script.broken
          BY <1>5, <5>1 DEF StartOld
        <5>2. CASE ~script.broken
          BY <1>5, <5>2 DEF StartOld
        <5> QED BY <5>1, <5>2
      <4>3. /\ restarted["candidate"] = container["candidate"]
            /\ restarted["service"] = [image |-> script.previous, state |-> "starting",
                                       stuck |-> FALSE]
        BY DEF RInv, ReleaseTypeOK
      <4> HIDE DEF restarted
      <4>4. CASE End("broken")
        BY <3>1, <4>1, <4>3, <4>4
      <4>5. CASE End("restored") /\ ~script.broken
        <5>1. restarted["service"].image = script.previous
              /\ restarted["service"].state = "starting"
          BY <4>3
        <5>2. /\ End("restored") /\ container' \in Cleaned(restarted)
              /\ restarted["candidate"] = container["candidate"]
              /\ script.stopped /\ ~script.broken
          BY <3>1, <4>3, <4>5
        <5> QED BY <4>1, <4>3, <5>1, <5>2
      <4> QED BY <4>2, <4>4, <4>5
    <3>2. CASE /\ container' \in Cleaned(container)
               /\ End("broken") \/ (End("restored") /\ ~script.broken /\ ~script.stopped)
      <4>1. container \in [Slot -> Container]
        BY DEF RInv, ReleaseTypeOK
      <4>2. CASE End("broken")
        BY <3>2, <4>1, <4>2
      <4>3. CASE End("restored") /\ ~script.broken /\ ~script.stopped
        BY <3>2, <4>1, <4>3
      <4> QED BY <3>2, <4>2, <4>3
    <3>3. \/ script.stopped /\ container' \in Cleaned(restarted)
          \/ /\ container' \in Cleaned(container)
             /\ End("broken") \/ (End("restored") /\ ~script.broken /\ ~script.stopped)
      BY <1>5 DEF StartOld, RemoveCandidate
    <3> QED BY <3>1, <3>2, <3>3
  <2>2. /\ container' \in [Slot -> Container] /\ container'["service"] = slots["service"]
        /\ \/ container'["candidate"] = NoContainer
           \/ /\ slots["candidate"] # NoContainer
              /\ container'["candidate"] = [slots["candidate"] EXCEPT !.stuck = TRUE]
    BY <2>1, Cleans
  <2>3. /\ script' = NoScript /\ script' \in Script
        /\ snapshot' \in Database /\ report' = what
        /\ damaged' \in BOOLEAN
        /\ ~damaged' => ~damaged /\ what # "broken"
    BY <2>1, Ended DEF RInv
  <2>4. /\ db' = db /\ mainFile' = mainFile /\ told' = told /\ dropped' = dropped
        /\ provisional' = provisional /\ (damaged => damaged')
        /\ script.broken => damaged'
        /\ script.pc = "start_old"
    BY <1>5, <2>1 DEF StartOld, End, volume, RInv, ReleaseTypeOK, Flags, At
  <2>5. ReleaseTypeOK' /\ Flags' /\ Slots'
    BY <2>1, <2>2, <2>3, <2>4 DEF RInv, ReleaseTypeOK, Flags, Slots
  <2>6. Still' /\ TasksKept' /\ Saved'
    BY <2>3, <2>4 DEF RInv, Still, Resting, TasksKept, Saved
  <2>7. Alone' /\ Opens' /\ Reported'
    BY <2>1, <2>2, <2>3, <2>4 DEF RInv, ReleaseTypeOK, Alone, Opens, Reported,
       Flags, Slots, Up, Supported
  <2> QED BY <2>5, <2>6, <2>7 DEF RInv
<1>6. CASE Down
  <2>1. PICK what \in {"cleaned", "broken"}, slots \in [Slot -> Container] :
          /\ End(what) /\ container' \in Cleaned(slots)
          /\ slots["candidate"] = container["candidate"]
          /\ \/ slots["service"] = container["service"] /\ what = "broken"
             \/ slots["service"] = NoContainer
    <3>1. container \in [Slot -> Container]
      BY DEF RInv, ReleaseTypeOK
    <3>2. CASE container' \in Cleaned(Without("service")) /\ End("cleaned")
      <4>1. /\ Without("service") \in [Slot -> Container]
            /\ Without("service")["candidate"] = container["candidate"]
            /\ Without("service")["service"] = NoContainer
        BY <3>1
      <4> HIDE DEF Without
      <4> QED BY <3>2, <4>1
    <3>3. CASE container' \in Cleaned(container) /\ End("broken")
      BY <3>1, <3>3
    <3> QED BY <1>6, <3>2, <3>3 DEF Down, RemoveCandidate
  <2>2. /\ container' \in [Slot -> Container] /\ container'["service"] = slots["service"]
        /\ \/ container'["candidate"] = NoContainer
           \/ /\ slots["candidate"] # NoContainer
              /\ container'["candidate"] = [slots["candidate"] EXCEPT !.stuck = TRUE]
    BY <2>1, Cleans
  <2>3. /\ script' = NoScript /\ script' \in Script
        /\ snapshot' \in Database /\ report' = what
        /\ damaged' \in BOOLEAN
        /\ ~damaged' => ~damaged /\ what # "broken"
    BY <2>1, Ended DEF RInv
  <2>4. /\ db' = db /\ mainFile' = mainFile /\ told' = told /\ dropped' = dropped
        /\ provisional' = provisional /\ (damaged => damaged')
        /\ script.broken => damaged'
        /\ script.pc = "down" /\ ~script.broken
    BY <1>6, <2>1 DEF Down, End, volume, RInv, ReleaseTypeOK, Flags, At
  <2>5. ReleaseTypeOK' /\ Flags' /\ Slots'
    BY <2>1, <2>2, <2>3, <2>4 DEF RInv, ReleaseTypeOK, Flags, Slots
  <2>6. Still' /\ TasksKept' /\ Saved'
    BY <2>3, <2>4 DEF RInv, Still, Resting, TasksKept, Saved
  <2>7. Alone' /\ Opens' /\ Reported'
    BY <2>1, <2>2, <2>3, <2>4 DEF RInv, ReleaseTypeOK, Alone, Opens, Reported,
       Flags, Slots, Up, Supported
  <2> QED BY <2>5, <2>6, <2>7 DEF RInv
<1> QED BY <1>1, <1>2, <1>3, <1>4, <1>5, <1>6

\* All steps together.
LEMMA StepHolds == RInv /\ [Next]_vars => RInv'
<1> SUFFICES ASSUME RInv, [Next]_vars PROVE RInv'
  OBVIOUS
<1>1. CASE UNCHANGED vars
  BY <1>1 DEF vars, volume, clientVars, RInv, ReleaseTypeOK, Flags, Slots, Still,
     Resting, TasksKept, Saved, Alone, Opens, Reported, Up, Supported
<1>2. CASE Next
  BY <1>2, WorldKeeps, ReleaseKeeps, RollbackKeeps DEF Next, ScriptStep
<1> QED BY <1>1, <1>2

-----------------------------------------------------------------------------
\* Wherever a release is, the flags of its script, the containers and both
\* databases fit together.
THEOREM ReleaseInvariant == Spec => []RInv
BY InitHolds, StepHolds, PTL DEF Spec

\* The script, the containers and the databases stay typed, and a database is
\* only saved after the service was stopped.
THEOREM ReleaseTyped == Spec => []ReleaseTypeOK
<1>1. RInv => ReleaseTypeOK
  BY DEF RInv, ReleaseTypeOK
<1> QED BY <1>1, ReleaseInvariant, PTL

\* No release, however it ends, loses a task that was stored before its image
\* took uploads, except with the log that a failing restore removed; and then
\* the script says that its rollback failed, unless docker had left something
\* running on the database.
THEOREM TasksHold == Spec => []TasksKept
<1>1. RInv => TasksKept
  BY DEF RInv, TasksKept
<1> QED BY <1>1, ReleaseInvariant, PTL

\* The candidate and the service never run at the same time, but for a candidate
\* that docker failed to remove, beside a service of the same image.
THEOREM OneProcessHolds == Spec => []OneProcess
<1>1. RInv => OneProcess
  BY DEF RInv, Alone, OneProcess, Up, NoContainer
<1> QED BY <1>1, ReleaseInvariant, PTL

\* What the script reports is so.
THEOREM ReportsHold == Spec => []ReportHolds
<1>1. RInv => ReportHolds
  BY DEF RInv, Opens, Reported, Flags, ReportHolds
<1> QED BY <1>1, ReleaseInvariant, PTL

-----------------------------------------------------------------------------
(***************************************************************************)
(* The files on the disk                                                   *)
(***************************************************************************)

\* Every step of the scripts with the disk is one of the scripts, or none.
LEMMA StepOfRelease ==
  ASSUME [SnapshotsNext]_allVars
  PROVE  [Next]_vars
<1>1. SnapshotsStep => ScriptStep
  BY DEF SnapshotsStep, OtherStep, ScriptStep
<1> QED BY <1>1 DEF SnapshotsNext, Elsewhere, Next, allVars

\* What holds of the scripts holds of them with the disk, too.
THEOREM ReleaseImplemented == SnapshotsSpec => Spec
<1>1. SnapshotsInit => Init
  BY DEF SnapshotsInit
<1> QED BY <1>1, StepOfRelease, PTL DEF SnapshotsSpec, Spec

-----------------------------------------------------------------------------
(* What prune leaves of a disk *)

Migrations(d, files) == {i \in files : d[i].migration}

\* The newest file and the newest of a migration.
Exempt(d, files) ==
  {i \in files : \/ \A j \in files : j <= i
                 \/ d[i].migration /\ \A j \in Migrations(d, files) : j <= i}

Retained(d, files) ==
  /\ Cardinality(Migrations(d, files)) <= KeepMigrations
  /\ Cardinality(files \ Migrations(d, files)) <= KeepReleases
  /\ SizeOf(d, files) <= MaxBytes \/ SizeOf(d, files \ Exempt(d, files)) < MaxBytes

LEMMA FilesAre ==
  ASSUME disk \in Seq(File)
  PROVE  /\ Len(disk) \in Nat /\ DOMAIN disk = 1..Len(disk)
         /\ IsFiniteSet(DOMAIN disk)
         /\ \A i \in 1..Len(disk) : /\ disk[i] \in File
                                    /\ disk[i].migration \in BOOLEAN
                                    /\ disk[i].size \in Nat \ {0}
<1>1. Len(disk) \in Nat /\ DOMAIN disk = 1..Len(disk)
  OBVIOUS
<1>2. \A i \in 1..Len(disk) : disk[i] \in File
  OBVIOUS
<1>3. IsFiniteSet(1..Len(disk))
  BY <1>1, FS_Interval
<1>4. \A i \in 1..Len(disk) : /\ disk[i].migration \in BOOLEAN
                              /\ disk[i].size \in Nat \ {0}
  BY <1>2, SnapshotsAssumption DEF File
<1> QED BY <1>1, <1>2, <1>3, <1>4

LEMMA BytesAre ==
  ASSUME NEW files
  PROVE  Bytes(files) = SizeOf(disk, files)
BY DEF Bytes, SizeOf

\* No kind has more files than its limit: the oldest of them found room.
LEMMA KindBounded ==
  ASSUME disk \in Seq(File), NEW files \in SUBSET DOMAIN disk, Kept(files),
         NEW kind \in BOOLEAN
  PROVE  Cardinality(Of(kind, files)) <= IF kind THEN KeepMigrations ELSE KeepReleases
<1> DEFINE A == Of(kind, files)
           limit == IF kind THEN KeepMigrations ELSE KeepReleases
<1>1. /\ A \subseteq files /\ files \subseteq Nat /\ IsFiniteSet(A)
      /\ \A i \in files : disk[i].migration \in BOOLEAN
      /\ limit \in Nat
  BY FilesAre, FS_Subset, SnapshotsAssumption DEF Of
<1>2. CASE A = {}
  <2>1. Cardinality(A) = 0
    BY <1>2, FS_EmptySet
  <2> HIDE DEF limit
  <2> QED BY <1>1, <2>1 DEF limit
<1>3. CASE A # {}
  <2>1. PICK i \in A : \A j \in A : i <= j
    BY <1>1, <1>3, LeastOf
  <2> DEFINE newer == {j \in files : j > i}
  <2>2. i \in files /\ disk[i].migration = kind /\ i \in DOMAIN disk
    BY DEF Of
  <2>3. Keep(i, newer)
    BY <2>2 DEF Kept
  <2>4. Cardinality(Of(kind, newer)) < limit
    BY <2>2, <2>3 DEF Keep, Room, Limit
  <2>5. A = Of(kind, newer) \union {i} /\ i \notin Of(kind, newer)
    BY <1>1, <2>1, <2>2 DEF Of
  <2>6. IsFiniteSet(Of(kind, newer))
    BY <1>1, <2>5, FS_Subset
  <2> HIDE DEF A, limit, newer
  <2>7. Cardinality(A) = Cardinality(Of(kind, newer)) + 1
    BY <2>5, <2>6, FS_AddElement
  <2>8. Cardinality(Of(kind, newer)) \in Nat
    BY <2>6, FS_CardinalityType
  <2>9. Cardinality(A) <= limit
    BY <1>1, <2>4, <2>7, <2>8
  <2> QED BY <2>9 DEF A, limit
<1> QED BY <1>2, <1>3

\* The files that are kept.
LEMMA KeptRetained ==
  ASSUME disk \in Seq(File), NEW files \in SUBSET DOMAIN disk, Kept(files)
  PROVE  Retained(disk, files)
<1>1. /\ files \subseteq Nat /\ IsFiniteSet(files)
      /\ \A i \in files : /\ disk[i].migration \in BOOLEAN
                          /\ disk[i].size \in Nat /\ disk[i].size > 0
      /\ MaxBytes \in Nat /\ MaxBytes > 0
  BY FilesAre, FS_Subset, SnapshotsAssumption
<1>2. Migrations(disk, files) = Of(TRUE, files)
      /\ files \ Migrations(disk, files) = Of(FALSE, files)
  BY <1>1 DEF Migrations, Of
<1>3. /\ Cardinality(Migrations(disk, files)) <= KeepMigrations
      /\ Cardinality(files \ Migrations(disk, files)) <= KeepReleases
  BY <1>2, KindBounded
<1> DEFINE B == files \ Exempt(disk, files)
<1>4. SizeOf(disk, B) < MaxBytes
  <2>1. CASE B = {}
    BY <1>1, <2>1, SizeOfEmpty
  <2>2. CASE B # {}
    <3>1. B \in SUBSET Nat /\ B \subseteq files
      BY <1>1
    <3>2. PICK i \in B : \A j \in B : i <= j
      BY <2>2, <3>1, LeastOf
    <3> DEFINE newer == {j \in files : j > i}
               C == newer \union {i}
    <3>3. i \in files /\ i \in DOMAIN disk
      BY <3>1
    <3>4. Keep(i, newer)
      BY <3>3 DEF Kept
    <3>5. PICK j \in files : ~(j <= i)
      BY <3>2 DEF Exempt
    <3>6. ~(disk[i].migration /\ Of(TRUE, newer) = {})
      <4> SUFFICES ASSUME disk[i].migration, Of(TRUE, newer) = {} PROVE FALSE
        OBVIOUS
      <4>1. PICK k \in Migrations(disk, files) : ~(k <= i)
        BY <3>2, <3>3 DEF Exempt
      <4>2. k \in files /\ disk[k].migration
        BY <4>1 DEF Migrations
      <4>3. disk[k].migration = TRUE
        BY <1>1, <4>2
      <4>4. k > i
        BY <1>1, <3>3, <4>1, <4>2
      <4> QED BY <4>2, <4>3, <4>4 DEF Of
    <3>7. j \in newer
      BY <1>1, <3>3, <3>5
    <3>8. Bytes(C) <= MaxBytes
      BY <3>4, <3>6, <3>7 DEF Keep, Fits
    <3>9. SizeOf(disk, C) <= MaxBytes
      BY <3>8, BytesAre
    <3>10. C \subseteq files /\ IsFiniteSet(C)
      BY <1>1, <3>3, FS_Subset
    <3>11. PICK last \in files : \A k \in files : k <= last
      <4>1. \A k \in files : k \in Nat
        BY <1>1
      <4>2. files # {}
        BY <3>3
      <4> QED BY <1>1, <4>1, <4>2, GreatestOf
    <3>12. last \in C /\ last \notin B
      <4>1. last \in Exempt(disk, files)
        BY <3>11 DEF Exempt
      <4>2. last >= j
        BY <1>1, <3>5, <3>11
      <4> QED BY <1>1, <3>3, <3>5, <3>11, <4>1, <4>2
    <3>13. B \subseteq C \ {last}
      BY <1>1, <3>1, <3>2, <3>3, <3>12
    <3> HIDE DEF B, C, newer
    <3>14. SizeOf(disk, C) = disk[last].size + SizeOf(disk, C \ {last})
      BY <1>1, <3>10, <3>12, SizeOfWithout
    <3>15. IsFiniteSet(C \ {last}) /\ \A x \in C \ {last} : disk[x].size \in Nat
      BY <1>1, <3>10, FS_Subset
    <3>16. SizeOf(disk, B) <= SizeOf(disk, C \ {last})
      BY <3>13, <3>15, SizeOfSubset
    <3>17. SizeOf(disk, C \ {last}) \in Nat
      BY <3>15, SizeOfWithout
    <3>18. SizeOf(disk, B) \in Nat
      BY <3>13, <3>15, SizeOfWithout, FS_Subset
    <3>19. disk[last].size \in Nat /\ disk[last].size > 0
      BY <1>1, <3>11
    <3> QED BY <1>1, <3>9, <3>14, <3>16, <3>17, <3>18, <3>19
  <2> QED BY <2>1, <2>2
<1> QED BY <1>3, <1>4 DEF Retained

-----------------------------------------------------------------------------
(* The files in their new places *)

\* place lists the elements of files in their order.
Lists(place, k, files) ==
  /\ k \in Nat
  /\ place \in [1..k -> files]
  /\ \A m, n \in 1..k : m < n => place[m] < place[n]
  /\ files = {place[n] : n \in 1..k}

LEMMA Listed ==
  ASSUME NEW d, NEW files, files \subseteq Nat, IsFiniteSet(files),
         NEW k, NEW place, Lists(place, k, files),
         \A i \in files : d[i].size \in Nat,
         NEW e, e = [n \in 1..k |-> d[place[n]]],
         Retained(d, files)
  PROVE  Retained(e, 1..k)
<1>1. /\ k \in Nat /\ IsFiniteSet(1..k)
      /\ \A n \in 1..k : place[n] \in files /\ e[n] = d[place[n]]
      /\ \A i \in files : \E n \in 1..k : i = place[n]
  <2>1. k \in Nat /\ files = {place[n] : n \in 1..k}
    BY DEF Lists
  <2>2. IsFiniteSet(1..k)
    BY <2>1, FS_Interval
  <2> QED BY <2>1, <2>2
<1>2. \A m, n \in 1..k : m <= n <=> place[m] <= place[n]
  <2> SUFFICES ASSUME NEW m \in 1..k, NEW n \in 1..k
               PROVE  m <= n <=> place[m] <= place[n]
    OBVIOUS
  <2>0. place[m] \in files /\ place[n] \in files
    BY <1>1
  <2>1. place[m] \in Nat /\ place[n] \in Nat /\ m \in Nat /\ n \in Nat
    <3>1. k \in Nat
      BY <1>1
    <3>2. m \in Nat /\ n \in Nat
      BY <3>1
    <3>3. place[m] \in Nat /\ place[n] \in Nat
      BY <2>0
    <3> QED BY <3>2, <3>3
  <2>2. m < n => place[m] < place[n]
    BY DEF Lists
  <2>3. n < m => place[n] < place[m]
    BY DEF Lists
  <2> QED BY <2>1, <2>2, <2>3
<1>3. \A N \in SUBSET (1..k) : OneToOne(place, N) /\ IsFiniteSet(N)
  <2> SUFFICES ASSUME NEW N \in SUBSET (1..k), NEW m \in N, NEW n \in N,
                      place[m] = place[n]
               PROVE  m = n
    BY <1>1, FS_Subset DEF OneToOne
  <2>1. place[m] \in Nat /\ m \in 1..k /\ n \in 1..k
    BY <1>1
  <2>2. m <= n /\ n <= m
    BY <1>2, <2>1
  <2> QED BY <2>1, <2>2
<1>4. Moved(place, 1..k) = files
  BY DEF Moved, Lists
<1>5. Moved(place, Migrations(e, 1..k)) = Migrations(d, files)
  BY <1>1 DEF Moved, Migrations
<1>6. Moved(place, 1..k \ Migrations(e, 1..k)) = files \ Migrations(d, files)
  BY <1>1 DEF Moved, Migrations
<1>7. Moved(place, Exempt(e, 1..k)) = Exempt(d, files)
  <2>1. ASSUME NEW n \in 1..k
        PROVE  n \in Exempt(e, 1..k) <=> place[n] \in Exempt(d, files)
    <3>1. (\A m \in 1..k : m <= n) <=> (\A j \in files : j <= place[n])
      <4>1. ASSUME \A m \in 1..k : m <= n PROVE \A j \in files : j <= place[n]
        <5> SUFFICES ASSUME NEW j \in files PROVE j <= place[n]
          OBVIOUS
        <5>1. PICK m \in 1..k : j = place[m]
          BY <1>1
        <5> QED BY <1>2, <4>1, <5>1
      <4>2. ASSUME \A j \in files : j <= place[n] PROVE \A m \in 1..k : m <= n
        <5> SUFFICES ASSUME NEW m \in 1..k PROVE m <= n
          OBVIOUS
        <5>1. place[m] <= place[n]
          BY <1>1, <4>2
        <5> QED BY <1>2, <5>1
      <4> QED BY <4>1, <4>2
    <3>2. (\A m \in Migrations(e, 1..k) : m <= n) <=> (\A j \in Migrations(d, files) : j <= place[n])
      <4> DEFINE M == Migrations(e, 1..k)
                 L == Migrations(d, files)
      <4>0. /\ \A m \in M : m \in 1..k /\ place[m] \in L
            /\ \A j \in L : \E m \in M : j = place[m]
        BY <1>1 DEF Migrations
      <4> HIDE DEF M, L
      <4>1. ASSUME \A m \in M : m <= n PROVE \A j \in L : j <= place[n]
        <5> SUFFICES ASSUME NEW j \in L PROVE j <= place[n]
          OBVIOUS
        <5>1. PICK m \in M : j = place[m]
          BY <4>0
        <5> QED BY <1>2, <4>0, <4>1, <5>1
      <4>2. ASSUME \A j \in L : j <= place[n] PROVE \A m \in M : m <= n
        <5> SUFFICES ASSUME NEW m \in M PROVE m <= n
          OBVIOUS
        <5>1. place[m] <= place[n] /\ m \in 1..k
          BY <4>0, <4>2
        <5> QED BY <1>2, <5>1
      <4> QED BY <4>1, <4>2 DEF M, L
    <3> QED BY <1>1, <3>1, <3>2 DEF Exempt
  <2>2. Exempt(e, 1..k) \subseteq 1..k /\ Exempt(d, files) \subseteq files
    BY DEF Exempt
  <2> QED BY <1>1, <2>1, <2>2 DEF Moved
<1>8. Moved(place, 1..k \ Exempt(e, 1..k)) = files \ Exempt(d, files)
  <2>1. Exempt(e, 1..k) \subseteq 1..k /\ Exempt(d, files) \subseteq files
    BY DEF Exempt
  <2>2. OneToOne(place, 1..k)
    BY <1>3
  <2> DEFINE X == Exempt(e, 1..k)
             Y == Exempt(d, files)
  <2>3. X \subseteq 1..k /\ Moved(place, X) = Y
    BY <1>7, <2>1
  <2> HIDE DEF X, Y
  <2>4. ASSUME NEW i \in Moved(place, 1..k \ X) PROVE i \in files \ Y
    <3>1. PICK n \in 1..k \ X : i = place[n]
      BY DEF Moved
    <3>2. SUFFICES ASSUME i \in Y PROVE FALSE
      BY <1>1, <3>1
    <3>3. PICK m \in X : i = place[m]
      BY <2>3, <3>2 DEF Moved
    <3> QED BY <2>2, <2>3, <3>1, <3>3 DEF OneToOne
  <2>5. ASSUME NEW i \in files \ Y PROVE i \in Moved(place, 1..k \ X)
    <3>1. PICK n \in 1..k : i = place[n]
      BY <1>1
    <3>2. n \notin X
      BY <2>3, <3>1 DEF Moved
    <3> QED BY <3>1, <3>2 DEF Moved
  <2> QED BY <2>4, <2>5 DEF X, Y
<1>9. \A N \in SUBSET (1..k) : SizeOf(e, N) = SizeOf(d, Moved(place, N))
  BY <1>1, <1>3, SizeOfMoved
<1>10. \A N \in SUBSET (1..k) : Cardinality(Moved(place, N)) = Cardinality(N)
  BY <1>3, MovedAlike
<1>11. /\ Migrations(e, 1..k) \in SUBSET (1..k)
       /\ 1..k \ Migrations(e, 1..k) \in SUBSET (1..k)
       /\ 1..k \ Exempt(e, 1..k) \in SUBSET (1..k)
       /\ 1..k \in SUBSET (1..k)
  BY DEF Migrations
<1>12. /\ Cardinality(Migrations(e, 1..k)) = Cardinality(Migrations(d, files))
       /\ Cardinality(1..k \ Migrations(e, 1..k)) = Cardinality(files \ Migrations(d, files))
       /\ SizeOf(e, 1..k) = SizeOf(d, files)
       /\ SizeOf(e, 1..k \ Exempt(e, 1..k)) = SizeOf(d, files \ Exempt(d, files))
  BY <1>4, <1>5, <1>6, <1>8, <1>9, <1>10, <1>11
<1> QED BY <1>12 DEF Retained

-----------------------------------------------------------------------------
(* What a step does to the disk *)

\* prune keeps the newest file, whatever its size: nothing is newer.
LEMMA NewestKept ==
  ASSUME disk \in Seq(File), NEW files \in SUBSET DOMAIN disk, Kept(files),
         Len(disk) # 0
  PROVE  Len(disk) \in files
<1> DEFINE newer == {j \in files : j > Len(disk)}
<1>1. Len(disk) \in DOMAIN disk
  BY FilesAre
<1>2. newer = {}
  BY FilesAre
<1>3. Of(disk[Len(disk)].migration, {}) = {}
  BY DEF Of
<1>4. Cardinality(Of(disk[Len(disk)].migration, {})) < Limit(Len(disk))
  <2>1. Cardinality({}) = 0
    BY FS_EmptySet
  <2>2. Limit(Len(disk)) \in Nat \ {0}
    BY SnapshotsAssumption DEF Limit
  <2>3. Cardinality(Of(disk[Len(disk)].migration, {})) = 0
    BY <1>3, <2>1
  <2> QED BY <2>2, <2>3
<1>5. Keep(Len(disk), newer)
  BY <1>2, <1>4 DEF Keep, Room
<1> QED BY <1>1, <1>5 DEF Kept

LEMMA PruneMeans ==
  ASSUME SnapshotsTypeOK, NEW oldest \in {1} \union DOMAIN disk, PruneFrom(oldest)
  PROVE  /\ SnapshotsTypeOK'
         /\ Len(disk) # 0 => Len(disk') # 0 /\ disk'[Len(disk')] = disk[Len(disk)]
         /\ oldest = 1 => Retained(disk', DOMAIN disk')
<1>1. disk \in Seq(File) /\ Len(disk) <= MaxFiles /\ MaxFiles \in Nat
  BY SnapshotsAssumption DEF SnapshotsTypeOK
<1>2. PICK files \in SUBSET DOMAIN disk : Kept(files) /\ Leave(files \union 1..oldest - 1)
  BY DEF PruneFrom
<1> DEFINE all == files \union 1..oldest - 1
           k == Cardinality(all)
<1>3. oldest \in Nat /\ oldest - 1 <= Len(disk)
  BY <1>1, FilesAre
<1>4. all \in SUBSET DOMAIN disk /\ all \subseteq Nat
  BY <1>1, <1>3, FilesAre
<1>5. IsFiniteSet(all) /\ k \in Nat /\ k <= Len(disk)
  <2>1. Cardinality(DOMAIN disk) = Len(disk)
    <3>1. DOMAIN disk = 1..Len(disk) /\ Len(disk) \in Nat
      BY <1>1, FilesAre
    <3>2. Cardinality(1..Len(disk)) = Len(disk)
      BY <3>1, CountTo
    <3> QED BY <3>1, <3>2
  <2> HIDE DEF all
  <2> QED BY <1>1, <1>4, <2>1, FilesAre, FS_Subset, FS_CardinalityType
<1>6. PICK place \in [1..k -> all] :
        /\ \A m, n \in DOMAIN place : m < n => place[m] < place[n]
        /\ all = {place[n] : n \in DOMAIN place}
        /\ disk' = [n \in DOMAIN place |-> disk[place[n]]]
  BY <1>2 DEF Leave
<1> HIDE DEF k, all
<1>7. DOMAIN place = 1..k
  BY <1>6
<1>8. Lists(place, k, all) /\ disk' = [n \in 1..k |-> disk[place[n]]]
  BY <1>5, <1>6, <1>7 DEF Lists
<1>9. disk' \in Seq(File) /\ Len(disk') = k /\ DOMAIN disk' = 1..k
  <2>1. \A n \in 1..k : disk[place[n]] \in File
    BY <1>1, <1>4, <1>6, FilesAre
  <2>2. disk' \in [1..k -> File]
    BY <1>8, <2>1
  <2> QED BY <1>5, <2>2
<1>10. SnapshotsTypeOK'
  BY <1>1, <1>5, <1>9 DEF SnapshotsTypeOK
<1>11. ASSUME Len(disk) # 0
       PROVE  k # 0 /\ disk'[k] = disk[Len(disk)]
  <2>1. Len(disk) \in all
    BY <1>1, <1>2, <1>11, NewestKept DEF all
  <2>2. PICK m \in 1..k : place[m] = Len(disk)
    BY <1>6, <1>7, <2>1
  <2>3. k \in 1..k /\ place[k] \in all
    BY <1>5, <1>6, <2>2
  <2>4. place[k] <= Len(disk)
    BY <1>1, <1>4, <2>3, FilesAre
  <2>5. m < k => place[m] < place[k]
    BY <1>6, <1>7, <2>3
  <2>6. m = k
    <3>1. place[k] \in Nat /\ Len(disk) \in Nat /\ m \in Nat /\ k \in Nat /\ m <= k
      BY <1>1, <1>4, <1>5, <2>2, <2>3, FilesAre
    <3> QED BY <2>2, <2>4, <2>5, <3>1
  <2> QED BY <1>5, <1>8, <2>2, <2>6
<1>12. ASSUME oldest = 1
       PROVE  Retained(disk', DOMAIN disk')
  <2>1. all = files
    BY <1>12 DEF all
  <2>2. Retained(disk, all)
    BY <1>1, <1>2, <2>1, KeptRetained
  <2>3. \A i \in all : disk[i].size \in Nat
    BY <1>1, <1>4, FilesAre
  <2> DEFINE left == [n \in 1..k |-> disk[place[n]]]
  <2>4. Retained(left, 1..k)
    <3> HIDE DEF left
    <3>1. left = [n \in 1..k |-> disk[place[n]]]
      BY DEF left
    <3> QED BY <1>4, <1>5, <1>8, <2>2, <2>3, <3>1, Listed
  <2> QED BY <1>8, <1>9, <2>4
<1> QED BY <1>9, <1>10, <1>11, <1>12

LEMMA WriteMeans ==
  ASSUME SnapshotsTypeOK, NEW whole \in BOOLEAN, WriteFile(whole)
  PROVE  /\ SnapshotsTypeOK' /\ Len(disk') # 0
         /\ disk'[Len(disk')].own /\ disk'[Len(disk')].whole = whole
<1>1. PICK size \in Sizes :
        disk' = Append(disk, [migration |-> db.schema # SchemaOf[script.image],
                              size |-> size, whole |-> whole, own |-> TRUE])
  BY DEF WriteFile
<1> DEFINE written == [migration |-> db.schema # SchemaOf[script.image],
                       size |-> size, whole |-> whole, own |-> TRUE]
<1>2. written \in File /\ written.own /\ written.whole = whole
  BY DEF File
<1> HIDE DEF written
<1>3. disk \in Seq(File) /\ Len(disk) < MaxFiles /\ MaxFiles \in Nat
  BY SnapshotsAssumption DEF SnapshotsTypeOK, WriteFile
<1>4. disk' = Append(disk, written)
  BY <1>1 DEF written
<1>5. /\ disk' \in Seq(File) /\ Len(disk') = Len(disk) + 1
      /\ disk'[Len(disk')] = written /\ Len(disk) \in Nat
  BY <1>2, <1>3, <1>4
<1> QED BY <1>2, <1>3, <1>5 DEF SnapshotsTypeOK

LEMMA DisownedMeans ==
  ASSUME SnapshotsTypeOK, disk' = Disowned
  PROVE  SnapshotsTypeOK' /\ Len(disk') = Len(disk)
<1>1. disk \in Seq(File) /\ Len(disk) \in Nat /\ DOMAIN disk = 1..Len(disk)
  BY DEF SnapshotsTypeOK
<1>2. \A i \in DOMAIN disk : [disk[i] EXCEPT !.own = FALSE] \in File
  <2> SUFFICES ASSUME NEW i \in DOMAIN disk PROVE [disk[i] EXCEPT !.own = FALSE] \in File
    OBVIOUS
  <2>1. disk[i] \in File
    BY <1>1
  <2> QED BY <2>1 DEF File
<1>3. disk' \in [1..Len(disk) -> File]
  BY <1>1, <1>2 DEF Disowned
<1>4. disk' \in Seq(File) /\ Len(disk') = Len(disk)
  BY <1>1, <1>3
<1> QED BY <1>4 DEF SnapshotsTypeOK

-----------------------------------------------------------------------------
(* The inductive invariant of the disk *)

\* A release over an earlier one leaves some image in the service.
Preceded ==
  script.pc # "idle" /\ script.previous # None => container["service"].image # None

\* Nothing is saved before there is something to go back to.
Blank ==
  \/ container["service"].image = None
  \/ script.pc # "idle" /\ script.previous = None
  => Len(disk) = 0

\* The file that was just saved is the newest, and so out of prune's reach.
NewestOwn ==
  script.saved => /\ Len(disk) # 0
                  /\ disk[Len(disk)].own /\ disk[Len(disk)].whole

\* A success is reported after a whole prune, or with nothing on the disk.
Limited ==
  report = "success" /\ script.pc = "idle" => Retained(disk, DOMAIN disk)

DInv ==
  /\ SnapshotsTypeOK
  /\ Preceded /\ Blank /\ NewestOwn /\ Limited

LEMMA NothingRetained ==
  ASSUME disk \in Seq(File), Len(disk) = 0
  PROVE  Retained(disk, DOMAIN disk)
<1>1. DOMAIN disk = {}
  BY FilesAre
<1>2. Migrations(disk, {}) = {} /\ {} \ Migrations(disk, {}) = {}
  BY DEF Migrations
<1>3. Cardinality({}) = 0 /\ SizeOf(disk, {}) = 0
  BY FS_EmptySet, SizeOfEmpty
<1>4. Retained(disk, {})
  <2>1. /\ Cardinality(Migrations(disk, {})) = 0
        /\ Cardinality({} \ Migrations(disk, {})) = 0
    BY <1>2, <1>3
  <2> QED BY <1>3, <2>1, SnapshotsAssumption DEF Retained
<1> QED BY <1>1, <1>4

LEMMA DiskInit == SnapshotsInit => DInv
<1> SUFFICES ASSUME SnapshotsInit PROVE DInv
  OBVIOUS
<1>1. disk \in Seq(File) /\ Len(disk) = 0
  BY DEF SnapshotsInit
<1> QED BY <1>1, SnapshotsAssumption
        DEF SnapshotsInit, Init, NoScript, DInv, SnapshotsTypeOK, Preceded, Blank,
            NewestOwn, Limited

LEMMA DiskStep ==
  ASSUME RInv, DInv, [SnapshotsNext]_allVars
  PROVE  DInv'
<1>1. /\ ReleaseTypeOK /\ Flags /\ SnapshotsTypeOK /\ disk \in Seq(File)
      /\ Preceded /\ Blank /\ NewestOwn /\ Limited
  BY DEF RInv, DInv, SnapshotsTypeOK
<1> USE DEF Slot, Container, Script, NoContainer, NoScript
<1>2. CASE UNCHANGED allVars
  BY <1>1, <1>2 DEF allVars, vars, volume, DInv, SnapshotsTypeOK, Preceded, Blank,
     NewestOwn, Limited
<1>3. CASE Elsewhere /\ UNCHANGED disk
  <2>1. /\ script' = script /\ report' = report
        /\ container'["service"].image = container["service"].image
    <3>1. CASE Tidy
      BY <1>1, <3>1 DEF Tidy, Remove, Without, ReleaseTypeOK
    <3>2. CASE \E c \in {"candidate", "service"} : Migrate(c) \/ Serve(c)
      BY <1>1, <3>2 DEF Migrate, Serve, ReleaseTypeOK
    <3>3. CASE (\E t \in Task : Upload(t)) \/ Checkpoint
      BY <3>3 DEF Upload, Checkpoint
    <3> QED BY <1>3, <3>1, <3>2, <3>3 DEF Elsewhere
  <2> QED BY <1>1, <1>3, <2>1 DEF DInv, SnapshotsTypeOK, Preceded, Blank,
          NewestOwn, Limited
<1>4. CASE (\E i \in Image : Begin(i)) /\ disk' = Disowned
  <2>1. SnapshotsTypeOK' /\ Len(disk') = Len(disk)
    BY <1>1, <1>4, DisownedMeans
  <2>2. PICK i \in Image : Begin(i)
    BY <1>4
  <2>3. /\ container' = container /\ report' = "none" /\ ~script'.saved
        /\ script'.previous = container["service"].image
    BY <2>2 DEF Begin
  <2> QED BY <1>1, <2>1, <2>3 DEF DInv, Preceded, Blank, NewestOwn, Limited
<1>5. CASE OtherStep /\ UNCHANGED disk
  <2>1. /\ script.pc # "idle" /\ (script'.saved => script.saved)
        /\ script'.pc # "idle" => script'.previous = script.previous
        /\ report' = "success" => script.pc = "check" /\ ~script.saved
    <3> USE <1>1 DEF At, Goto, End, ReleaseTypeOK, Flags
    <3>1. CASE Stop \/ StartCandidate \/ Accept \/ RemoveAccepted \/ CutOver
      BY <3>1 DEF Stop, StartCandidate, Accept, RemoveAccepted, CutOver
    <3>2. CASE Check
      BY <3>2 DEF Check, Succeed
    <3>3. CASE RollBack \/ StopRelease \/ Restore
      BY <3>3 DEF RollBack, StopRelease, Restore
    <3>4. CASE StartOld \/ Down
      BY <3>4 DEF StartOld, Down
    <3> QED BY <1>5, <3>1, <3>2, <3>3, <3>4 DEF OtherStep
  <2>2. /\ container'["service"].image = None =>
             container["service"].image = None \/ script.previous = None
        /\ script'.pc # "idle" /\ script.previous # None =>
             container'["service"].image # None
    <3> USE <1>1 DEF At, Goto, End, ReleaseTypeOK, Flags, Preceded, Run, WithRun
    <3>0. /\ container \in [Slot -> Container]
          /\ WithRun("service", script.previous) \in [Slot -> Container]
          /\ WithRun("service", script.previous)["service"].image = script.previous
          /\ Without("service") \in [Slot -> Container]
      BY DEF Without
    <3>1. CASE Stop \/ StartCandidate \/ Accept \/ CutOver \/ StopRelease \/ Restore
      BY <3>1 DEF Stop, StartCandidate, Accept, CutOver, StopRelease, Restore, StopService
    <3>2. CASE RemoveAccepted \/ RollBack
      BY <3>0, <3>2, Cleans DEF RemoveAccepted, RollBack, RemoveCandidate
    <3>3. CASE Check
      <4>1. container'["service"] = container["service"]
        BY <3>0, <3>3, Cleans DEF Check, Succeed
      <4> QED BY <1>1, <2>1, <4>1
    <3>4. CASE StartOld
      <4> DEFINE restarted == WithRun("service", script.previous)
      <4>1. /\ restarted \in [Slot -> Container]
            /\ restarted["service"].image = script.previous
        BY <3>0
      <4>2. container' \in Cleaned(restarted) \/ container' \in Cleaned(container)
        BY <3>4 DEF StartOld, RemoveCandidate
      <4>3. script.previous # None /\ script' = NoScript
        BY <3>4 DEF StartOld
      <4> HIDE DEF restarted
      <4>4. container'["service"] \in {restarted["service"], container["service"]}
        <5>1. CASE container' \in Cleaned(restarted)
          BY <4>1, <5>1, Cleans
        <5>2. CASE container' \in Cleaned(container)
          BY <3>0, <5>2, Cleans
        <5> QED BY <4>2, <5>1, <5>2
      <4>5. container'["service"].image # None
        BY <1>1, <2>1, <4>1, <4>3, <4>4
      <4> QED BY <4>3, <4>5
    <3>5. CASE Down
      BY <3>0, <3>5, Cleans DEF Down, RemoveCandidate
    <3> QED BY <1>5, <3>1, <3>2, <3>3, <3>4, <3>5 DEF OtherStep
  <2>3. SnapshotsTypeOK' /\ NewestOwn'
    BY <1>1, <1>5, <2>1 DEF SnapshotsTypeOK, NewestOwn
  <2>4. Preceded' /\ Blank'
    BY <1>1, <1>5, <2>1, <2>2 DEF Preceded, Blank
  <2>5. ASSUME report' = "success" PROVE Retained(disk', DOMAIN disk')
    <3>1. script.previous = None /\ Len(disk) = 0
      BY <1>1, <2>1, <2>5 DEF Flags, Blank
    <3>2. disk' = disk
      BY <1>5
    <3> QED BY <1>1, <3>1, <3>2, NothingRetained
  <2> QED BY <2>3, <2>4, <2>5 DEF DInv, Limited
<1>6. CASE SaveDatabase /\ WriteFile(TRUE)
  <2>1. SnapshotsTypeOK' /\ NewestOwn'
    BY <1>1, <1>6, WriteMeans DEF NewestOwn
  <2>2. Preceded' /\ Blank' /\ Limited'
    BY <1>1, <1>6 DEF SaveDatabase, At, ReleaseTypeOK, Flags, Preceded, Blank, Limited
  <2> QED BY <2>1, <2>2 DEF DInv
<1>7. CASE Prune /\ PruneFrom(1)
  <2>1. SnapshotsTypeOK' /\ Retained(disk', DOMAIN disk')
    BY <1>1, <1>7, PruneMeans
  <2>2. Preceded' /\ Blank' /\ NewestOwn'
    <3>1. container'["service"] = container["service"]
      BY <1>1, <1>7, Cleans DEF Prune, Succeed, ReleaseTypeOK
    <3> QED BY <1>1, <1>7, <3>1 DEF Prune, Succeed, End, At, ReleaseTypeOK, Flags, Preceded, Blank,
       NewestOwn
  <2> QED BY <2>1, <2>2 DEF DInv, Limited
<1>8. CASE (Fail \/ Kill) /\ Partly
  <2>1. /\ script'.saved => script.saved
        /\ script.pc # "idle" /\ report' = report
        /\ script'.pc # "idle" => script'.previous = script.previous
        /\ container'["service"].image = None => container["service"].image = None
        /\ script'.pc # "idle" /\ script'.previous # None
             => container'["service"].image # None
    <3>1. CASE Fail
      BY <1>1, <3>1 DEF Fail, Goto, Run, WithRun, At, ReleaseTypeOK, Flags, Preceded
    <3>2. CASE Kill
      BY <1>1, <3>2 DEF Kill, RemoveCandidate, Cleaned, At, ReleaseTypeOK, Flags, Preceded
    <3> QED BY <1>8, <3>1, <3>2
  <2>2. Preceded' /\ Limited'
    BY <1>1, <2>1 DEF Preceded, Limited, Flags
  <2>3. CASE UNCHANGED disk
    BY <1>1, <2>1, <2>2, <2>3 DEF DInv, SnapshotsTypeOK, Blank, NewestOwn
  <2>4. CASE At("snapshot") /\ WriteFile(FALSE)
    <3>1. SnapshotsTypeOK'
      BY <1>1, <2>4, WriteMeans
    <3>2. /\ ~script.saved /\ script.previous # None
          /\ container["service"].image # None
      BY <1>1, <2>4 DEF At, Flags, Preceded
    <3> QED BY <2>1, <2>2, <3>1, <3>2 DEF DInv, Blank, NewestOwn
  <2>5. CASE At("prune") /\ \E oldest \in DOMAIN disk : PruneFrom(oldest)
    <3>1. /\ SnapshotsTypeOK'
          /\ Len(disk) # 0 => Len(disk') # 0 /\ disk'[Len(disk')] = disk[Len(disk)]
      BY <1>1, <2>5, PruneMeans
    <3>2. script.previous # None /\ container["service"].image # None
      BY <1>1, <2>5 DEF At, Flags, Preceded, ReleaseTypeOK
    <3>3. Blank'
      BY <2>1, <3>2 DEF Blank
    <3>4. NewestOwn'
      BY <1>1, <2>1, <3>1 DEF NewestOwn
    <3> QED BY <2>2, <3>1, <3>3, <3>4 DEF DInv
  <2> QED BY <1>8, <2>3, <2>4, <2>5 DEF Partly
<1>9. CASE SnapshotsStep
  <2>1. \/ OtherStep /\ UNCHANGED disk
        \/ SaveDatabase /\ WriteFile(TRUE)
        \/ Prune /\ PruneFrom(1)
        \/ (Fail \/ Kill) /\ Partly
    BY <1>9 DEF SnapshotsStep
  <2> QED BY <1>5, <1>6, <1>7, <1>8, <2>1
<1>10. CASE SnapshotsNext
  <2>1. \/ SnapshotsStep
        \/ (Fail \/ Kill) /\ Partly
        \/ (\E i \in Image : Begin(i)) /\ disk' = Disowned
        \/ Elsewhere /\ UNCHANGED disk
    BY <1>10 DEF SnapshotsNext
  <2> QED BY <1>3, <1>4, <1>8, <1>9, <2>1
<1> QED BY <1>2, <1>10

LEMMA SnapshotsInvariant == SnapshotsSpec => [](RInv /\ DInv)
<1>1. SnapshotsInit => RInv /\ DInv
  BY DiskInit, InitHolds DEF SnapshotsInit
<1>2. RInv /\ DInv /\ [SnapshotsNext]_allVars => (RInv /\ DInv)'
  BY DiskStep, StepOfRelease, StepHolds
<1> QED BY <1>1, <1>2, PTL DEF SnapshotsSpec

-----------------------------------------------------------------------------
\* As long as a release may be rolled back, the snapshot that it would go back
\* to is on the disk and whole, whatever prune does and wherever it fails.
THEOREM SnapshotStaysAtHand == SnapshotsSpec => []SnapshotAtHand
<1>1. DInv => SnapshotAtHand
  <2> SUFFICES ASSUME DInv, script.saved PROVE \E i \in DOMAIN disk : disk[i].own /\ disk[i].whole
    BY DEF SnapshotAtHand
  <2>1. Len(disk) \in DOMAIN disk /\ disk[Len(disk)].own /\ disk[Len(disk)].whole
    BY FilesAre DEF DInv, SnapshotsTypeOK, NewestOwn
  <2> QED BY <2>1
<1> QED BY <1>1, SnapshotsInvariant, PTL

\* After a release that succeeds the disk holds no more files of a kind than
\* configured, and no more bytes but for the exempt files, even though earlier
\* releases failed or died anywhere, prune included.
THEOREM RetentionKept == SnapshotsSpec => []RetentionHolds
<1>1. DInv => RetentionHolds
  <2> SUFFICES ASSUME DInv, report = "success" /\ At("idle") PROVE RetentionHolds
    BY DEF RetentionHolds
  <2> DEFINE all == DOMAIN disk
             exempt == {i \in all : \/ i = Len(disk)
                                    \/ i \in Of(TRUE, all) /\ \A j \in Of(TRUE, all) : j <= i}
  <2>1. Retained(disk, all) /\ disk \in Seq(File)
    BY DEF DInv, Limited, SnapshotsTypeOK, At
  <2>2. /\ Of(TRUE, all) = Migrations(disk, all)
        /\ Of(FALSE, all) = all \ Migrations(disk, all)
    BY <2>1, FilesAre DEF Of, Migrations
  <2>3. exempt = Exempt(disk, all)
    <3>1. \A i \in all : i = Len(disk) <=> \A j \in all : j <= i
      BY <2>1, FilesAre
    <3>2. \A i \in all : i \in Migrations(disk, all) <=> disk[i].migration
      BY DEF Migrations
    <3> QED BY <2>2, <3>1, <3>2 DEF Exempt
  <2> HIDE DEF all, exempt
  <2>4. /\ Cardinality(Of(TRUE, all)) <= KeepMigrations
        /\ Cardinality(Of(FALSE, all)) <= KeepReleases
        /\ Bytes(all) <= MaxBytes \/ Bytes(all \ exempt) < MaxBytes
    BY <2>1, <2>2, <2>3, BytesAre DEF Retained
  <2> QED BY <2>4 DEF RetentionHolds, all, exempt
<1> QED BY <1>1, SnapshotsInvariant, PTL

\* The files stay typed; and what holds of a release holds of one that keeps
\* and prunes its snapshots.
THEOREM SnapshotsTyped == SnapshotsSpec => [](SnapshotsTypeOK /\ ReleaseTypeOK)
<1>1. RInv /\ DInv => SnapshotsTypeOK /\ ReleaseTypeOK
  BY DEF RInv, DInv
<1> QED BY <1>1, SnapshotsInvariant, PTL
=============================================================================
