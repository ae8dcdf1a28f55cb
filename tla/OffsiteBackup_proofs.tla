------------------------- MODULE OffsiteBackup_proofs -------------------------
(* Theorems about Migration, for every database a start may find, and about   *)
(* OffsiteBackup with it: for any number of tasks, backups, directories and   *)
(* failures.                                                                  *)
EXTENDS OffsiteBackup, TLAPS

-----------------------------------------------------------------------------
(***************************************************************************)
(* Migration                                                               *)
(***************************************************************************)
-----------------------------------------------------------------------------
(* Databases *)

\* What it takes to be a database of some version.
LEMMA DatabaseHas ==
  ASSUME NEW d \in Database
  PROVE  /\ d = [version |-> d.version, task |-> d.task, preset |-> d.preset]
         /\ d.version \in 0..SchemaVersion
         /\ d.task \in Rows(d.version)
         /\ d.preset \in BOOLEAN
         /\ d.preset => d.version >= 3
         /\ d.version >= 3 => d.preset \/ \A t \in Task : d.task[t] = NoRow
<1>1. PICK v \in 0..SchemaVersion : d \in [version : {v}, task : Rows(v), preset : BOOLEAN]
  BY DEF Database
<1> QED BY <1>1 DEF Database

LEMMA DatabaseMade ==
  ASSUME NEW v \in 0..SchemaVersion, NEW f \in Rows(v), NEW p \in BOOLEAN,
         p => v >= 3,
         v >= 3 => p \/ \A t \in Task : f[t] = NoRow
  PROVE  [version |-> v, task |-> f, preset |-> p] \in Database
<1> DEFINE d == [version |-> v, task |-> f, preset |-> p]
<1>1. d \in [version : {v}, task : Rows(v), preset : BOOLEAN]
  OBVIOUS
<1>2. d.version = v /\ d.task = f /\ d.preset = p
  OBVIOUS
<1> QED BY <1>1, <1>2 DEF Database

\* A stored task of a database has a row that its version allows.
LEMMA RowHas ==
  ASSUME NEW d \in Database, NEW t \in Task
  PROVE  d.task[t] = NoRow \/ (d.version # 0 /\ d.task[t] \in RowOf(d.version))
<1>1. d.task \in Rows(d.version) /\ d.version \in 0..SchemaVersion
  BY DatabaseHas
<1> QED BY <1>1 DEF Rows

-----------------------------------------------------------------------------
(* Rows *)

\* A step takes a row of one version to a row of the next, unless the next
\* version's CHECK refuses it.
LEMMA ConvertTyped ==
  ASSUME NEW v \in 1..SchemaVersion - 1, NEW row \in RowOf(v),
         v >= 3 => Consistent(Convert(v, row))
  PROVE  Convert(v, row) \in RowOf(v + 1)
<1>1. row \in Row /\ row # NoRow
  BY MigrationAssumption DEF RowOf
<1>2. CASE v = 1
  <2>1. Convert(v, row) = ToV2(row)
    BY <1>1, <1>2 DEF Convert
  <2>2. ToV2(row) \in Row /\ ToV2(row).object \in ObjectV2 /\ ToV2(row).client = row.client
    BY <1>1 DEF ToV2, Row, Object, ObjectV2
  <2> QED BY <1>2, <2>1, <2>2 DEF RowOf
<1>3. CASE v = 2
  BY <1>1, <1>3 DEF Convert, RowOf
<1>4. CASE v = 3
  <2>1. Convert(v, row) = ToV4(row)
    BY <1>1, <1>4 DEF Convert
  <2>2. row.object \in ObjectV2 /\ row.client = NoClient
    BY <1>4 DEF RowOf
  <2>3. ToV4(row) \in Row /\ ToV4(row).client = NoClient
    BY <1>1, <2>2 DEF ToV4, Row, Object, ObjectV2
  <2>4. Owned(ToV4(row))
    <3>1. ToV4(row).object = "present" => row.token
      BY <1>1, <2>2 DEF ToV4, Row, ObjectV2, Status, Undecided
    <3>2. ToV4(row).object = "present_unclaimed" => ~row.token
      BY <1>1, <2>2 DEF ToV4, Row, ObjectV2, Status, Undecided
    <3>3. ToV4(row).token = row.token
      BY <1>1 DEF ToV4, Row
    <3> QED BY <3>1, <3>2, <3>3 DEF Owned
  <2> QED BY <1>4, <2>1, <2>3, <2>4 DEF RowOf
<1>5. CASE v = 4
  <2>1. Convert(v, row) = ToV5(row)
    BY <1>1, <1>5 DEF Convert
  <2>2. ToV5(row) \in Row /\ ToV5(row).client = Legacy
    BY <1>1 DEF ToV5, Row
  <2>3. Owned(ToV5(row))
    BY <1>1, <1>5 DEF ToV5, Row, Owned, RowOf
  <2> QED BY <1>5, <2>1, <2>2, <2>3 DEF RowOf
<1> QED BY <1>2, <1>3, <1>4, <1>5 DEF SchemaVersion

\* Only tasks of version 1 have no object_status: what later versions make of
\* one depends on its status alone.
FromVersion1(old, new) ==
  /\ old.object = "none" =>
       new.object \in {"none"} \union
         (IF old.status = "succeeded" THEN {"legacy_unverified"}
          ELSE IF old.status = "failed" THEN {"absent"} ELSE {"pending"})
  /\ new.object = "none" => old.object = "none"

\* Steps may be taken one after the other: what a row says of a task after one
\* more of them is still covered by the row the task began with.
LEMMA ConvertTells ==
  ASSUME NEW v \in 1..SchemaVersion - 1, NEW row \in RowOf(v), NEW old \in Row,
         Tells(old, row), FromVersion1(old, row)
  PROVE  Tells(old, Convert(v, row)) /\ FromVersion1(old, Convert(v, row))
<1>1. row \in Row /\ row # NoRow
  BY MigrationAssumption DEF RowOf
<1>2. CASE v = 1
  <2>1. Convert(v, row) = ToV2(row) /\ row.object = "none"
    BY <1>1, <1>2 DEF Convert, RowOf
  <2>2. old.object = "none"
    BY <2>1 DEF FromVersion1
  <2> QED BY <1>1, <2>1, <2>2 DEF Tells, FromVersion1, ToV2, Row, Object, ObjectV2, Status, Undecided
<1>3. CASE v = 2
  BY <1>1, <1>3 DEF Convert
<1>4. CASE v = 3
  <2>1. Convert(v, row) = ToV4(row) /\ row.object \in ObjectV2
    BY <1>1, <1>4 DEF Convert, RowOf
  <2>2. /\ ToV4(row).status = row.status /\ ToV4(row).token = row.token
        /\ ToV4(row).client = row.client
    BY <1>1 DEF ToV4, Row
  <2>3. row.status \in Status
    BY <1>1 DEF Row
  <2>4. CASE row.status = "failed"
    <3>1. ToV4(row).object = "absent"
      BY <1>1, <2>4 DEF ToV4, Row, Undecided
    <3> QED BY <2>1, <2>2, <2>4, <3>1 DEF Tells, FromVersion1, Undecided, ObjectV2
  <2>5. CASE row.status \in Undecided
    <3>1. ToV4(row).object = "pending"
      BY <1>1, <2>5 DEF ToV4, Row, Undecided
    <3> QED BY <2>1, <2>2, <2>5, <3>1 DEF Tells, FromVersion1, Undecided, ObjectV2
  <2>6. CASE row.status = "succeeded" /\ row.object \in {"present", "pending"}
    <3>1. ToV4(row).object = IF row.token THEN "present" ELSE "present_unclaimed"
      BY <1>1, <2>6 DEF ToV4, Row, Undecided
    <3>2. row.token \in BOOLEAN /\ old.token = row.token /\ old.status = "succeeded"
      BY <1>1, <2>6 DEF Row, Tells
    <3>3. old.object \in {"present", "pending"}
      BY <2>6, <3>2 DEF Tells, FromVersion1, Undecided
    <3> QED BY <2>1, <2>2, <2>6, <3>1, <3>2, <3>3 DEF Tells, FromVersion1
  <2>7. CASE row.status = "succeeded" /\ row.object \notin {"present", "pending"}
    <3>1. ToV4(row).object = row.object
      BY <1>1, <2>7 DEF ToV4, Row, Undecided
    <3> QED BY <2>1, <2>2, <3>1 DEF Tells, FromVersion1
  <2> QED BY <2>3, <2>4, <2>5, <2>6, <2>7 DEF Status
<1>5. CASE v = 4
  <2>1. Convert(v, row) = ToV5(row) /\ row.client = NoClient
    BY <1>1, <1>5 DEF Convert, RowOf
  <2> QED BY <1>1, <2>1 DEF Tells, FromVersion1, ToV5, Row
<1> QED BY <1>2, <1>3, <1>4, <1>5 DEF SchemaVersion

-----------------------------------------------------------------------------
(* The invariant *)

\* A start works on the version it has read: it alone changes the database.
AtVersion ==
  /\ start.pc = "copy" => start.at = db.version /\ db.version \in 1..SchemaVersion - 1
  /\ start.pc = "migrate" => start.at = db.version /\ db.version \in 0..SchemaVersion - 1
  /\ start.pc = "verify" => db.version = SchemaVersion
  /\ start.pc = "serve" => Sound

\* A start that has begun to migrate has made its copy, or an earlier one has.
CopyMade == start.pc = "migrate" => origin.version = 0 \/ origin \in copies

\* MigrationFaithful, and what carries it through the next step.
Faithful(from, to) ==
  \A t \in Task :
    /\ to.task[t] = NoRow <=> from.task[t] = NoRow
    /\ to.task[t] # NoRow => /\ Tells(from.task[t], to.task[t])
                             /\ FromVersion1(from.task[t], to.task[t])

MigrationInv ==
  /\ MigrationTypeOK
  /\ AtVersion
  /\ CopyMade
  /\ UpgradeCopied
  /\ Faithful(origin, db)

\* A database tells of every task what it tells.
LEMMA FaithfulToItself ==
  ASSUME NEW d \in Database
  PROVE  Faithful(d, d)
<1> SUFFICES ASSUME NEW t \in Task, d.task[t] # NoRow
             PROVE  Tells(d.task[t], d.task[t]) /\ FromVersion1(d.task[t], d.task[t])
  BY DEF Faithful
<1> DEFINE row == d.task[t]
<1>1. d.version \in 1..SchemaVersion /\ row \in RowOf(d.version)
  BY RowHas, DatabaseHas DEF SchemaVersion
<1>2. row.object = "present_unclaimed" => ~row.token
  <2>1. CASE d.version = 1
    BY <1>1, <2>1 DEF RowOf
  <2>2. CASE d.version \in {2, 3}
    BY <1>1, <2>2 DEF RowOf, ObjectV2
  <2>3. CASE d.version \in {4, 5}
    BY <1>1, <2>3 DEF RowOf, Owned
  <2> QED BY <1>1, <2>1, <2>2, <2>3 DEF SchemaVersion
<1>3. row.object = "none" => row.object \notin ObjectV2
  BY DEF ObjectV2
<1> QED BY <1>2 DEF Tells, FromVersion1

\* The step of a version that its CHECK lets through: a database of the next.
LEMMA MigrateTyped ==
  ASSUME db \in Database, NEW v \in 1..SchemaVersion - 1, db.version = v, ~Refused(v)
  PROVE  /\ Converted(v) \in Rows(v + 1)
         /\ [version |-> v + 1, task |-> Converted(v),
             preset |-> db.preset \/ v = 2] \in Database
<1>1. \A t \in Task : /\ Converted(v)[t] = NoRow <=> db.task[t] = NoRow
                      /\ Converted(v)[t] # NoRow => Converted(v)[t] \in RowOf(v + 1)
  <2> SUFFICES ASSUME NEW t \in Task
               PROVE  /\ Converted(v)[t] = NoRow <=> db.task[t] = NoRow
                      /\ Converted(v)[t] # NoRow => Converted(v)[t] \in RowOf(v + 1)
    OBVIOUS
  <2>1. Converted(v)[t] = Convert(v, db.task[t])
    BY DEF Converted
  <2>2. CASE db.task[t] = NoRow
    BY <2>1, <2>2 DEF Convert
  <2>3. CASE db.task[t] # NoRow
    <3>1. db.task[t] \in RowOf(v)
      BY <2>3, RowHas
    <3>2. Convert(v, db.task[t]) \in Row
      <4>1. db.task[t] \in Row
        BY <3>1 DEF RowOf
      <4> QED BY <2>3, <4>1 DEF Convert, ToV2, ToV4, ToV5, Row, Object, ObjectV2
    <3>3. Convert(v, db.task[t]) # NoRow
      BY <3>2, MigrationAssumption
    <3>4. v >= 3 => Consistent(Convert(v, db.task[t]))
      BY <2>1, <3>3 DEF Refused
    <3> QED BY <2>1, <2>3, <3>1, <3>3, <3>4, ConvertTyped
  <2> QED BY <2>2, <2>3
<1>2. Converted(v) \in Rows(v + 1)
  <2>1. Converted(v) = [t \in Task |-> Converted(v)[t]]
    BY DEF Converted
  <2>2. v + 1 # 0
    BY DEF SchemaVersion
  <2> QED BY <1>1, <2>1, <2>2 DEF Rows
<1>3. /\ v + 1 \in 0..SchemaVersion /\ (db.preset \/ v = 2) \in BOOLEAN
      /\ db.preset \/ v = 2 => v + 1 >= 3
      /\ v + 1 >= 3 => (db.preset \/ v = 2) \/ \A t \in Task : Converted(v)[t] = NoRow
  BY <1>1, DatabaseHas DEF SchemaVersion
<1> QED BY <1>2, <1>3, DatabaseMade

LEMMA MigrateFaithful ==
  ASSUME db \in Database, origin \in Database, Faithful(origin, db),
         NEW v \in 1..SchemaVersion - 1, db.version = v, ~Refused(v), NEW t \in Task
  PROVE  /\ Converted(v)[t] = NoRow <=> origin.task[t] = NoRow
         /\ Converted(v)[t] # NoRow => /\ Tells(origin.task[t], Converted(v)[t])
                                       /\ FromVersion1(origin.task[t], Converted(v)[t])
<1>1. Converted(v)[t] = Convert(v, db.task[t])
  BY DEF Converted
<1>2. CASE db.task[t] = NoRow
  BY <1>1, <1>2 DEF Convert, Faithful
<1>3. CASE db.task[t] # NoRow
  <2>1. db.task[t] \in RowOf(v)
    BY <1>3, RowHas
  <2>2. origin.task[t] # NoRow /\ origin.task[t] \in Row
    BY <1>3, RowHas DEF Faithful, RowOf
  <2>3. Tells(origin.task[t], Convert(v, db.task[t])) /\ FromVersion1(origin.task[t], Convert(v, db.task[t]))
    BY <1>3, <2>1, <2>2, ConvertTells DEF Faithful
  <2>4. Convert(v, db.task[t]) # NoRow
    <3>1. db.task[t] \in Row
      BY <2>1 DEF RowOf
    <3>2. Convert(v, db.task[t]) \in Row
      BY <1>3, <3>1 DEF Convert, ToV2, ToV4, ToV5, Row, Object, ObjectV2
    <3> QED BY <3>2, MigrationAssumption
  <2> QED BY <1>1, <2>2, <2>3, <2>4
<1> QED BY <1>2, <1>3

-----------------------------------------------------------------------------
(* Its steps *)

LEMMA InitInv ==
  MigrationInit => MigrationInv
<1> SUFFICES ASSUME MigrationInit PROVE MigrationInv
  OBVIOUS
<1>1. db \in Database /\ origin = db
  BY DatabaseAssumption DEF MigrationInit
<1>2. MigrationTypeOK
  BY <1>1, MigrationAssumption DEF MigrationInit, MigrationTypeOK, SchemaVersion
<1>3. Faithful(origin, db)
  BY <1>1, FaithfulToItself
<1> QED BY <1>1, <1>2, <1>3 DEF MigrationInit, MigrationInv, AtVersion, CopyMade, UpgradeCopied

\* A step that leaves the database as it is and the copies that were made.
LEMMA DatabaseKept ==
  ASSUME MigrationInv, UNCHANGED <<db, origin>>, copies \subseteq copies'
  PROVE  Faithful(origin, db)' /\ UpgradeCopied'
BY DEF MigrationInv, Faithful, UpgradeCopied

LEMMA OpenStep ==
  ASSUME MigrationInv, Open
  PROVE  MigrationInv'
<1>1. db \in Database /\ db.version \in 0..SchemaVersion
  BY DatabaseHas DEF MigrationInv, MigrationTypeOK
<1>2. MigrationTypeOK'
  BY <1>1 DEF MigrationInv, MigrationTypeOK, Open, Go, SchemaVersion
<1>3. AtVersion'
  BY <1>1 DEF Open, Go, AtVersion, SchemaVersion
<1>4. CopyMade'
  BY <1>1 DEF MigrationInv, UpgradeCopied, Open, Go, CopyMade, SchemaVersion
<1>5. Faithful(origin, db)' /\ UpgradeCopied'
  BY DatabaseKept DEF Open
<1> QED BY <1>2, <1>3, <1>4, <1>5 DEF MigrationInv

LEMMA CopyStep ==
  ASSUME MigrationInv, CopyDatabase \/ CopyFails
  PROVE  MigrationInv'
<1>1. /\ UNCHANGED <<db, origin>> /\ copies \subseteq copies'
      /\ copies' \subseteq copies \union {db, Broken}
      /\ faults' \in 0..MaxFaults
      /\ start.pc = "copy"
  BY MigrationAssumption DEF MigrationInv, MigrationTypeOK, CopyDatabase, CopyFails, Fault
<1>2. MigrationTypeOK'
  BY <1>1 DEF MigrationInv, MigrationTypeOK, CopyDatabase, CopyFails, Go, SchemaVersion
<1>3. AtVersion'
  BY <1>1 DEF MigrationInv, AtVersion, CopyDatabase, CopyFails, Go, SchemaVersion
<1>4. CopyMade'
  BY <1>1 DEF MigrationInv, UpgradeCopied, CopyMade, CopyDatabase, CopyFails, Go
<1>5. Faithful(origin, db)' /\ UpgradeCopied'
  BY <1>1, DatabaseKept
<1> QED BY <1>2, <1>3, <1>4, <1>5 DEF MigrationInv

LEMMA CreateSchemaStep ==
  ASSUME MigrationInv, CreateSchema
  PROVE  MigrationInv'
<1>1. db \in Database /\ db.version = 0 /\ ~db.preset /\ \A t \in Task : db.task[t] = NoRow
  BY DatabaseHas, RowHas DEF MigrationInv, MigrationTypeOK, AtVersion, CreateSchema
<1>2. /\ db' = [version |-> SchemaVersion, task |-> db.task, preset |-> db.preset]
      /\ UNCHANGED <<origin, copies, faults>>
      /\ start' = [pc |-> "verify", at |-> SchemaVersion]
  BY <1>1, DatabaseHas DEF CreateSchema, Go
<1>3. db.task \in Rows(SchemaVersion)
  BY <1>1, DatabaseHas DEF Rows, SchemaVersion
<1>4. db' \in Database
  BY <1>1, <1>2, <1>3, DatabaseMade, DatabaseHas DEF SchemaVersion
<1>5. MigrationTypeOK'
  BY <1>2, <1>4 DEF MigrationInv, MigrationTypeOK, SchemaVersion
<1>6. AtVersion' /\ CopyMade'
  BY <1>2 DEF AtVersion, CopyMade
<1>7. UpgradeCopied'
  BY <1>2 DEF MigrationInv, UpgradeCopied, CopyMade, CreateSchema
<1>8. Faithful(origin, db)'
  BY <1>1, <1>2 DEF MigrationInv, Faithful
<1> QED BY <1>5, <1>6, <1>7, <1>8 DEF MigrationInv

LEMMA MigrateStep ==
  ASSUME MigrationInv, Migrate
  PROVE  MigrationInv'
<1> DEFINE v == start.at
<1>1. /\ db \in Database /\ origin \in Database
      /\ v \in 1..SchemaVersion - 1 /\ db.version = v
      /\ ~Refused(v) /\ start.pc = "migrate"
  BY DEF MigrationInv, MigrationTypeOK, AtVersion, Migrate
<1>2. /\ db' = [version |-> v + 1, task |-> Converted(v), preset |-> db.preset \/ v = 2]
      /\ UNCHANGED <<origin, copies, faults>>
      /\ start' = [pc |-> IF v + 1 = SchemaVersion THEN "verify" ELSE "migrate", at |-> v + 1]
  BY DEF Migrate, Go
<1>3. db' \in Database
  BY <1>1, <1>2, MigrateTyped
<1>4. MigrationTypeOK'
  BY <1>1, <1>2, <1>3 DEF MigrationInv, MigrationTypeOK, SchemaVersion
<1>5. AtVersion' /\ CopyMade'
  BY <1>1, <1>2 DEF MigrationInv, AtVersion, CopyMade, SchemaVersion
<1>6. UpgradeCopied'
  BY <1>1, <1>2 DEF MigrationInv, UpgradeCopied, CopyMade
<1>7. Faithful(origin, db)'
  <2> SUFFICES ASSUME NEW t \in Task
               PROVE  /\ db'.task[t] = NoRow <=> origin.task[t] = NoRow
                      /\ db'.task[t] # NoRow => /\ Tells(origin.task[t], db'.task[t])
                                                /\ FromVersion1(origin.task[t], db'.task[t])
    BY <1>2 DEF Faithful
  <2>1. db'.task[t] = Converted(v)[t]
    BY <1>2
  <2>2. Faithful(origin, db)
    BY DEF MigrationInv
  <2> QED BY <1>1, <2>1, <2>2, MigrateFaithful
<1> QED BY <1>4, <1>5, <1>6, <1>7 DEF MigrationInv

\* The steps that end a start, or begin to serve.
LEMMA EndStep ==
  ASSUME MigrationInv, MigrateRefused \/ Verify \/ StopService \/ Crash
  PROVE  MigrationInv'
<1>1. /\ UNCHANGED <<db, origin, copies>> /\ faults' \in 0..MaxFaults
      /\ \/ start' = [pc |-> "down", at |-> 0]
         \/ start.pc = "verify" /\ start' = [pc |-> IF Sound THEN "serve" ELSE "down", at |-> start.at]
  BY MigrationAssumption
     DEF MigrationInv, MigrationTypeOK, MigrateRefused, Verify, StopService, Crash, Go, Fault
<1>2. MigrationTypeOK'
  BY <1>1 DEF MigrationInv, MigrationTypeOK, SchemaVersion
<1>3. AtVersion' /\ CopyMade'
  BY <1>1 DEF MigrationInv, AtVersion, CopyMade, Sound
<1>4. Faithful(origin, db)' /\ UpgradeCopied'
  BY <1>1, DatabaseKept
<1> QED BY <1>2, <1>3, <1>4 DEF MigrationInv

\* Whatever puts a database in place that nobody has begun to upgrade.
LEMMA NewOrigin ==
  ASSUME MigrationInv, db' \in Database, origin' = db', UNCHANGED <<copies, start, faults>>,
         start.pc = "down" \/ (start.pc = "serve" /\ Sound')
  PROVE  MigrationInv'
<1>1. Faithful(origin, db)'
  <2>1. Faithful(db', db')
    BY FaithfulToItself
  <2> QED BY <2>1 DEF Faithful
<1> QED BY <1>1 DEF MigrationInv, MigrationTypeOK, AtVersion, CopyMade, UpgradeCopied

LEMMA WorkStep ==
  ASSUME MigrationInv, Work
  PROVE  MigrationInv'
<1>1. PICK t \in Task, row \in Written \union {NoRow} :
        db' = [db EXCEPT !.task[t] = row, !.preset = TRUE]
  BY DEF Work
<1>2. /\ db \in Database /\ db.version = SchemaVersion /\ start.pc = "serve"
      /\ origin' = db' /\ UNCHANGED <<copies, start, faults>>
  BY DEF MigrationInv, MigrationTypeOK, AtVersion, Sound, Work
<1> DEFINE f == [db.task EXCEPT ![t] = row]
<1>3. db' = [version |-> SchemaVersion, task |-> f, preset |-> TRUE]
  <2>1. db = [version |-> SchemaVersion, task |-> db.task, preset |-> db.preset]
    BY <1>2, DatabaseHas
  <2>2. db' = [[db EXCEPT !.task[t] = row] EXCEPT !.preset = TRUE]
    BY <1>1
  <2>3. [db EXCEPT !.task[t] = row] = [version |-> SchemaVersion, task |-> f, preset |-> db.preset]
    BY <2>1
  <2> QED BY <2>2, <2>3
<1>4. f \in Rows(SchemaVersion)
  <2>1. row \in RowOf(5) \union {NoRow}
    BY MigrationAssumption
  <2> QED BY <1>2, <2>1, DatabaseHas DEF Rows, SchemaVersion
<1>5. db' \in Database
  <2> HIDE DEF f
  <2>1. SchemaVersion \in 0..SchemaVersion /\ SchemaVersion >= 3
    BY DEF SchemaVersion
  <2> QED BY <1>3, <1>4, <2>1, DatabaseMade
<1> QED BY <1>2, <1>3, <1>5, NewOrigin DEF Sound

LEMMA MigrationStep ==
  MigrationInv /\ [MigrationNext]_migrationVars => MigrationInv'
<1> SUFFICES ASSUME MigrationInv, [MigrationNext]_migrationVars PROVE MigrationInv'
  OBVIOUS
<1>1. CASE UNCHANGED migrationVars
  BY <1>1 DEF migrationVars, MigrationInv, MigrationTypeOK, AtVersion, Sound, CopyMade,
              UpgradeCopied, Faithful
<1>2. CASE MigrationNext
  BY <1>2, OpenStep, CopyStep, CreateSchemaStep, MigrateStep, EndStep, WorkStep
  DEF MigrationNext, StartStep
<1> QED BY <1>1, <1>2

-----------------------------------------------------------------------------
(* What the invariant says *)

LEMMA MigrationMeans ==
  MigrationInv => MigrationFaithful /\ UpgradeCopied /\ ServesOwned
<1> SUFFICES ASSUME MigrationInv PROVE MigrationFaithful /\ UpgradeCopied /\ ServesOwned
  OBVIOUS
<1>1. MigrationFaithful
  BY DEF MigrationInv, Faithful, MigrationFaithful
<1>2. ServesOwned
  <2> SUFFICES ASSUME start.pc = "serve", NEW t \in Task, db.task[t] # NoRow
               PROVE  /\ Consistent(db.task[t]) /\ Owned(db.task[t])
                      /\ db.task[t].client # NoClient
                      /\ db.preset
    BY DEF ServesOwned, MigrationInv, AtVersion, Sound
  <2>1. db \in Database /\ db.version = 5 /\ db.preset
    BY DEF MigrationInv, MigrationTypeOK, AtVersion, Sound, SchemaVersion
  <2>2. db.task[t] \in RowOf(5)
    BY <2>1, RowHas
  <2> QED BY <2>1, <2>2, MigrationAssumption DEF RowOf
<1> QED BY <1>1, <1>2 DEF MigrationInv

-----------------------------------------------------------------------------
(***************************************************************************)
(* OffsiteBackup                                                           *)
(***************************************************************************)

-----------------------------------------------------------------------------
(* The invariant *)

\* What is in the bucket: the database that was sent, or nothing that decrypts.
ArchivesSent ==
  /\ \A id \in Uploaded : remote[id].db \in {taken[id], Broken}
  /\ \A id \in reported : Intact(id)

\* Database, then key, of one archive that decrypts; a directory is used once.
DirectoriesFilled ==
  \A d \in Directory :
    /\ ~dir[d].exists => dir[d] = NoDirectory
    /\ dir[d].db \in Uploaded \union {NoBackup, Partial}
    /\ dir[d].db \in Uploaded => Intact(dir[d].db)
    /\ dir[d].key # NoBackup => dir[d].key \in Uploaded /\ dir[d].db = dir[d].key

\* What a running command relies on.
CommandKnows ==
  /\ command.pc = "put" => Len(remote) < MaxBackup
  /\ command.pc \in {"head", "verify", "write", "key"} => command.id \in Uploaded
  /\ command.pc \in {"write", "key"} =>
       /\ Intact(command.id)
       /\ dir[command.into].exists /\ dir[command.into].key = NoBackup
       /\ dir[command.into].db = IF command.pc = "write" THEN NoBackup ELSE command.id

BackupInv ==
  /\ MigrationInv
  /\ BackupTypeOK
  /\ ArchivesSent
  /\ DirectoriesFilled
  /\ CommandKnows

\* What a command is made of, by its step.
LEMMA CommandHas ==
  ASSUME command \in Commands
  PROVE  /\ command.pc \in {"idle", "put", "head", "verify", "write", "key"}
         /\ command.pc = "idle" <=> command = Idle
         /\ command.pc = "put" => /\ command.verify \in BOOLEAN /\ command.db \in Database
         /\ command.pc \in {"head", "verify"} =>
              /\ command = [pc |-> command.pc, verify |-> command.verify, id |-> command.id]
              /\ command.verify \in BOOLEAN /\ command.id \in Backup
         /\ command.pc \in {"write", "key"} =>
              /\ command = [pc |-> command.pc, id |-> command.id, into |-> command.into]
              /\ command.id \in Backup /\ command.into \in Directory
BY DEF Commands, Idle

\* The commands leave the database alone.
LEMMA MigrationKept ==
  ASSUME MigrationInv, UNCHANGED <<db, origin, copies, start>>, faults' \in 0..MaxFaults
  PROVE  MigrationInv'
BY DEF MigrationInv, MigrationTypeOK, AtVersion, Sound, CopyMade, UpgradeCopied, Faithful

LEMMA BackupInit ==
  Init => BackupInv
<1> SUFFICES ASSUME Init PROVE BackupInv
  OBVIOUS
<1>1. MigrationInv
  BY InitInv DEF Init
<1>2. BackupTypeOK
  BY <1>1, BackupAssumption
  DEF Init, BackupTypeOK, MigrationInv, NoDirectory, DirectoryState, NoBackup, Partial, Commands
<1>3. Uploaded = {}
  BY DEF Init, Uploaded
<1> QED BY <1>1, <1>2, <1>3
  DEF Init, BackupInv, ArchivesSent, DirectoriesFilled, CommandKnows, NoDirectory, NoBackup, Idle

-----------------------------------------------------------------------------
(* Its steps *)

\* create, create-verify: the bucket grows, the directories stay.
LEMMA BuildStep ==
  ASSUME BackupInv, NEW verify \in BOOLEAN, Build(verify)
  PROVE  BackupInv'
<1>1. MigrationInv'
  BY MigrationKept DEF BackupInv, MigrationInv, MigrationTypeOK, Build, migrationVars
<1>2. BackupTypeOK'
  BY DEF BackupInv, BackupTypeOK, MigrationTypeOK, Build, migrationVars, Commands, Uploaded
<1> QED BY <1>1, <1>2
  DEF BackupInv, ArchivesSent, DirectoriesFilled, CommandKnows, Build, migrationVars, Uploaded, Intact

LEMMA PutStep ==
  ASSUME BackupInv, Put
  PROVE  BackupInv'
<1> DEFINE n == Len(remote)
<1>1. PICK blob \in {[db |-> command.db, short |-> FALSE]} \union [db : {Broken}, short : BOOLEAN] :
        remote' = Append(remote, blob)
  BY DEF Put
<1>2. /\ command.pc = "put" /\ command.verify \in BOOLEAN /\ command.db \in Database
      /\ taken' = Append(taken, command.db)
      /\ command' = [pc |-> "head", verify |-> command.verify, id |-> n + 1]
      /\ UNCHANGED <<migrationVars, reported, dir>>
  BY CommandHas DEF BackupInv, BackupTypeOK, Put
<1>3. /\ remote \in Seq(Blob) /\ taken \in Seq(Database) /\ Len(taken) = n /\ n \in Nat
      /\ blob \in Blob /\ blob.db \in {command.db, Broken}
  <2>1. remote \in Seq(Blob) /\ taken \in Seq(Database) /\ Len(taken) = n
    BY DEF BackupInv, BackupTypeOK
  <2>2. n \in Nat
    BY <2>1
  <2>3. blob \in Blob /\ blob.db \in {command.db, Broken}
    <3>1. CASE blob = [db |-> command.db, short |-> FALSE]
      BY <1>2, <3>1 DEF Blob
    <3>2. CASE blob \in [db : {Broken}, short : BOOLEAN]
      BY <3>2 DEF Blob
    <3> QED BY <1>1, <3>1, <3>2
  <2> QED BY <2>1, <2>2, <2>3
<1>4. n < MaxBackup /\ MaxBackup \in Nat
  BY <1>2, BackupAssumption DEF BackupInv, CommandKnows
<1> HIDE DEF n
<1>5. /\ remote' \in Seq(Blob) /\ taken' \in Seq(Database)
      /\ Len(remote') = n + 1 /\ Len(taken') = n + 1
      /\ \A id \in 1..n : remote'[id] = remote[id] /\ taken'[id] = taken[id]
      /\ remote'[n + 1] = blob /\ taken'[n + 1] = command.db
  BY <1>1, <1>2, <1>3 DEF n
<1>6. Uploaded = 1..n /\ Uploaded' = 1..n + 1
  BY <1>5 DEF Uploaded, n
<1>7. MigrationInv'
  BY <1>2, MigrationKept DEF BackupInv, MigrationInv, MigrationTypeOK, migrationVars
<1>8. BackupTypeOK'
  <2>1. command' \in Commands
    BY <1>2, <1>3, <1>4 DEF Commands, Backup
  <2> QED BY <1>2, <1>3, <1>4, <1>5, <1>6, <1>7, <2>1 DEF BackupInv, MigrationInv, BackupTypeOK
<1>9. ArchivesSent'
  <2>1. \A id \in Uploaded' : remote'[id].db \in {taken'[id], Broken}
    BY <1>3, <1>5, <1>6 DEF BackupInv, ArchivesSent
  <2>2. \A id \in reported' : id \in 1..n /\ remote[id].db # Broken
    BY <1>2, <1>6 DEF BackupInv, BackupTypeOK, ArchivesSent, Intact
  <2> QED BY <1>5, <2>1, <2>2 DEF ArchivesSent, Intact
<1>10. DirectoriesFilled'
  <2> SUFFICES ASSUME NEW d \in Directory
               PROVE  /\ ~dir[d].exists => dir[d] = NoDirectory
                      /\ dir[d].db \in 1..n + 1 \union {NoBackup, Partial}
                      /\ dir[d].db \in 1..n + 1 => remote'[dir[d].db].db # Broken
                      /\ dir[d].key # NoBackup => dir[d].key \in 1..n + 1 /\ dir[d].db = dir[d].key
    BY <1>2, <1>6 DEF DirectoriesFilled, Intact
  <2>1. /\ ~dir[d].exists => dir[d] = NoDirectory
        /\ dir[d].db \in 1..n \union {NoBackup, Partial}
        /\ dir[d].db \in 1..n => remote[dir[d].db].db # Broken
        /\ dir[d].key # NoBackup => dir[d].key \in 1..n /\ dir[d].db = dir[d].key
    BY <1>6 DEF BackupInv, DirectoriesFilled, Intact
  <2> QED BY <1>3, <1>4, <1>5, <2>1 DEF Partial, NoBackup
<1> QED BY <1>2, <1>3, <1>6, <1>7, <1>8, <1>9, <1>10 DEF BackupInv, CommandKnows

LEMMA CheckSizeStep ==
  ASSUME BackupInv, CheckSize
  PROVE  BackupInv'
<1>1. /\ UNCHANGED <<migrationVars, remote, taken, reported, dir>>
      /\ command.pc = "head" /\ command.verify \in BOOLEAN /\ command.id \in Backup
      /\ command = [pc |-> command.pc, verify |-> command.verify, id |-> command.id]
      /\ \/ command' = [command EXCEPT !.pc = "verify"]
         \/ command' = Idle
  BY CommandHas DEF BackupInv, BackupTypeOK, CheckSize
<1>2. \/ command' = [pc |-> "verify", verify |-> command.verify, id |-> command.id]
      \/ command' = [pc |-> "idle"]
  BY <1>1 DEF Idle
<1>3. command' \in Commands
  BY <1>1, <1>2 DEF Commands, Idle
<1>4. MigrationInv'
  BY <1>1, MigrationKept DEF BackupInv, MigrationInv, MigrationTypeOK, migrationVars
<1>5. BackupTypeOK'
  BY <1>1, <1>3, <1>4 DEF BackupInv, BackupTypeOK, MigrationInv, Uploaded
<1>6. CommandKnows'
  BY <1>1, <1>2 DEF BackupInv, CommandKnows, Uploaded
<1> QED BY <1>1, <1>4, <1>5, <1>6
  DEF BackupInv, ArchivesSent, DirectoriesFilled, Uploaded, Intact

LEMMA ReadBackStep ==
  ASSUME BackupInv, ReadBack
  PROVE  BackupInv'
<1>1. /\ UNCHANGED <<migrationVars, remote, taken, dir>>
      /\ command' = Idle /\ command.id \in Uploaded
      /\ reported' = IF Intact(command.id) THEN reported \union {command.id} ELSE reported
  BY DEF BackupInv, CommandKnows, ReadBack
<1>2. MigrationInv'
  BY <1>1, MigrationKept DEF BackupInv, MigrationInv, MigrationTypeOK, migrationVars
<1>3. BackupTypeOK'
  BY <1>1, <1>2 DEF BackupInv, BackupTypeOK, MigrationInv, Uploaded, Commands
<1>4. ArchivesSent'
  BY <1>1 DEF BackupInv, ArchivesSent, Uploaded, Intact
<1>5. CommandKnows'
  BY <1>1 DEF CommandKnows, Idle
<1> QED BY <1>1, <1>2, <1>3, <1>4, <1>5 DEF BackupInv, DirectoriesFilled, Uploaded, Intact

\* restore: the bucket stays, one directory changes.
LEMMA DirectoryStep ==
  ASSUME BackupInv, UNCHANGED <<migrationVars, remote, taken, reported>>,
         NEW d \in Directory, NEW entry \in DirectoryState, dir' = [dir EXCEPT ![d] = entry],
         entry.exists, entry.db \in Uploaded \union {NoBackup, Partial},
         entry.db \in Uploaded => Intact(entry.db),
         entry.key # NoBackup => entry.key \in Uploaded /\ entry.db = entry.key,
         command' \in Commands, CommandKnows'
  PROVE  BackupInv'
<1>1. MigrationInv'
  BY MigrationKept DEF BackupInv, MigrationInv, MigrationTypeOK, migrationVars
<1>2. BackupTypeOK'
  BY <1>1 DEF BackupInv, BackupTypeOK, MigrationInv, Uploaded
<1>3. DirectoriesFilled'
  BY DEF BackupInv, BackupTypeOK, DirectoriesFilled, Uploaded, Intact
<1> QED BY <1>1, <1>2, <1>3 DEF BackupInv, ArchivesSent, Uploaded, Intact

LEMMA RestoreStep ==
  ASSUME BackupInv, NEW id \in Backup, NEW d \in Directory, Restore(id, d)
  PROVE  BackupInv'
<1>1. /\ UNCHANGED <<migrationVars, remote, taken, reported>>
      /\ id \in Uploaded /\ Intact(id)
      /\ dir' = [dir EXCEPT ![d] = EmptyDirectory]
      /\ command' = [pc |-> "write", id |-> id, into |-> d]
  BY DEF Restore
<1>2. /\ EmptyDirectory \in DirectoryState /\ EmptyDirectory.exists
      /\ EmptyDirectory.db = NoBackup /\ EmptyDirectory.key = NoBackup
  BY BackupAssumption DEF EmptyDirectory, DirectoryState, NoBackup, Partial
<1>3. command' \in Commands
  BY <1>1 DEF Commands
<1>4. CommandKnows'
  BY <1>1, <1>2 DEF BackupInv, BackupTypeOK, CommandKnows, Uploaded, Intact
<1>5. NoBackup \notin Uploaded
  BY DEF NoBackup, Uploaded
<1> QED BY <1>1, <1>2, <1>3, <1>4, <1>5, DirectoryStep

LEMMA WriteStep ==
  ASSUME BackupInv, WriteDatabase \/ WriteKey
  PROVE  BackupInv'
<1> DEFINE d == command.into
           id == command.id
           entry == [exists |-> TRUE, db |-> id,
                     key |-> IF command.pc = "write" THEN NoBackup ELSE id]
<1>1. /\ UNCHANGED <<migrationVars, remote, taken, reported>>
      /\ command.pc \in {"write", "key"} /\ d \in Directory /\ id \in Backup
      /\ id \in Uploaded /\ Intact(id)
      /\ dir[d].exists /\ dir[d].key = NoBackup
      /\ dir[d].db = IF command.pc = "write" THEN NoBackup ELSE id
      /\ dir[d] \in DirectoryState
  BY CommandHas DEF BackupInv, BackupTypeOK, CommandKnows, WriteDatabase, WriteKey
<1>2. dir' = [dir EXCEPT ![d] = entry]
  <2>1. dir[d] = [exists |-> TRUE, db |-> IF command.pc = "write" THEN NoBackup ELSE id,
                  key |-> NoBackup]
    BY <1>1 DEF DirectoryState
  <2>2. CASE command.pc = "write"
    BY <1>1, <2>1, <2>2 DEF WriteDatabase, WriteKey
  <2>3. CASE command.pc = "key"
    BY <1>1, <2>1, <2>3 DEF WriteDatabase, WriteKey
  <2> QED BY <1>1, <2>2, <2>3
<1>3. entry \in DirectoryState
  BY <1>1, BackupAssumption DEF DirectoryState, NoBackup, Partial, Backup
<1>4. command' = IF command.pc = "write" THEN [pc |-> "key", id |-> id, into |-> d] ELSE Idle
  BY <1>1, CommandHas DEF BackupInv, BackupTypeOK, WriteDatabase, WriteKey
<1>5. command' \in Commands
  BY <1>1, <1>4 DEF Commands
<1>6. CommandKnows'
  BY <1>1, <1>2, <1>4 DEF BackupInv, BackupTypeOK, CommandKnows, Uploaded, Intact, Idle
<1> QED BY <1>1, <1>2, <1>3, <1>5, <1>6, DirectoryStep

LEMMA KillStep ==
  ASSUME BackupInv, Kill
  PROVE  BackupInv'
<1>1. /\ UNCHANGED <<db, origin, copies, start, remote, taken, reported>>
      /\ command' = Idle /\ faults' \in 0..MaxFaults
      /\ \/ UNCHANGED dir
         \/ command.pc = "write" /\ dir' = [dir EXCEPT ![command.into] = CutShort]
  BY MigrationAssumption DEF BackupInv, MigrationInv, MigrationTypeOK, Kill, Fault
<1>2. MigrationInv'
  BY <1>1, MigrationKept DEF BackupInv
<1>3. command' \in Commands /\ CommandKnows'
  BY <1>1 DEF Commands, CommandKnows, Idle
<1>4. CASE UNCHANGED dir
  <2>1. BackupTypeOK'
    BY <1>1, <1>2, <1>3, <1>4 DEF BackupInv, BackupTypeOK, MigrationInv, Uploaded
  <2> QED BY <1>1, <1>2, <1>3, <1>4, <2>1
        DEF BackupInv, ArchivesSent, DirectoriesFilled, Uploaded, Intact
<1>5. CASE command.pc = "write" /\ dir' = [dir EXCEPT ![command.into] = CutShort]
  <2> DEFINE d == command.into
  <2>1. d \in Directory /\ dir \in [Directory -> DirectoryState]
    BY <1>5, CommandHas DEF BackupInv, BackupTypeOK
  <2>2. dir' = [dir EXCEPT ![d] = CutShort]
    BY <1>5
  <2>3. /\ CutShort \in DirectoryState /\ CutShort.exists
        /\ CutShort.db = Partial /\ CutShort.key = NoBackup
    BY BackupAssumption DEF CutShort, DirectoryState, Partial, NoBackup
  <2>4. Partial \notin Uploaded
    BY BackupAssumption DEF BackupInv, BackupTypeOK, Partial, Uploaded
  <2>5. BackupTypeOK'
    BY <1>1, <1>2, <1>3, <2>1, <2>2, <2>3 DEF BackupInv, BackupTypeOK, MigrationInv, Uploaded
  <2>6. DirectoriesFilled'
    BY <1>1, <2>1, <2>2, <2>3, <2>4 DEF BackupInv, DirectoriesFilled, Uploaded, Intact
  <2> QED BY <1>1, <1>2, <1>3, <2>5, <2>6 DEF BackupInv, ArchivesSent, Uploaded, Intact
<1> QED BY <1>1, <1>4, <1>5

\* What is put in place is a database some process once committed.
LEMMA PutInPlaceStep ==
  ASSUME BackupInv, NEW d \in Directory, PutInPlace(d)
  PROVE  BackupInv'
<1>1. /\ UNCHANGED <<copies, start, faults, backupVars>>
      /\ start.pc = "down" /\ dir[d].db \in Uploaded
      /\ db' = remote[dir[d].db].db /\ origin' = db'
  BY DEF PutInPlace
<1>2. db' \in Database
  <2>1. remote[dir[d].db].db = taken[dir[d].db]
    BY <1>1 DEF BackupInv, ArchivesSent, DirectoriesFilled, Intact
  <2>2. taken \in Seq(Database) /\ dir[d].db \in 1..Len(taken)
    BY <1>1 DEF BackupInv, BackupTypeOK, Uploaded
  <2> QED BY <1>1, <2>1, <2>2
<1>3. MigrationInv'
  BY <1>1, <1>2, NewOrigin DEF BackupInv
<1>4. BackupTypeOK'
  BY <1>1, <1>3 DEF BackupInv, BackupTypeOK, MigrationInv, Uploaded, backupVars
<1> QED BY <1>1, <1>3, <1>4
  DEF BackupInv, ArchivesSent, DirectoriesFilled, CommandKnows, Uploaded, Intact, backupVars

\* A start, or the service, at work while no command moves.
LEMMA StartStepKeeps ==
  ASSUME BackupInv, [MigrationNext]_migrationVars, UNCHANGED backupVars
  PROVE  BackupInv'
<1>1. MigrationInv'
  BY MigrationStep DEF BackupInv
<1>2. BackupTypeOK'
  BY <1>1 DEF BackupInv, BackupTypeOK, MigrationInv, Uploaded, backupVars
<1> QED BY <1>1, <1>2
  DEF BackupInv, ArchivesSent, DirectoriesFilled, CommandKnows, Uploaded, Intact, backupVars

-----------------------------------------------------------------------------
(* The theorems *)

\* Rows, starts, archives, directories and commands fit together at every step.
THEOREM BackupInvariant ==
  Spec => []BackupInv
<1>1. BackupInv /\ [Next]_vars => BackupInv'
  <2> SUFFICES ASSUME BackupInv, [Next]_vars PROVE BackupInv'
    OBVIOUS
  <2>1. CASE UNCHANGED vars
    BY <2>1, StartStepKeeps DEF vars
  <2>2. CASE MigrationNext /\ UNCHANGED backupVars
    BY <2>2, StartStepKeeps
  <2>3. CASE BackupNext
    BY <2>3, BuildStep, PutStep, CheckSizeStep, ReadBackStep, RestoreStep, WriteStep, KillStep,
       PutInPlaceStep DEF BackupNext
  <2> QED BY <2>1, <2>2, <2>3 DEF Next
<1> QED BY <1>1, BackupInit, PTL DEF Spec

\* Database and copies, commands and archives stay typed.
THEOREM BackupTyped ==
  Spec => []BackupTypeOK
<1>1. BackupInv => BackupTypeOK
  BY DEF BackupInv
<1> QED BY <1>1, BackupInvariant, PTL

\* For every database of every version, and wherever starts die: the upgrade
\* keeps every task and makes nothing up about its object.
THEOREM UpgradesFaithful ==
  Spec => []MigrationFaithful
<1>1. BackupInv => MigrationFaithful
  BY MigrationMeans DEF BackupInv
<1> QED BY <1>1, BackupInvariant, PTL

\* As long as a database differs from what its last user left, a copy of that
\* exists.
THEOREM CopiesHold ==
  Spec => []UpgradeCopied
<1>1. BackupInv => UpgradeCopied
  BY MigrationMeans DEF BackupInv
<1> QED BY <1>1, BackupInvariant, PTL

\* The service begins with rows its handlers can work on, whatever version,
\* copy or backup they come from.
THEOREM RowsServed ==
  Spec => []ServesOwned
<1>1. BackupInv => ServesOwned
  BY MigrationMeans DEF BackupInv
<1> QED BY <1>1, BackupInvariant, PTL

\* Verified and restored backups are databases as they were committed.
THEOREM BackupsHold ==
  Spec => []BackupsRestore
<1>1. BackupInv => BackupsRestore
  <2> SUFFICES ASSUME BackupInv PROVE BackupsRestore
    OBVIOUS
  <2>1. \A id \in reported : remote[id].db = taken[id]
    BY DEF BackupInv, BackupTypeOK, ArchivesSent, Intact
  <2>2. \A d \in Directory : Complete(d) =>
          /\ dir[d].db = dir[d].key
          /\ remote[dir[d].db].db = taken[dir[d].db]
    BY DEF BackupInv, ArchivesSent, DirectoriesFilled, Complete, Intact
  <2> QED BY <2>1, <2>2 DEF BackupsRestore
<1> QED BY <1>1, BackupInvariant, PTL
===============================================================================
