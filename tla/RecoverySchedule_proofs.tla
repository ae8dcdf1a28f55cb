----------------------- MODULE RecoverySchedule_proofs -----------------------
(***************************************************************************)
(* Proofs about RecoverySchedule: what a batch holds, for any tasks and    *)
(* any RECOVERY_BATCH_SIZE.  An ORDER BY with a LIMIT is Sums's Leading.   *)
(***************************************************************************)
EXTENDS RecoverySchedule, Sums

\* The scans order tasks by the time in their rows,
ByTime == {p \in Nat \X Nat : p[1] < p[2]}

\* the work list has the uploads in front.
ByWork ==
  {p \in Nat \X Nat :
     IF p[1] \in Uploads <=> p[2] \in Uploads THEN p[1] < p[2] ELSE p[1] \in Uploads}

LEMMA RanksTasks ==
  ASSUME NEW S \in SUBSET Nat
  PROVE  Ranks(S, ByTime) /\ Ranks(S, ByWork)
<1>1. \A s, t \in S : /\ <<s, t>> \in ByTime <=> s < t
                      /\ <<s, t>> \in ByWork <=>
                           IF s \in Uploads <=> t \in Uploads THEN s < t ELSE s \in Uploads
  BY DEF ByTime, ByWork
<1>2. \A s \in S : s \in Nat
  OBVIOUS
<1> HIDE DEF ByTime, ByWork
<1> QED BY <1>1, <1>2 DEF Ranks

\* Oldest takes n tasks, or all if there are fewer.
LEMMA OldestCount ==
  ASSUME NEW S \in SUBSET Task, NEW n \in Nat
  PROVE  /\ Oldest(S, n) \subseteq S
         /\ Cardinality(Oldest(S, n)) <= n
         /\ Oldest(S, n) = S \/ Cardinality(Oldest(S, n)) = n
<1>1. S \in SUBSET Nat /\ IsFiniteSet(S)
  BY ScheduleAssumption, FS_Subset
<1>2. \A t \in S : {s \in S : s < t} = Before(S, ByTime, t)
  BY <1>1 DEF Before, ByTime
<1>3. Oldest(S, n) = Leading(S, ByTime, n)
  BY <1>2 DEF Oldest, Leading
<1> QED BY <1>1, <1>3, RanksTasks, LeadingCount

\* The next chunk takes Width tasks off the work list.
LEMMA SliceCount ==
  ASSUME pass.todo \in SUBSET Task
  PROVE  Slice \subseteq pass.todo /\ Cardinality(Slice) <= Width
<1> DEFINE S == pass.todo
<1>1. S \in SUBSET Nat /\ IsFiniteSet(S) /\ Width \in Nat
  BY ScheduleAssumption, FS_Subset
<1>2. Slice = Leading(S, ByWork, Width)
  <2>1. \A t \in S : Before(S, ByWork, t)
          = {s \in S : IF s \in Uploads <=> t \in Uploads THEN s < t ELSE s \in Uploads}
    BY <1>1 DEF Before, ByWork
  <2> QED BY <2>1 DEF Slice, Leading
<1> QED BY <1>1, <1>2, RanksTasks, LeadingCount

(***************************************************************************)
(* A batch holds no more than RECOVERY_BATCH_SIZE pending tasks, fewer     *)
(* only if it holds all, and a deletion only if it holds every upload.     *)
(***************************************************************************)
LEMMA BatchCount ==
  ASSUME state \in [Task -> {"quiet", "pending", "settled"}]
  PROVE  /\ Batch \subseteq Pending
         /\ Cardinality(Batch) <= BatchSize
         /\ Cardinality(Batch) = BatchSize \/ Batch = Pending
         /\ Pending \intersect Uploads \subseteq Batch \/ Batch \subseteq Uploads
<1> DEFINE ups == Pending \intersect Uploads
           dels == Pending \ Uploads
           U == Oldest(ups, BatchSize)
           n == BatchSize - Cardinality(U)
           D == Oldest(dels, n)
<1>1. ups \in SUBSET Task /\ dels \in SUBSET Task /\ BatchSize \in Nat /\ IsFiniteSet(Task)
  BY ScheduleAssumption DEF Pending
<1>2. /\ U \subseteq ups /\ Cardinality(U) <= BatchSize
      /\ U = ups \/ Cardinality(U) = BatchSize
  BY <1>1, OldestCount
<1>3. IsFiniteSet(U) /\ Cardinality(U) \in Nat
  BY <1>1, <1>2, FS_Subset, FS_CardinalityType
<1>4. n \in Nat
  BY <1>1, <1>2, <1>3
<1>5. /\ D \subseteq dels /\ Cardinality(D) <= n
      /\ D = dels \/ Cardinality(D) = n
  BY <1>1, <1>4, OldestCount
<1>6. IsFiniteSet(D) /\ Cardinality(D) \in Nat
  BY <1>1, <1>5, FS_Subset, FS_CardinalityType
<1>7. Batch = U \union D
  BY DEF Batch
<1>8. U \intersect D = {} /\ Pending = ups \union dels
  BY <1>2, <1>5
<1> HIDE DEF ups, dels, U, D
<1>9. Cardinality(Batch) = Cardinality(U) + Cardinality(D)
  <2>1. Cardinality(U \union D) =
          Cardinality(U) + Cardinality(D) - Cardinality(U \intersect D)
    BY <1>3, <1>6, FS_Union
  <2>2. Cardinality(U \intersect D) = 0
    BY <1>8, FS_EmptySet
  <2> QED BY <1>3, <1>6, <1>7, <2>1, <2>2
<1>10. Cardinality(Batch) <= BatchSize
  BY <1>1, <1>3, <1>5, <1>6, <1>9
<1>11. ASSUME Cardinality(Batch) # BatchSize
       PROVE  Batch = Pending
  <2>1. D = dels
    BY <1>1, <1>3, <1>5, <1>9, <1>11
  <2>2. CASE Cardinality(U) = BatchSize
    <3>1. Cardinality(D) = 0
      BY <1>1, <1>5, <1>6, <2>2
    <3> QED BY <1>1, <1>9, <1>11, <2>2, <3>1
  <2> QED BY <1>2, <1>7, <1>8, <2>1, <2>2
<1>12. ups \subseteq Batch \/ Batch \subseteq Uploads
  <2>1. CASE U = ups
    BY <1>7, <2>1
  <2>2. CASE Cardinality(U) = BatchSize
    <3>1. Cardinality(D) = 0
      BY <1>1, <1>5, <1>6, <2>2
    <3>2. D = {}
      BY <1>6, <3>1, FS_EmptySet
    <3> QED BY <1>2, <1>7, <3>2 DEF ups
  <2> QED BY <1>2, <2>1, <2>2
<1> QED BY <1>2, <1>5, <1>7, <1>8, <1>10, <1>11, <1>12 DEF ups

-----------------------------------------------------------------------------
(* What TaskLedger takes a batch for *)

\* The columns the scans select by: an upload is due as unknown, a deletion
\* as delete_unknown.
Rows ==
  [t \in Task |->
     IF t \in Uploads
     THEN CASE state[t] = "quiet"   -> [status |-> "uploading", object_status |-> "pending"]
            [] state[t] = "pending" -> [status |-> "unknown", object_status |-> "pending"]
            [] state[t] = "settled" -> [status |-> "failed", object_status |-> "absent"]
     ELSE [status |-> "succeeded",
           object_status |-> CASE state[t] = "quiet"   -> "present"
                               [] state[t] = "pending" -> "delete_unknown"
                               [] state[t] = "settled" -> "deleted"]]

Ledger == INSTANCE TaskLedger WITH
  Deleter <- {}, RecoveryBatch <- BatchSize, OutOfBand <- {},
  SlowRequests <- FALSE, LateEffects <- FALSE,
  row <- Rows, aged <- {}, store <- {}, late <- {}, misled <- {}, upload <- {}, deleter <- {},
  recovery <- {}, told <- {}

\* The batch recover() works off (app/runtime.py, 711-719) is one of those
\* TaskLedger lets a pass choose.  What is checked and proved there for any
\* choice holds for the oldest tasks.
THEOREM BatchIsOne ==
  ASSUME TypeOK
  PROVE  Ledger!Batch(Batch)
<1>1. state \in [Task -> {"quiet", "pending", "settled"}]
  BY DEF TypeOK
<1>2. ASSUME NEW t \in Task
      PROVE  /\ Ledger!PendingTask(t) <=> state[t] = "pending" /\ t \in Uploads
             /\ Ledger!PendingDeletion(t) <=> state[t] = "pending" /\ t \notin Uploads
  <2>1. state[t] \in {"quiet", "pending", "settled"}
    BY <1>1
  <2>2. CASE state[t] = "quiet"
    BY <2>2 DEF Ledger!PendingTask, Ledger!PendingDeletion, Rows
  <2>3. CASE state[t] = "pending"
    BY <2>3 DEF Ledger!PendingTask, Ledger!PendingDeletion, Rows
  <2>4. CASE state[t] = "settled"
    BY <2>4 DEF Ledger!PendingTask, Ledger!PendingDeletion, Rows
  <2> QED BY <2>1, <2>2, <2>3, <2>4
<1>3. /\ {t \in Task : Ledger!PendingTask(t)} = Pending \intersect Uploads
      /\ {t \in Task : Ledger!PendingDeletion(t)} = Pending \ Uploads
  BY <1>2 DEF Pending
<1>4. (Pending \intersect Uploads) \union (Pending \ Uploads) = Pending
  OBVIOUS
<1>5. Pending \intersect Uploads \subseteq Batch \/ Batch \subseteq Pending \intersect Uploads
  BY <1>1, BatchCount
<1>6. /\ Batch \subseteq Pending
      /\ Cardinality(Batch) <= BatchSize
      /\ Cardinality(Batch) = BatchSize \/ Batch = Pending
  BY <1>1, BatchCount
<1>7. Ledger!Cardinality(Batch) = Cardinality(Batch)
  BY DEF Ledger!Cardinality, Cardinality
<1> QED BY <1>3, <1>4, <1>5, <1>6, <1>7 DEF Ledger!Batch

\* What README.md:52 promises of the later rounds, as far as one batch can
\* keep it: while fewer tasks are stuck than a pass takes, every pass that
\* starts with a task HEAD can decide takes one.  (With as many stuck ones the
\* run schedule_starved shows passes that take none.)
THEOREM BatchMovesOn ==
  ASSUME TypeOK, Cardinality(Stuck) < BatchSize, Pending \ Stuck # {}
  PROVE  Batch \ Stuck # {}
<1> SUFFICES ASSUME Batch \subseteq Stuck
             PROVE  FALSE
  OBVIOUS
<1>1. state \in [Task -> {"quiet", "pending", "settled"}]
  BY DEF TypeOK
<1>2. Cardinality(Batch) = BatchSize \/ Batch = Pending
  BY <1>1, BatchCount
<1>3. IsFiniteSet(Stuck) /\ Cardinality(Stuck) \in Nat
  BY ScheduleAssumption, FS_Subset, FS_CardinalityType
<1>4. Cardinality(Batch) <= Cardinality(Stuck) /\ Cardinality(Batch) \in Nat
  BY <1>3, FS_Subset, FS_CardinalityType
<1>5. Cardinality(Batch) # BatchSize
  BY <1>3, <1>4, ScheduleAssumption
<1>6. Batch = Pending
  BY <1>2, <1>5
<1> QED BY <1>6

-----------------------------------------------------------------------------
(* Types and bounds *)

LEMMA EmptyWork ==
  ASSUME NEW n \in Nat
  PROVE  Cardinality({}) <= n
BY FS_EmptySet

LEMMA IdleTyped ==
  /\ Idle \in Pass
  /\ Cardinality(Idle.todo \union Idle.chunk) <= BatchSize
  /\ Cardinality(Idle.chunk) <= Width
<1>1. Idle.todo \union Idle.chunk = {} /\ Idle.chunk = {} /\ Idle \in Pass
  BY DEF Idle, Pass
<1> QED BY <1>1, EmptyWork, ScheduleAssumption

\* Work that is a part of the work before stays within the bounds.
LEMMA LessWork ==
  ASSUME TypeOK, pass' \in Pass,
         pass'.todo \union pass'.chunk \subseteq pass.todo \union pass.chunk,
         pass'.chunk \subseteq pass.chunk \/ Cardinality(pass'.chunk) <= Width
  PROVE  /\ Cardinality(pass'.todo \union pass'.chunk) <= BatchSize
         /\ Cardinality(pass'.chunk) <= Width
<1> DEFINE W == pass.todo \union pass.chunk
           V == pass'.todo \union pass'.chunk
<1>1. /\ W \in SUBSET Task /\ V \in SUBSET W
      /\ pass.chunk \in SUBSET Task /\ pass'.chunk \in SUBSET Task
      /\ BatchSize \in Nat /\ Width \in Nat /\ IsFiniteSet(Task)
  BY ScheduleAssumption DEF TypeOK, Pass
<1>2. /\ IsFiniteSet(W) /\ IsFiniteSet(V) /\ IsFiniteSet(pass.chunk) /\ IsFiniteSet(pass'.chunk)
  BY <1>1, FS_Subset
<1>3. /\ Cardinality(W) \in Nat /\ Cardinality(V) \in Nat
      /\ Cardinality(pass.chunk) \in Nat /\ Cardinality(pass'.chunk) \in Nat
  BY <1>2, FS_CardinalityType
<1>4. Cardinality(W) <= BatchSize /\ Cardinality(pass.chunk) <= Width
  BY DEF TypeOK
<1>5. Cardinality(V) <= Cardinality(W)
  BY <1>1, <1>2, FS_Subset
<1>6. pass'.chunk \subseteq pass.chunk => Cardinality(pass'.chunk) <= Cardinality(pass.chunk)
  BY <1>2, FS_Subset
<1> HIDE DEF V, W
<1>7. Cardinality(V) <= BatchSize
  BY <1>1, <1>3, <1>4, <1>5
<1>8. Cardinality(pass'.chunk) <= Width
  BY <1>1, <1>3, <1>4, <1>6
<1> QED BY <1>7, <1>8 DEF V

\* A pass never holds more tasks than RECOVERY_BATCH_SIZE nor asks for more at
\* a time than RECOVERY_MAX_CONCURRENCY (app/runtime.py, recover).
THEOREM ScheduleTyped == Spec => []TypeOK
<1>1. Init => TypeOK
  BY IdleTyped DEF Init, TypeOK
<1>2. TypeOK /\ [Next]_vars => TypeOK'
  <2> SUFFICES ASSUME TypeOK, [Next]_vars
               PROVE  TypeOK'
    OBVIOUS
  <2> USE DEF TypeOK
  <2>1. ASSUME NEW t \in Task, Become(t)
        PROVE  TypeOK'
    BY <2>1 DEF Become
  <2>2. ASSUME NEW t \in Task, Settle(t)
        PROVE  TypeOK'
    <3>1. /\ pass' \in Pass /\ pass'.chunk \subseteq pass.chunk
          /\ pass'.todo \union pass'.chunk \subseteq pass.todo \union pass.chunk
      BY <2>2 DEF Settle, Pass
    <3> QED BY <2>2, <3>1, LessWork DEF Settle
  <2>3. ASSUME NEW t \in Task, StayUndecided(t)
        PROVE  TypeOK'
    <3>1. /\ pass' \in Pass /\ pass'.chunk \subseteq pass.chunk
          /\ pass'.todo \union pass'.chunk \subseteq pass.todo \union pass.chunk
      BY <2>3 DEF StayUndecided, Pass
    <3> QED BY <2>3, <3>1, LessWork DEF StayUndecided
  <2>4. CASE StartPass
    <3>1. Batch \in SUBSET Task /\ Cardinality(Batch) <= BatchSize
      BY BatchCount DEF Pending
    <3>2. pass' \in Pass /\ pass'.todo = Batch /\ pass'.chunk = {}
      BY <2>4, <3>1 DEF StartPass, Idle, Pass
    <3>3. pass'.todo \union pass'.chunk = Batch
      BY <3>2
    <3>4. Cardinality(pass'.chunk) <= Width
      BY <3>2, EmptyWork, ScheduleAssumption
    <3> QED BY <2>4, <3>1, <3>2, <3>3, <3>4 DEF StartPass
  <2>5. CASE TakeChunk
    <3>1. Slice \subseteq pass.todo /\ Cardinality(Slice) <= Width
      BY SliceCount DEF Pass
    <3>2. /\ pass' \in Pass /\ pass'.chunk = Slice
          /\ pass'.todo \union pass'.chunk \subseteq pass.todo \union pass.chunk
      BY <2>5, <3>1 DEF TakeChunk, Pass
    <3> QED BY <2>5, <3>1, <3>2, LessWork DEF TakeChunk
  <2>6. CASE BudgetSpent
    <3>1. /\ pass' \in Pass /\ pass'.chunk \subseteq pass.chunk
          /\ pass'.todo \union pass'.chunk \subseteq pass.todo \union pass.chunk
      BY <2>6 DEF BudgetSpent, Pass
    <3> QED BY <2>6, <3>1, LessWork DEF BudgetSpent
  <2>7. CASE PassFails
    BY <2>7, IdleTyped DEF PassFails
  <2>8. CASE EndPass
    BY <2>8, IdleTyped DEF EndPass
  <2>9. CASE UNCHANGED vars
    BY <2>9 DEF vars
  <2> QED BY <2>1, <2>2, <2>3, <2>4, <2>5, <2>6, <2>7, <2>8, <2>9 DEF Next
<1> QED BY <1>1, <1>2, PTL DEF Spec
=============================================================================
