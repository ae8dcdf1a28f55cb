---------------------------- MODULE EventLog_proofs ----------------------------
(* Theorems about EventLog: for any number of tasks, readers and records.     *)
EXTENDS EventLog, FiniteSetTheorems, TLAPS

-----------------------------------------------------------------------------
(* The invariant *)

\* An event is owed, or written, once for every change at most.
AuditsOwed ==
  /\ \A r \in log : r.id <= lastId
  /\ \A r, s \in log : r.id = s.id => r = s
  /\ \A o \in owed : o[2] \in 1..moves[o[1]]
  /\ AuditTrue

\* A reader has passed everything from before_id up, and what it looks for is
\* not something that is written later.
ReaderPassed(r) ==
  reader[r].pc # "idle" =>
    /\ ~reader[r].again
    /\ reader[r].due \subseteq 0..lastId
    /\ \A x \in log : x.id \in reader[r].due => x \in Matching(reader[r].audit)
    /\ reader[r].pc = "reading" =>
         /\ \A i \in reader[r].got : i >= reader[r].before
         /\ \A i \in reader[r].due \intersect Ids(log) :
              i >= reader[r].before => i \in reader[r].got
    /\ reader[r].pc = "done" => reader[r].due \intersect Ids(log) \subseteq reader[r].got

LogInv ==
  /\ LogTypeOK
  /\ AuditsOwed
  /\ \A r \in Reader : ReaderPassed(r)

LEMMA LogInit ==
  Init => LogInv
<1> SUFFICES ASSUME Init PROVE LogInv
  OBVIOUS
<1>1. LogTypeOK
  BY FS_EmptySet DEF Init, LogTypeOK
<1>2. AuditsOwed
  BY DEF Init, AuditsOwed, AuditTrue, Audits
<1>3. \A r \in Reader : ReaderPassed(r)
  BY DEF Init, ReaderPassed, NotReading
<1> QED BY <1>1, <1>2, <1>3 DEF LogInv

\* What a reader is, by its step.
LEMMA ReaderHas ==
  ASSUME LogTypeOK, NEW r \in Reader
  PROVE  /\ reader[r].pc \in {"idle", "reading", "done"}
         /\ reader[r].pc # "idle" =>
              /\ reader[r] \in Reading
              /\ reader[r].audit \in BOOLEAN /\ reader[r].before \in Nat
              /\ reader[r].got \subseteq Nat /\ reader[r].due \subseteq Nat
              /\ reader[r].again \in BOOLEAN
<1>1. reader[r] = NotReading \/ reader[r] \in Reading
  BY DEF LogTypeOK
<1> QED BY <1>1 DEF NotReading, Reading

-----------------------------------------------------------------------------
(* Its steps *)

\* emit(): one record more, with an id nobody has seen, or none.
LEMMA Written ==
  ASSUME LogInv, NEW task \in Task \union {None}, NEW n \in Nat, Write(task, n),
         UNCHANGED <<cutoff, reader>>
  PROVE  /\ log' \in SUBSET Record /\ IsFiniteSet(log') /\ lastId' \in Nat /\ degraded' \in BOOLEAN
         /\ \A x \in log' : x.id <= lastId'
         /\ \A x \in log' \ log : x.task = task /\ x.n = n
         /\ \A x, y \in log' \ log : x = y
         /\ \A x, y \in log' : x.id = y.id => x = y
         /\ log \subseteq log'
         /\ \A r \in Reader : ReaderPassed(r)'
<1> DEFINE new == [id |-> lastId + 1, task |-> task, n |-> n]
<1>1. /\ lastId \in Nat /\ log \in SUBSET Record /\ IsFiniteSet(log) /\ degraded \in BOOLEAN
      /\ \A x \in log : x.id <= lastId
  BY DEF LogInv, LogTypeOK, AuditsOwed
<1>2. \/ log' = log \union {new} /\ lastId' = lastId + 1 /\ degraded' = FALSE
      \/ log' = log /\ lastId' = lastId /\ degraded' = TRUE
  BY DEF Write
<1>3. new \in Record /\ new.id = lastId + 1 /\ new.task = task /\ new.n = n
  BY <1>1 DEF Record
<1> HIDE DEF new
<1>4. /\ log' \in SUBSET Record /\ lastId' \in Nat /\ degraded' \in BOOLEAN
      /\ \A x \in log' : x.id <= lastId'
      /\ log \subseteq log' /\ \A x \in log' \ log : x = new
  <2>1. degraded' \in BOOLEAN
    BY <1>2
  <2>2. /\ log' \in SUBSET Record /\ lastId' \in Nat
        /\ log \subseteq log' /\ \A x \in log' \ log : x = new
    BY <1>1, <1>2, <1>3
  <2>3. \A x \in log : x.id \in Nat
    BY <1>1 DEF Record
  <2>4. \A x \in log' : x.id <= lastId'
    BY <1>1, <1>2, <1>3, <2>3
  <2> QED BY <2>1, <2>2, <2>4
<1>5. IsFiniteSet(log')
  BY <1>1, <1>2, FS_AddElement
<1>6. ASSUME NEW r \in Reader, reader[r].pc # "idle"
      PROVE  /\ ~reader[r].again
             /\ reader[r].due \subseteq 0..lastId'
             /\ \A x \in log' : x.id \in reader[r].due => x \in Matching(reader[r].audit)'
             /\ \A i \in Ids(log') : i \in reader[r].due => i \in Ids(log)
  <2>1. /\ ~reader[r].again
        /\ reader[r].due \subseteq 0..lastId
        /\ \A x \in log : x.id \in reader[r].due => x \in Matching(reader[r].audit)
    BY <1>6 DEF LogInv, ReaderPassed
  <2>2. \A x \in log' : x.id \in reader[r].due => x \in log
    BY <1>1, <1>2, <1>3, <2>1
  <2>3. reader[r].due \subseteq 0..lastId'
    BY <1>1, <1>2, <2>1
  <2>4. ASSUME NEW x \in log', x.id \in reader[r].due
        PROVE  x \in Matching(reader[r].audit)'
    BY <1>4, <2>1, <2>2, <2>4 DEF Matching, Audits
  <2> QED BY <2>1, <2>2, <2>3, <2>4 DEF Ids
<1>7. \A r \in Reader : ReaderPassed(r)'
  BY <1>6 DEF LogInv, ReaderPassed
<1>8. \A x, y \in log' : x.id = y.id => x = y
  <2>1. \A x, y \in log : x.id = y.id => x = y
    BY DEF LogInv, AuditsOwed
  <2>2. \A x \in log : x.id # lastId + 1
    BY <1>1
  <2> QED BY <1>3, <1>4, <2>1, <2>2
<1> QED BY <1>3, <1>4, <1>5, <1>7, <1>8

LEMMA EmitStep ==
  ASSUME LogInv, EmitPlain \/ \E t \in Task, n \in Nat : EmitAudit(t, n)
  PROVE  LogInv'
<1>1. PICK task \in Task \union {None}, n \in Nat :
        /\ Write(task, n)
        /\ UNCHANGED <<cutoff, moves, reader>>
        /\ owed' \subseteq owed
        /\ task # None => <<task, n>> \in owed /\ <<task, n>> \notin owed'
  BY DEF EmitPlain, EmitAudit
<1>2. /\ log' \in SUBSET Record /\ IsFiniteSet(log') /\ lastId' \in Nat /\ degraded' \in BOOLEAN
      /\ \A x \in log' : x.id <= lastId'
      /\ \A x \in log' \ log : x.task = task /\ x.n = n
      /\ \A x, y \in log' \ log : x = y
      /\ \A x, y \in log' : x.id = y.id => x = y
      /\ log \subseteq log'
      /\ \A r \in Reader : ReaderPassed(r)'
  BY <1>1, Written
<1>3. LogTypeOK'
  BY <1>1, <1>2 DEF LogInv, LogTypeOK
<1>4. /\ \A o \in owed : o[2] \in 1..moves[o[1]]
      /\ \A x \in Audits(log) : x.n \in 1..moves[x.task] /\ <<x.task, x.n>> \notin owed
      /\ \A x, y \in Audits(log) : x.task = y.task /\ x.n = y.n => x = y
  BY DEF LogInv, AuditsOwed, AuditTrue
<1>5. \A x \in Audits(log') : x \notin log => x.task = task /\ x.n = n /\ <<task, n>> \in owed
  BY <1>1, <1>2 DEF Audits
<1>6. \A x \in Audits(log') : x \in log => x \in Audits(log)
  BY DEF Audits
<1>7. ASSUME NEW x \in Audits(log')
      PROVE  /\ x.n \in 1..moves[x.task] /\ <<x.task, x.n>> \notin owed'
             /\ \A y \in Audits(log') : y.task = x.task /\ y.n = x.n => y = x
  <2>1. CASE x \in log
    <3>1. x.n \in 1..moves[x.task] /\ <<x.task, x.n>> \notin owed
      BY <1>4, <1>6, <1>7, <2>1
    <3>2. ASSUME NEW y \in Audits(log'), y.task = x.task, y.n = x.n
          PROVE  y = x
      BY <1>4, <1>5, <1>6, <1>7, <2>1, <3>1, <3>2
    <3> QED BY <1>1, <3>1, <3>2
  <2>2. CASE x \notin log
    <3>1. x.task = task /\ x.n = n /\ <<task, n>> \in owed /\ task # None
      BY <1>5, <1>7, <2>2 DEF Audits
    <3>2. <<x.task, x.n>>[2] \in 1..moves[<<x.task, x.n>>[1]]
      BY <1>4, <3>1
    <3>3. ASSUME NEW y \in Audits(log'), y.task = x.task, y.n = x.n
          PROVE  y = x
      <4>1. y \notin log
        BY <1>4, <1>6, <3>1, <3>3
      <4> QED BY <1>2, <1>7, <2>2, <3>3, <4>1 DEF Audits
    <3> QED BY <1>1, <3>1, <3>2, <3>3
  <2> QED BY <2>1, <2>2
<1>8. \A o \in owed' : o[2] \in 1..moves[o[1]]
  BY <1>1, <1>4
<1>9. AuditsOwed'
  BY <1>1, <1>2, <1>7, <1>8 DEF AuditsOwed, AuditTrue
<1> QED BY <1>2, <1>3, <1>9 DEF LogInv

\* Steps that leave the log and its readers alone.
LEMMA LogKept ==
  ASSUME LogInv, UNCHANGED <<log, lastId, reader>>
  PROVE  \A r \in Reader : ReaderPassed(r)'
BY DEF LogInv, ReaderPassed, Matching, Audits, Ids

LEMMA ChangeStep ==
  ASSUME LogInv, NEW t \in Task, Change(t)
  PROVE  LogInv'
<1>1. /\ moves \in [Task -> Nat] /\ owed \subseteq Task \X Nat
      /\ moves' = [moves EXCEPT ![t] = @ + 1]
      /\ owed' = owed \union {<<t, moves[t] + 1>>}
      /\ UNCHANGED <<log, lastId, cutoff, degraded, reader>>
  BY DEF LogInv, LogTypeOK, Change
<1>2. \A s \in Task : moves'[s] \in Nat /\ moves[s] \in Nat /\ moves[s] <= moves'[s]
  BY <1>1
<1>3. LogTypeOK'
  BY <1>1, <1>2 DEF LogInv, LogTypeOK
<1>4. \A o \in owed' : o[2] \in 1..moves'[o[1]]
  <2>1. ASSUME NEW o \in owed PROVE o[2] \in 1..moves'[o[1]]
    <3>1. o[1] \in Task /\ o[2] \in 1..moves[o[1]]
      BY <1>1 DEF LogInv, AuditsOwed
    <3> QED BY <1>2, <3>1
  <2>2. moves[t] + 1 \in 1..moves'[t]
    BY <1>1
  <2> QED BY <1>1, <2>1, <2>2
<1>5. AuditTrue'
  <2>1. ASSUME NEW x \in Audits(log)
        PROVE  x.n \in 1..moves'[x.task] /\ <<x.task, x.n>> \notin owed'
    <3>1. x.task \in Task /\ x.n \in 1..moves[x.task] /\ <<x.task, x.n>> \notin owed
      BY <2>1 DEF LogInv, LogTypeOK, AuditsOwed, AuditTrue, Audits, Record
    <3>2. x.n \in 1..moves'[x.task]
      BY <1>2, <3>1
    <3>3. <<x.task, x.n>> # <<t, moves[t] + 1>>
      BY <1>2, <3>1
    <3> QED BY <1>1, <3>1, <3>2, <3>3
  <2> QED BY <1>1, <2>1 DEF LogInv, AuditsOwed, AuditTrue, Audits
<1> QED BY <1>1, <1>3, <1>4, <1>5, LogKept DEF LogInv, AuditsOwed

LEMMA CrashStep ==
  ASSUME LogInv, Crash \/ Age
  PROVE  LogInv'
<1>1. /\ UNCHANGED <<log, lastId, moves, reader>> /\ owed' \subseteq owed
      /\ cutoff' \in Nat /\ degraded' \in BOOLEAN
  <2>1. CASE Crash
    BY <2>1 DEF Crash, LogInv, LogTypeOK
  <2>2. CASE Age
    BY <2>2 DEF Age, LogInv, LogTypeOK
  <2> QED BY <2>1, <2>2
<1>2. LogTypeOK'
  BY <1>1 DEF LogInv, LogTypeOK
<1>3. AuditsOwed'
  BY <1>1 DEF LogInv, AuditsOwed, AuditTrue, Audits
<1> QED BY <1>1, <1>2, <1>3, LogKept DEF LogInv

\* Retention removes records, and gives none to a reader.
LEMMA MaintainStep ==
  ASSUME LogInv, Maintain
  PROVE  LogInv'
<1>1. log' \subseteq log /\ UNCHANGED <<lastId, cutoff, degraded, moves, owed, reader>>
  BY DEF Maintain, Newest, Plain, Audits
<1>2. LogTypeOK'
  <2>1. IsFiniteSet(log')
    BY <1>1, FS_Subset DEF LogInv, LogTypeOK
  <2> QED BY <1>1, <2>1 DEF LogInv, LogTypeOK
<1>3. AuditsOwed'
  BY <1>1 DEF LogInv, AuditsOwed, AuditTrue, Audits
<1>4. \A r \in Reader : ReaderPassed(r)'
  BY <1>1 DEF LogInv, ReaderPassed, Matching, Audits, Ids
<1> QED BY <1>2, <1>3, <1>4 DEF LogInv

LEMMA BeginReadingStep ==
  ASSUME LogInv, NEW r \in Reader, NEW audit \in BOOLEAN, BeginReading(r, audit)
  PROVE  LogInv'
<1> DEFINE new == [pc |-> "reading", audit |-> audit, before |-> lastId + 1,
                   got |-> {}, due |-> Ids(Matching(audit)), again |-> FALSE]
<1>1. /\ reader' = [reader EXCEPT ![r] = new]
      /\ UNCHANGED <<log, lastId, cutoff, degraded, moves, owed>>
      /\ reader \in [Reader -> {NotReading} \union Reading]
      /\ lastId \in Nat /\ log \in SUBSET Record
  BY DEF BeginReading, LogInv, LogTypeOK
<1>2. /\ \A x \in log : x.id \in Nat /\ x.id <= lastId
      /\ Matching(audit) \subseteq log
  BY <1>1 DEF LogInv, AuditsOwed, Record, Matching, Audits
<1>3. Ids(Matching(audit)) \subseteq 0..lastId
  BY <1>1, <1>2 DEF Ids
<1>4. new \in Reading
  BY <1>1, <1>3 DEF Reading
<1>5. LogTypeOK'
  BY <1>1, <1>4 DEF LogInv, LogTypeOK
<1>6. AuditsOwed'
  BY <1>1 DEF LogInv, AuditsOwed, AuditTrue, Audits
<1>7. ASSUME NEW q \in Reader
      PROVE  ReaderPassed(q)'
  <2>1. CASE q = r
    <3>1. reader'[q] = new
      BY <1>1, <2>1
    <3>2. \A i \in Ids(log) : ~(i >= lastId + 1)
      BY <1>1, <1>2 DEF Ids
    <3>3. \A x \in log : x.id \in Ids(Matching(audit)) => x \in Matching(audit)
      BY <1>2 DEF LogInv, AuditsOwed, Ids
    <3> QED BY <1>1, <1>3, <3>1, <3>2, <3>3 DEF ReaderPassed, Matching, Audits, Ids
  <2>2. CASE q # r
    BY <1>1, <2>2 DEF LogInv, ReaderPassed, Matching, Audits, Ids
  <2> QED BY <2>1, <2>2
<1> QED BY <1>5, <1>6, <1>7 DEF LogInv

\* What a page holds of the records it was selected from.
LEMMA PageHas ==
  ASSUME NEW records, NEW page, Newest(page, records, Limit), NEW before \in Nat,
         \A x \in records : x.id \in Nat,
         Cardinality(page) = Limit => NextBefore(page, before)
  PROVE  \A x \in records : x \in page \/ (Cardinality(page) = Limit /\ x.id < before)
<1> SUFFICES ASSUME NEW x \in records, x \notin page
             PROVE  Cardinality(page) = Limit /\ x.id < before
  OBVIOUS
<1>1. Cardinality(page) = Limit
  BY DEF Newest
<1>2. PICK y \in page : before = y.id
  BY <1>1 DEF NextBefore
<1> QED BY <1>1, <1>2 DEF Newest

LEMMA NextPageStep ==
  ASSUME LogInv, NEW r \in Reader, NextPage(r)
  PROVE  LogInv'
<1> DEFINE me == reader[r]
<1>1. /\ reader \in [Reader -> {NotReading} \union Reading]
      /\ UNCHANGED <<log, lastId, cutoff, degraded, moves, owed>>
      /\ me.pc = "reading" /\ me.before \in Nat /\ me \in Reading /\ me.audit \in BOOLEAN
      /\ me.got \subseteq Nat /\ me.due \subseteq Nat
      /\ \A x \in log : x.id \in Nat
  BY ReaderHas DEF NextPage, LogInv, LogTypeOK, Record
<1>2. PICK page \in SUBSET Older(r), before \in Nat :
        /\ Newest(page, Older(r), Limit)
        /\ Cardinality(page) = Limit => NextBefore(page, before)
        /\ Cardinality(page) # Limit => before = me.before
        /\ reader' = [reader EXCEPT ![r] =
             [pc |-> IF Cardinality(page) = Limit THEN "reading" ELSE "done",
              audit |-> me.audit, before |-> before,
              got |-> me.got \union Ids(page), due |-> me.due,
              again |-> me.again \/ Ids(page) \intersect me.got # {}]]
  BY DEF NextPage
<1> DEFINE full == Cardinality(page) = Limit
           new == [pc |-> IF full THEN "reading" ELSE "done", audit |-> me.audit,
                   before |-> before, got |-> me.got \union Ids(page), due |-> me.due,
                   again |-> me.again \/ Ids(page) \intersect me.got # {}]
<1>3. reader' = [reader EXCEPT ![r] = new]
  BY <1>1, <1>2
<1>4. /\ Older(r) = {x \in Matching(me.audit) : x.id < me.before}
      /\ Matching(me.audit) \subseteq log
      /\ page \subseteq Older(r)
      /\ \A x \in Older(r) : x \in page \/ (full /\ x.id < before)
  <2>1. Older(r) = {x \in Matching(me.audit) : x.id < me.before}
    BY DEF Older
  <2>2. Matching(me.audit) \subseteq log
    BY DEF Matching, Audits
  <2>3. \A x \in Older(r) : x.id \in Nat
    BY <1>1, <2>1, <2>2
  <2> QED BY <1>2, <2>1, <2>2, <2>3, PageHas
<1>5. \A i \in Ids(page) : i \in Nat /\ i < me.before
  BY <1>1, <1>4 DEF Ids
<1>6. /\ before <= me.before
      /\ full => \A i \in Ids(page) : i >= before
  BY <1>1, <1>2, <1>4, <1>5 DEF NextBefore, Ids
<1>7. /\ ~me.again /\ me.due \subseteq 0..lastId
      /\ \A x \in log : x.id \in me.due => x \in Matching(me.audit)
      /\ \A i \in me.got : i >= me.before
      /\ \A i \in me.due \intersect Ids(log) : i >= me.before => i \in me.got
  BY <1>1 DEF LogInv, ReaderPassed
<1>8. Ids(page) \intersect me.got = {}
  BY <1>1, <1>5, <1>7
<1>9. \A i \in me.due \intersect Ids(log) :
        i \in me.got \union Ids(page) \/ (full /\ i < before)
  <2> SUFFICES ASSUME NEW x \in log, x.id \in me.due, x.id \notin me.got
               PROVE  x.id \in Ids(page) \/ (full /\ x.id < before)
    BY DEF Ids
  <2>1. x.id < me.before /\ x \in Matching(me.audit)
    BY <1>1, <1>7 DEF Ids
  <2> QED BY <1>4, <2>1 DEF Ids
<1>10. ReaderPassed(r)'
  <2>1. reader'[r] = new
    BY <1>1, <1>3
  <2>2. ~new.again
    BY <1>7, <1>8
  <2>3. full => /\ \A i \in new.got : i >= before
                /\ \A i \in me.due \intersect Ids(log) : i >= before => i \in new.got
    BY <1>1, <1>5, <1>6, <1>7, <1>9
  <2>4. ~full => me.due \intersect Ids(log) \subseteq new.got
    BY <1>9
  <2>5. \A x \in log : x.id \in me.due => x \in Matching(me.audit)
    BY <1>7
  <2> QED BY <1>1, <1>7, <2>1, <2>2, <2>3, <2>4, <2>5 DEF ReaderPassed, Matching, Audits
<1>11. \A q \in Reader \ {r} : ReaderPassed(q)'
  BY <1>1, <1>3 DEF LogInv, ReaderPassed, Matching, Audits, Ids
<1>12. LogTypeOK'
  <2>1. Ids(page) \subseteq Nat
    BY <1>5
  <2>2. new \in Reading
    BY <1>1, <1>2, <1>7, <1>8, <2>1 DEF Reading
  <2> QED BY <1>1, <1>3, <2>2 DEF LogInv, LogTypeOK
<1>13. AuditsOwed'
  BY <1>1 DEF LogInv, AuditsOwed, AuditTrue, Audits
<1> QED BY <1>10, <1>11, <1>12, <1>13 DEF LogInv

-----------------------------------------------------------------------------
(* The theorems *)

\* Log, changes and readers fit together at every step.
THEOREM LogInvariant ==
  Spec => []LogInv
<1>1. LogInv /\ [Next]_vars => LogInv'
  <2> SUFFICES ASSUME LogInv, [Next]_vars PROVE LogInv'
    OBVIOUS
  <2>1. CASE UNCHANGED vars
    BY <2>1, LogKept DEF vars, LogInv, LogTypeOK, AuditsOwed, AuditTrue, Audits
  <2>2. CASE EmitPlain \/ \E t \in Task, n \in 1..MaxMoves : EmitAudit(t, n)
    BY <2>2, EmitStep, LogAssumption
  <2>3. CASE Crash \/ Age
    BY <2>3, CrashStep
  <2>4. CASE Maintain
    BY <2>4, MaintainStep
  <2>5. CASE \E t \in Task : Change(t)
    BY <2>5, ChangeStep
  <2>6. CASE \E r \in Reader : \/ \E audit \in BOOLEAN : BeginReading(r, audit)
                               \/ NextPage(r)
    BY <2>6, BeginReadingStep, NextPageStep
  <2> QED BY <2>1, <2>2, <2>3, <2>4, <2>5, <2>6 DEF Next
<1> QED BY <1>1, LogInit, PTL DEF Spec

\* Log and readers stay typed.
THEOREM LogTyped ==
  Spec => []LogTypeOK
<1>1. LogInv => LogTypeOK
  BY DEF LogInv
<1> QED BY <1>1, LogInvariant, PTL

\* No reader misses a record that is still there, or gets one twice.
THEOREM PagesHold ==
  Spec => []PagesComplete
<1>1. LogInv => PagesComplete
  BY ReaderHas DEF LogInv, ReaderPassed, PagesComplete
<1> QED BY <1>1, LogInvariant, PTL

\* Audit events tell of what happened, each once.
THEOREM AuditsHold ==
  Spec => []AuditTrue
<1>1. LogInv => AuditTrue
  BY DEF LogInv, AuditsOwed
<1> QED BY <1>1, LogInvariant, PTL

\* Retention takes old records and those beyond LOG_MAX_ROWS, never an audit.
THEOREM LossesHold ==
  Spec => LossesAllowed
<1> DEFINE Allowed ==
      \A r \in log \ log' :
        /\ r.task = None
        /\ \/ r.id <= cutoff
           \/ Cardinality({s \in Plain(log') : s.id > r.id}) >= MaxRows
<1>1. LogInv /\ [Next]_vars => Allowed
  <2> SUFFICES ASSUME LogInv, [Next]_vars, NEW r \in log \ log'
               PROVE  /\ r.task = None
                      /\ \/ r.id <= cutoff
                         \/ Cardinality({s \in Plain(log') : s.id > r.id}) >= MaxRows
    OBVIOUS
  <2>1. Maintain
    BY DEF Next, vars, EmitPlain, EmitAudit, Write, Crash, Age, Change, BeginReading, NextPage
  <2> DEFINE young == {x \in Plain(log) : x.id > cutoff}
  <2>2. PICK kept \in SUBSET young : Newest(kept, young, MaxRows) /\ log' = Audits(log) \union kept
    BY <2>1 DEF Maintain
  <2>3. r.task = None /\ r \notin kept
    BY <2>2 DEF Audits
  <2>4. CASE r \in young
    <3>1. Cardinality(kept) = MaxRows /\ \A s \in kept : s.id > r.id
      BY <2>2, <2>3, <2>4 DEF Newest, LogInv, LogTypeOK, Record, Plain
    <3>2. {s \in Plain(log') : s.id > r.id} = kept
      BY <2>2, <3>1 DEF Plain, Audits
    <3> QED BY <2>3, <3>1, <3>2, LogAssumption
  <2>5. CASE r \notin young
    BY <2>3, <2>5 DEF LogInv, LogTypeOK, Record, Plain
  <2> QED BY <2>4, <2>5
<1> QED BY <1>1, LogInvariant, PTL DEF Spec, LossesAllowed
===============================================================================
