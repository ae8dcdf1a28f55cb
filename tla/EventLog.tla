------------------------------- MODULE EventLog -------------------------------
(***************************************************************************)
(* The event log: the table service_logs, who writes to it (emit in        *)
(* app/eventlog.py, called by every handler and by recovery), retention    *)
(* (maintain in app/database.py) and administrators who page through it     *)
(* while all of this goes on (dashboard_logs in app/main.py).              *)
(*                                                                         *)
(* What a deletion does to its row and the event that tells of it are two  *)
(* transactions, the row's first; the process may die between them, and a  *)
(* failed write of an event is only noted (degraded).                      *)
(***************************************************************************)
EXTENDS Naturals, FiniteSets

CONSTANTS
  Task,      \* tasks whose object somebody deletes
  None,      \* no task: an event of another kind
  Reader,    \* administrators who page through the log
  Limit,     \* records of a page
  MaxRows,   \* LOG_MAX_ROWS
  MaxMoves,  \* bound on the changes of a task's object_status
  MaxId      \* bound on the records ever written

ASSUME LogAssumption ==
  /\ None \notin Task
  /\ Limit \in Nat \ {0}
  /\ MaxRows \in Nat \ {0}
  /\ MaxMoves \in Nat
  /\ MaxId \in Nat

VARIABLES
  log,       \* the service_logs table
  lastId,    \* the id of the record written last (AUTOINCREMENT)
  cutoff,    \* records with this id or an older one are past their retention
  degraded,  \* did the last write of an event fail?
  moves,     \* how often the object_status of a task was changed
  owed,      \* changes whose event the handler has yet to emit
  reader     \* the administrators

vars == <<log, lastId, cutoff, degraded, moves, owed, reader>>

-----------------------------------------------------------------------------
\* A record tells of the n-th change of a task's object_status
\* (object_delete_*), or of something else.
Record == [id : Nat, task : Task \union {None}, n : Nat]

Audits(records) == {r \in records : r.task # None}
Plain(records) == {r \in records : r.task = None}
Ids(records) == {r.id : r \in records}

\* audit: the reader filters by such an event; before: before_id, MaxId + 1 on
\* the first page.  got are the ids of the pages so far, due those that the
\* filter let through when the reader began, and again whether one came twice.
NotReading == [pc |-> "idle"]
Reading == [pc : {"reading", "done"}, audit : BOOLEAN, before : Nat,
            got : SUBSET Nat, due : SUBSET Nat, again : BOOLEAN]

LogTypeOK ==
  /\ log \in SUBSET Record /\ IsFiniteSet(log)
  /\ lastId \in Nat /\ cutoff \in Nat
  /\ degraded \in BOOLEAN
  /\ moves \in [Task -> Nat]
  /\ owed \subseteq Task \X Nat
  /\ reader \in [Reader -> {NotReading} \union Reading]

Init ==
  /\ log = {} /\ lastId = 0 /\ cutoff = 0
  /\ degraded = FALSE
  /\ moves = [t \in Task |-> 0]
  /\ owed = {}
  /\ reader = [r \in Reader |-> NotReading]

-----------------------------------------------------------------------------
(* Writing *)

\* emit(): the record is stored, or the failure is swallowed and noted.
Write(task, n) ==
  \/ /\ lastId < MaxId
     /\ log' = log \union {[id |-> lastId + 1, task |-> task, n |-> n]}
     /\ lastId' = lastId + 1
     /\ degraded' = FALSE
  \/ degraded' = TRUE /\ UNCHANGED <<log, lastId>>

EmitPlain == Write(None, 0) /\ UNCHANGED <<cutoff, moves, owed, reader>>

\* Mistake: the event is written before the row is.
ChangeAfterEvent(t) ==
  /\ moves[t] < MaxMoves
  /\ owed' = owed \union {<<t, moves[t] + 1>>}
  /\ UNCHANGED <<log, lastId, cutoff, degraded, moves, reader>>

\* _save_deletion, the claims and _recover_deletion: a row's object_status is
\* committed, and whoever did that has an event to emit.
Change(t) ==
  /\ moves[t] < MaxMoves
  /\ moves' = [moves EXCEPT ![t] = @ + 1]
  /\ owed' = owed \union {<<t, moves[t] + 1>>}
  /\ UNCHANGED <<log, lastId, cutoff, degraded, reader>>

EmitAudit(t, n) ==
  /\ <<t, n>> \in owed
  /\ Write(t, n)
  /\ owed' = owed \ {<<t, n>>}
  /\ UNCHANGED <<cutoff, moves, reader>>

\* The process dies and is started again: events not yet written are lost.
Crash ==
  /\ owed' = {} /\ degraded' = FALSE
  /\ UNCHANGED <<log, lastId, cutoff, moves, reader>>

-----------------------------------------------------------------------------
(* Retention *)

\* page is what ORDER BY id DESC LIMIT n selects from the records.
Newest(page, records, n) ==
  /\ page \subseteq records
  /\ \A r \in page, s \in records \ page : s.id < r.id
  /\ Cardinality(page) <= n
  /\ page # records => Cardinality(page) = n

\* Days pass.
Age == /\ cutoff < lastId /\ cutoff' \in cutoff + 1..lastId
       /\ UNCHANGED <<log, lastId, degraded, moves, owed, reader>>

\* Mistake: audit events count as any other.
MaintainAll ==
  /\ \E kept \in SUBSET {r \in log : r.id > cutoff} :
       /\ Newest(kept, {r \in log : r.id > cutoff}, MaxRows)
       /\ log' = kept
  /\ UNCHANGED <<lastId, cutoff, degraded, moves, owed, reader>>

\* maintain(): what is too old goes, then what is beyond the newest MaxRows;
\* deletion audits stay.  One transaction.
Maintain ==
  LET young == {r \in Plain(log) : r.id > cutoff} IN
  /\ \E kept \in SUBSET young :
       Newest(kept, young, MaxRows) /\ log' = Audits(log) \union kept
  /\ UNCHANGED <<lastId, cutoff, degraded, moves, owed, reader>>

-----------------------------------------------------------------------------
(* Reading *)

Matching(audit) == IF audit THEN Audits(log) ELSE log

BeginReading(r, audit) ==
  /\ reader[r].pc # "reading"
  /\ reader' = [reader EXCEPT ![r] =
       [pc |-> "reading", audit |-> audit, before |-> lastId + 1,
        got |-> {}, due |-> Ids(Matching(audit)), again |-> FALSE]]
  /\ UNCHANGED <<log, lastId, cutoff, degraded, moves, owed>>

\* Mistake: before_id itself is sent again.
OlderOrEqual(r) == {x \in Matching(reader[r].audit) : x.id <= reader[r].before}

\* WHERE id < before_id and the filter.
Older(r) == {x \in Matching(reader[r].audit) : x.id < reader[r].before}

\* next_before_id, of a page that is full.
NextBefore(page, before) ==
  \E x \in page : before = x.id /\ \A y \in page : x.id <= y.id

\* One page, in one query.  A page that is not full is the last.
NextPage(r) ==
  /\ reader[r].pc = "reading"
  /\ \E page \in SUBSET Older(r), before \in Nat \intersect 0..reader[r].before :
       /\ Newest(page, Older(r), Limit)
       /\ IF Cardinality(page) = Limit THEN NextBefore(page, before)
          ELSE before = reader[r].before
       /\ reader' = [reader EXCEPT ![r] =
            [pc |-> IF Cardinality(page) = Limit THEN "reading" ELSE "done",
             audit |-> @.audit, before |-> before,
             got |-> @.got \union Ids(page), due |-> @.due,
             again |-> @.again \/ Ids(page) \intersect @.got # {}]]
  /\ UNCHANGED <<log, lastId, cutoff, degraded, moves, owed>>

-----------------------------------------------------------------------------
Next ==
  \/ EmitPlain \/ Crash \/ Age \/ Maintain
  \/ \E t \in Task : Change(t) \/ \E n \in 1..MaxMoves : EmitAudit(t, n)
  \/ \E r \in Reader : \/ \E audit \in BOOLEAN : BeginReading(r, audit)
                       \/ NextPage(r)

Spec == Init /\ [][Next]_vars

-----------------------------------------------------------------------------
(* Properties *)

\* docs/current/API.md:1603: paging by before_id misses nothing and repeats
\* nothing, however much is written, and unless retention removes it, between
\* two pages.
PagesComplete ==
  \A r \in Reader :
    /\ reader[r].pc # "idle" => ~reader[r].again
    /\ reader[r].pc = "done" =>
         reader[r].due \intersect Ids(log) \subseteq reader[r].got

\* An audit event tells of a change that was made, and none is told twice, in
\* whatever order processes die, writes fail and events are emitted
\* (app/deletions.py:58-105: the row first, then its event).
AuditTrue ==
  \A r \in Audits(log) :
    /\ r.n \in 1..moves[r.task]
    /\ <<r.task, r.n>> \notin owed
    /\ \A s \in Audits(log) : s.task = r.task /\ s.n = r.n => s = r

\* README.md:122 and docs/current/API.md:2142: nothing removes a deletion audit,
\* and any other record goes only when it is old or when as many newer ones as
\* LOG_MAX_ROWS remain.
LossesAllowed ==
  [][\A r \in log \ log' :
       /\ r.task = None
       /\ \/ r.id <= cutoff
          \/ Cardinality({s \in Plain(log') : s.id > r.id}) >= MaxRows]_vars
==============================================================================
