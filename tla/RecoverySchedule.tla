-------------------------- MODULE RecoverySchedule --------------------------
(***************************************************************************)
(* Which undecided tasks a recovery pass takes, and when: the batch of the *)
(* oldest ones, worked off in chunks (app/runtime.py, recover), again and  *)
(* again (_supervise).  TaskLedger has what a pass does to one task.       *)
(*                                                                         *)
(* A number stands for a task.  Of two uploads the smaller number was      *)
(* created first, of two deletions the smaller one was started first.      *)
(***************************************************************************)
EXTENDS Naturals, FiniteSets

CONSTANTS
  Task,       \* tasks that may become undecided
  Uploads,    \* those of them that are uploads, the others being deletions
  Stuck,      \* tasks no HEAD decides: revoked credentials, a changed size
  BatchSize,  \* RECOVERY_BATCH_SIZE
  Width       \* RECOVERY_MAX_CONCURRENCY

ASSUME ScheduleAssumption ==
  /\ Task \subseteq Nat /\ IsFiniteSet(Task)
  /\ Uploads \subseteq Task /\ Stuck \subseteq Task
  /\ BatchSize \in Nat \ {0} /\ Width \in Nat \ {0}

VARIABLES
  state,      \* "quiet", "pending" (what the scans return) or "settled"
  pass,       \* the current pass
  complete,   \* recovery_complete
  mode,       \* "initial" until start() returns, then "serving"
  background  \* background_status["recovery"]

vars == <<state, pass, complete, mode, background>>

Idle == [running |-> FALSE, started |-> FALSE, todo |-> {}, chunk |-> {}]
Pass == [running : BOOLEAN,
         started : BOOLEAN,        \* is a first chunk taken?
         todo : SUBSET Task, chunk : SUBSET Task]

TypeOK ==
  /\ state \in [Task -> {"quiet", "pending", "settled"}]
  /\ pass \in Pass
  /\ complete \in BOOLEAN
  /\ mode \in {"initial", "serving"}
  /\ background \in {"pending", "ok", "error"}
  /\ Cardinality(pass.todo \union pass.chunk) <= BatchSize
  /\ Cardinality(pass.chunk) <= Width

Pending == {t \in Task : state[t] = "pending"}

-----------------------------------------------------------------------------
Init ==
  /\ state \in [Task -> {"quiet", "pending"}]
  /\ pass = Idle
  /\ complete = FALSE
  /\ mode = "initial"
  /\ background = "pending"

\* ORDER BY created_at LIMIT n
Oldest(S, n) == {t \in S : Cardinality({s \in S : s < t}) < n}

\* Mistake: deletions are looked at only when no upload is pending.
BatchOfUploads ==
  LET uploads == Oldest(Pending \intersect Uploads, BatchSize) IN
  IF uploads # {} THEN uploads ELSE Oldest(Pending, BatchSize)

\* Uploads first; deletions get the places that are left.
Batch ==
  LET uploads == Oldest(Pending \intersect Uploads, BatchSize) IN
  uploads \union Oldest(Pending \ Uploads, BatchSize - Cardinality(uploads))

\* A handler dies, times out or leaves a result unknown.
Become(t) ==
  /\ state[t] = "quiet"
  /\ state' = [state EXCEPT ![t] = "pending"]
  /\ UNCHANGED <<pass, complete, mode, background>>

StartPass ==
  /\ ~pass.running
  /\ pass' = [Idle EXCEPT !.running = TRUE, !.todo = Batch]
  /\ complete' = FALSE
  /\ UNCHANGED <<state, mode, background>>

\* The work list, uploads in front, in slices of RECOVERY_MAX_CONCURRENCY.
Slice ==
  LET before(s, t) == IF s \in Uploads <=> t \in Uploads THEN s < t ELSE s \in Uploads
  IN {t \in pass.todo : Cardinality({s \in pass.todo : before(s, t)}) < Width}

TakeChunk ==
  /\ pass.running /\ pass.chunk = {} /\ pass.todo # {}
  /\ pass' = [pass EXCEPT !.started = TRUE, !.chunk = Slice, !.todo = @ \ Slice]
  /\ UNCHANGED <<state, complete, mode, background>>

\* The budget of the initial pass is looked at between chunks.
BudgetSpent ==
  /\ mode = "initial"
  /\ pass.running /\ pass.started /\ pass.chunk = {} /\ pass.todo # {}
  /\ pass' = [pass EXCEPT !.todo = {}]
  /\ UNCHANGED <<state, complete, mode, background>>

\* HEAD decides the task, or it stays undecided.
Settle(t) ==
  /\ t \in pass.chunk \ Stuck
  /\ state' = [state EXCEPT ![t] = "settled"]
  /\ pass' = [pass EXCEPT !.chunk = @ \ {t}]
  /\ UNCHANGED <<complete, mode, background>>

StayUndecided(t) ==
  /\ t \in pass.chunk
  /\ pass' = [pass EXCEPT !.chunk = @ \ {t}]
  /\ UNCHANGED <<state, complete, mode, background>>

\* A write fails: gather() lets the others of the chunk finish and the pass
\* ends.  start() gives up and is started again, _supervise reports the error.
PassFails ==
  /\ pass.running /\ pass.chunk # {}
  /\ \E failed \in pass.chunk : \E done \in SUBSET (pass.chunk \ (Stuck \union {failed})) :
       state' = [t \in Task |-> IF t \in done THEN "settled" ELSE state[t]]
  /\ pass' = Idle
  /\ background' = IF mode = "serving" THEN "error" ELSE background
  /\ UNCHANGED <<complete, mode>>

EndPass ==
  /\ pass.running /\ pass.chunk = {} /\ pass.todo = {}
  /\ pass' = Idle
  /\ complete' = TRUE
  /\ mode' = "serving"
  /\ background' = "ok"
  /\ UNCHANGED state

Next ==
  \/ \E t \in Task : Become(t) \/ Settle(t) \/ StayUndecided(t)
  \/ StartPass \/ TakeChunk \/ BudgetSpent \/ PassFails \/ EndPass

Spec == Init /\ [][Next]_vars

(***************************************************************************)
(* Fairness.  The supervisor starts pass after pass and a running one goes *)
(* on.  Outages end: at last only the stuck tasks stay undecided and no    *)
(* write fails.                                                            *)
(***************************************************************************)
Outage == PassFails \/ \E t \in Task \ Stuck : StayUndecided(t)

Fairness ==
  /\ WF_vars(StartPass) /\ WF_vars(TakeChunk) /\ WF_vars(EndPass)
  /\ \A t \in Task : WF_vars(Settle(t) \/ StayUndecided(t))
  /\ <>[][~Outage]_vars

FairSpec == Spec /\ Fairness

-----------------------------------------------------------------------------
(* Properties *)

\* What is left of a backlog is worked off by later rounds (README.md:52): a
\* task whose storage answers is decided at last, whatever else is undecided.
BacklogProcessed ==
  \A t \in Task \ Stuck : state[t] = "pending" ~> state[t] = "settled"
=============================================================================
