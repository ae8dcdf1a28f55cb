------------------------------ MODULE Readiness ------------------------------
(***************************************************************************)
(* What GET /readyz says of the service, and the background tasks its      *)
(* answer is made of (app/runtime.py): the last connection test of the     *)
(* default storage, the outcome of each supervised task, and whether the   *)
(* last event reached the database (app/eventlog.py).                      *)
(*                                                                         *)
(* Init is the state start() leaves; a restart begins there again.  A      *)
(* connection test runs in a thread, other requests go on in the meantime. *)
(* TaskLedger and RecoverySchedule have what a recovery pass does.         *)
(*                                                                         *)
(* Left out: the free space of TEMP_DIR and the schema, which /readyz      *)
(* looks up itself, and presets that are not the default.                  *)
(***************************************************************************)
EXTENDS Naturals

CONSTANTS
  Storage,   \* configurations that are, or may become, the default's
  None,      \* no storage is configured, or nothing is tested
  Interval,  \* STORAGE_PROBE_INTERVAL_SECONDS, in ticks; the other tasks' too
  MaxAge     \* STORAGE_PROBE_MAX_AGE_SECONDS, in ticks

ASSUME ReadinessAssumption ==
  /\ None \notin Storage
  /\ Interval \in Nat \ {0} /\ MaxAge \in Nat

Operation == {"probe", "recovery", "maintenance"}

VARIABLES
  default,    \* active_snapshot()
  down,       \* storages that do not answer a connection test
  broken,     \* does SQLite refuse to write?
  backlog,    \* recovery_backlog() # 0
  last_probe,
  supervisor, \* what each supervised task is at
  delay,      \* ticks until the supervisor runs each of them again
  switching,  \* the storage that set_default_storage_preset tests
  complete,   \* recovery_complete
  background, \* background_status
  degraded    \* EventLogger.degraded

environment == <<down, broken, backlog>>
vars == <<default, environment, last_probe, supervisor, delay, switching,
          complete, background, degraded>>

Sleeping == [running |-> FALSE, storage |-> None]

TypeOK ==
  /\ default \in Storage \union {None}
  /\ down \subseteq Storage
  /\ broken \in BOOLEAN /\ backlog \in BOOLEAN
  /\ last_probe \in [status : {"ok", "error"}, age : 0..(MaxAge + 1)]
  /\ supervisor \in [Operation ->
       [running : BOOLEAN, storage : Storage \union {None}]]
  /\ delay \in [Operation -> 0..Interval]
  /\ switching \in Storage \union {None}
  /\ complete \in BOOLEAN
  /\ background \in [Operation -> {"pending", "ok", "error"}]
  /\ degraded \in BOOLEAN
  /\ supervisor["probe"].running => supervisor["probe"].storage # None

Verdict(storage) ==
  [status |-> IF storage = None \/ storage \in down THEN "error" ELSE "ok", age |-> 0]

\* The events of this level are written to the database; a failure is kept
\* until one is written.
Log == degraded' = broken

-----------------------------------------------------------------------------
\* start() is over: it recovered and probed, and its last event was written.
Init ==
  /\ default \in Storage \union {None}
  /\ down \in SUBSET Storage
  /\ broken = FALSE
  /\ backlog \in BOOLEAN
  /\ last_probe = Verdict(default)
  /\ supervisor = [o \in Operation |-> Sleeping]
  /\ delay = [o \in Operation |-> 0]
  /\ switching = None
  /\ complete = TRUE
  /\ background = [o \in Operation |-> IF o = "maintenance" THEN "pending" ELSE "ok"]
  /\ degraded = FALSE

\* Storages and the database fail and come back; handlers leave tasks behind.
Change ==
  /\ down' \in SUBSET Storage
  /\ broken' \in BOOLEAN
  /\ backlog' \in BOOLEAN /\ (backlog => backlog')
  /\ UNCHANGED <<default, last_probe, supervisor, delay, switching, complete,
                 background, degraded>>

Running(o) == [running |-> TRUE, storage |-> IF o = "probe" THEN default ELSE None]

\* Mistake: a task that failed is not run again.
RunUnlessFailed(o) ==
  /\ ~supervisor[o].running
  /\ delay[o] = 0
  /\ o = "probe" => default # None
  /\ background[o] # "error"
  /\ supervisor' = [supervisor EXCEPT ![o] = Running(o)]
  /\ complete' = (complete /\ o # "recovery")
  /\ UNCHANGED <<default, environment, last_probe, delay, switching, background,
                 degraded>>

\* The supervisor wakes up for a task; probe() takes the snapshot it tests.
Run(o) ==
  /\ ~supervisor[o].running
  /\ delay[o] = 0
  /\ o = "probe" => default # None
  /\ supervisor' = [supervisor EXCEPT ![o] = Running(o)]
  /\ complete' = (complete /\ o # "recovery")
  /\ UNCHANGED <<default, environment, last_probe, delay, switching, background,
                 degraded>>

\* Without a default there is nothing to wait for.
ProbeNothing ==
  /\ ~supervisor["probe"].running /\ delay["probe"] = 0 /\ default = None
  /\ last_probe' = Verdict(None)
  /\ delay' = [delay EXCEPT !["probe"] = Interval]
  /\ background' = [background EXCEPT !["probe"] = "ok"]
  /\ UNCHANGED <<default, environment, supervisor, switching, complete, degraded>>

\* _supervise: the task returned, an outage of the storage included.
Succeed(o) ==
  /\ supervisor[o].running
  /\ supervisor' = [supervisor EXCEPT ![o] = Sleeping]
  /\ background' = [background EXCEPT ![o] = "ok"]
  /\ o = "maintenance" => ~broken
  /\ o = "recovery" => ~(broken /\ backlog)
  /\ last_probe' = IF o = "probe" THEN Verdict(supervisor[o].storage) ELSE last_probe
  /\ delay' = [delay EXCEPT ![o] = Interval]
  /\ complete' = (complete \/ o = "recovery")
  /\ IF o = "recovery" THEN backlog' \in {backlog, FALSE} ELSE backlog' = backlog
  /\ UNCHANGED <<default, down, broken, switching, degraded>>

\* _supervise: the task raised.  The delay is the shorter of Interval and 60 s.
Fail(o) ==
  /\ supervisor[o].running
  /\ IF o = "probe" THEN supervisor[o].storage \in down ELSE broken
  /\ supervisor' = [supervisor EXCEPT ![o] = Sleeping]
  /\ background' = [background EXCEPT ![o] = "error"]
  /\ delay' = [delay EXCEPT ![o] = Interval]
  /\ Log
  /\ UNCHANGED <<default, environment, last_probe, switching, complete>>

\* set_default_storage_preset commits the switch and then tests the connection.
BeginSwitch(storage) ==
  /\ default \notin {None, storage}
  /\ ~broken
  /\ switching = None
  /\ default' = storage
  /\ switching' = storage
  /\ UNCHANGED <<environment, last_probe, supervisor, delay, complete, background,
                 degraded>>

FinishSwitch ==
  /\ switching # None
  /\ switching' = None
  /\ last_probe' = Verdict(switching)
  /\ Log
  /\ UNCHANGED <<default, environment, supervisor, delay, complete, background>>

\* A test that fails in a way nobody thought of leaves the switch committed.
AbandonSwitch ==
  /\ switching \in down
  /\ switching' = None
  /\ UNCHANGED <<default, environment, last_probe, supervisor, delay, complete,
                 background, degraded>>

\* activate_storage, or the first preset.  The connection was tested before the
\* commit, and may be lost by now.
Activate(storage) ==
  /\ storage # default
  /\ ~broken
  /\ default' = storage
  /\ last_probe' = [status |-> "ok", age |-> 0]
  /\ Log
  /\ UNCHANGED <<environment, supervisor, delay, switching, complete, background>>

\* A request logs an event.
LogEvent ==
  /\ Log
  /\ UNCHANGED <<default, environment, last_probe, supervisor, delay, switching,
                 complete, background>>

\* A tick is long: where everything works, a test and a pass end within one.
Works == down = {} /\ ~broken

Tick ==
  /\ \A o \in Operation : IF supervisor[o].running THEN ~Works ELSE delay[o] > 0
  /\ last_probe' = [last_probe EXCEPT !.age = IF @ > MaxAge THEN @ ELSE @ + 1]
  /\ delay' = [o \in Operation |-> IF supervisor[o].running THEN delay[o] ELSE delay[o] - 1]
  /\ UNCHANGED <<default, environment, supervisor, switching, complete, background,
                 degraded>>

Next ==
  \/ Change \/ ProbeNothing \/ FinishSwitch \/ AbandonSwitch \/ LogEvent \/ Tick
  \/ \E o \in Operation : Run(o) \/ Succeed(o) \/ Fail(o)
  \/ \E storage \in Storage : BeginSwitch(storage) \/ Activate(storage)

Spec == Init /\ [][Next]_vars

(***************************************************************************)
(* Fairness.  Time passes and the supervisor's three tasks wake up.  A     *)
(* connection test or a pass ends where storage and database work; in an   *)
(* outage it may hang (the thread pool, a slow disk, a silent endpoint).   *)
(***************************************************************************)
Fairness ==
  /\ WF_vars(Tick)
  /\ WF_vars(ProbeNothing)
  /\ WF_vars(FinishSwitch /\ Works)
  /\ \A o \in Operation : WF_vars(Run(o)) /\ WF_vars(Succeed(o) /\ Works)

FairSpec == Spec /\ Fairness

-----------------------------------------------------------------------------
\* Mistake: a verdict never grows old.
ProbeOkAtAnyAge == last_probe.status = "ok"

ProbeOk == last_probe.status = "ok" /\ last_probe.age <= MaxAge

\* ready_checks()
Ready ==
  /\ default # None
  /\ ~broken
  /\ complete /\ ~backlog
  /\ ProbeOk
  /\ \A o \in Operation : background[o] = "ok"
  /\ ~degraded

(* Properties *)

\* An outage of the default storage that lasts is noticed, although the test
\* of it may hang, fail in a way nobody thought of, or be overtaken by the test
\* of what was the default before (API.md, 8.2).
OutageSeen ==
  \A storage \in Storage :
    <>[](default = storage /\ storage \in down) => <>[]~Ready

\* What is over is forgotten: once everything works, nothing is left to recover
\* and events are written, the service is ready again and again.  (It never is
\* while a recovery pass runs.)
ReadyAgain ==
  <>[](Works /\ default # None /\ ~backlog /\ ~degraded) => []<>Ready
=============================================================================
