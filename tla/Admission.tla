------------------------------ MODULE Admission ------------------------------
(***************************************************************************)
(* What happens to an upload request before its file is sent: the look-up  *)
(* of its idempotency key, the choice of a storage configuration, and the  *)
(* insertion of its task under the client's quota (app/uploads.py,         *)
(* upload), while other requests, the settings routes (StorageSettings)    *)
(* and retention run between its steps.                                    *)
(*                                                                         *)
(* A task is named after the request that draws its uuid.  What becomes of *)
(* an inserted task is ObjectLifecycle, which TaskLedger implements.       *)
(***************************************************************************)
EXTENDS StorageSettings, FiniteSetsExt

CONSTANTS
  Request,     \* upload requests
  Client,      \* client_id
  Key,         \* idempotency keys
  Size,        \* sizes of files that may be stored, in units of the quota
  MaxObjects,  \* CLIENT_MAX_OBJECTS, 0: no limit
  MaxBytes,    \* CLIENT_MAX_BYTES, 0: no limit
  Revivals     \* may a failed task succeed after all (SlowRequests)?

ASSUME AdmissionAssumption ==
  /\ None \notin Key
  /\ Size \subseteq Nat \ {0}
  /\ MaxObjects \in Nat /\ MaxBytes \in Nat
  /\ Revivals \in BOOLEAN

VARIABLES
  request,   \* the handler of each request
  phase,     \* the task of each request (ObjectLifecycle!phase)
  answer     \* what each client was told before its file was sent

admissionVars == <<request, phase, answer>>
vars == <<settingsVars, admissionVars>>

-----------------------------------------------------------------------------
NoRequest == [pc |-> "idle"]

\* size 0 is a file that is empty or too large.
RequestState == [pc : {"resolve", "insert", "quota", "conflict", "done"},
                 client : Client, key : Key \union {None},
                 header : Preset \union {None},
                 config : (Preset \X Revision) \union {None},
                 size : Size \union {0}]

Answer == [code : {"none", "admitted", "replayed", "UPLOAD_IN_PROGRESS",
                   "IDEMPOTENCY_KEY_REUSED", "IDEMPOTENCY_SCOPE_MISMATCH",
                   "CLIENT_QUOTA_EXCEEDED", "refused", "lost"},
           task : Request \union {None}]

AdmissionTypeOK ==
  /\ SettingsTypeOK
  /\ request \in [Request -> {NoRequest} \union RequestState]
  /\ phase \in [Request -> {"none", "open", "void", "kept", "closing", "gone"}]
  /\ answer \in [Request -> Answer]

-----------------------------------------------------------------------------
(* The upload_tasks table *)

Rows == {t \in Request : phase[t] # "none"}
PresetOf(t) == request[t].config[1]

\* task_by_idempotency; the unique index leaves at most one.
Bound(client, key) ==
  {t \in Rows : key # None /\ request[t].client = client /\ request[t].key = key}

\* Mistake: uploads that are not finished are not counted.
CountedStored(client) ==
  {t \in Rows : request[t].client = client /\ phase[t] \in {"kept", "closing"}}

\* The rows create_task_with_quota counts for a client.
Counted(client) ==
  {t \in Rows : request[t].client = client /\ phase[t] \in {"open", "kept", "closing"}}

Bytes(tasks) == MapThenSumSet(LAMBDA t : request[t].size, tasks)

OverQuota(client, size) ==
  \/ MaxObjects # 0 /\ Cardinality(Counted(client)) + 1 > MaxObjects
  \/ MaxBytes # 0 /\ Bytes(Counted(client)) + size > MaxBytes

\* REFERENCES storage_configs(id)
Referenced == {request[t].config : t \in Rows}

-----------------------------------------------------------------------------
AdmissionInit ==
  /\ request = [t \in Request |-> NoRequest]
  /\ phase = [t \in Request |-> "none"]
  /\ answer = [t \in Request |-> [code |-> "none", task |-> None]]

Init == SettingsInit /\ AdmissionInit

Reply(t, code, task) ==
  answer' = [answer EXCEPT ![t] = [code |-> code, task |-> task]]

\* _existing_upload
ReplyExisting(t, existing, requested) ==
  Reply(t,
    IF requested # None /\ requested # PresetOf(existing)
    THEN "IDEMPOTENCY_SCOPE_MISMATCH"
    ELSE CASE phase[existing] = "open" -> "UPLOAD_IN_PROGRESS"
           [] phase[existing] = "void" -> "IDEMPOTENCY_KEY_REUSED"
           [] phase[existing] \in {"kept", "closing", "gone"} -> "replayed",
    existing)

\* A request arrives and its key, if it has one, is looked up.
Arrive(t, client, key, header, size) ==
  /\ request[t] = NoRequest
  /\ request' = [request EXCEPT ![t] =
       [pc |-> IF Bound(client, key) = {} THEN "resolve" ELSE "done",
        client |-> client, key |-> key, header |-> header, config |-> None,
        size |-> size]]
  /\ IF Bound(client, key) = {}
     THEN UNCHANGED answer
     ELSE \E existing \in Bound(client, key) : ReplyExisting(t, existing, header)
  /\ UNCHANGED <<settingsVars, phase>>

\* resolve_upload_snapshot: a named preset is looked up in the database, its
\* snapshot and the default in memory.
Wanted(t) == IF request[t].header = None THEN default ELSE request[t].header

\* Mistake: a disabled preset is still served from its snapshot.
AvailableAnyway(t) == Wanted(t) # None /\ installed[Wanted(t)] # 0

Available(t) ==
  /\ Wanted(t) # None
  /\ request[t].header # None => presets[Wanted(t)].enabled
  /\ installed[Wanted(t)] # 0

Resolve(t) ==
  /\ request[t].pc = "resolve"
  /\ IF Available(t)
     THEN /\ request' = [request EXCEPT ![t].pc = "insert",
                           ![t].config = <<Wanted(t), installed[Wanted(t)]>>]
          /\ UNCHANGED answer
     ELSE /\ request' = [request EXCEPT ![t].pc = "done"]
          /\ Reply(t, "refused", None)
  /\ UNCHANGED <<settingsVars, phase>>

\* Mistakes: no unique index; no foreign key.
InsertUnindexed(t) ==
  LET r == request[t] IN
  /\ r.pc = "insert"
  /\ IF r.size # 0 /\ OverQuota(r.client, r.size)
     THEN request' = [request EXCEPT ![t].pc = "quota"] /\ UNCHANGED <<phase, answer>>
     ELSE /\ request' = [request EXCEPT ![t].pc = "done"]
          /\ phase' = [phase EXCEPT ![t] = "open"]
          /\ Reply(t, "admitted", t)
  /\ UNCHANGED settingsVars

InsertUnreferenced(t) ==
  LET r == request[t] IN
  /\ r.pc = "insert"
  /\ IF r.size # 0 /\ OverQuota(r.client, r.size)
     THEN request' = [request EXCEPT ![t].pc = "quota"] /\ UNCHANGED <<phase, answer>>
     ELSE IF Bound(r.client, r.key) # {}
     THEN request' = [request EXCEPT ![t].pc = "conflict"] /\ UNCHANGED <<phase, answer>>
     ELSE /\ request' = [request EXCEPT ![t].pc = "done"]
          /\ phase' = [phase EXCEPT ![t] = "open"]
          /\ Reply(t, "admitted", t)
  /\ UNCHANGED settingsVars

\* The form was received.  One transaction checks the quota, unless the file
\* will not be stored anyway, and inserts the row, unless the key is taken or
\* the configuration no longer exists.
Insert(t) ==
  LET r == request[t] IN
  /\ r.pc = "insert"
  /\ IF r.size # 0 /\ OverQuota(r.client, r.size)
     THEN request' = [request EXCEPT ![t].pc = "quota"] /\ UNCHANGED <<phase, answer>>
     ELSE IF Bound(r.client, r.key) # {} \/ ~InDatabase(r.config)
     THEN request' = [request EXCEPT ![t].pc = "conflict"] /\ UNCHANGED <<phase, answer>>
     ELSE /\ request' = [request EXCEPT ![t].pc = "done"]
          /\ phase' = [phase EXCEPT ![t] = "open"]
          /\ Reply(t, "admitted", t)
  /\ UNCHANGED settingsVars

\* Mistake: the second look-up does not compare presets.
LookUpAgainUnscoped(t) ==
  LET r == request[t] IN
  /\ r.pc \in {"quota", "conflict"}
  /\ IF Bound(r.client, r.key) # {}
     THEN \E existing \in Bound(r.client, r.key) : ReplyExisting(t, existing, None)
     ELSE Reply(t, "UPLOAD_IN_PROGRESS", None)
  /\ request' = [request EXCEPT ![t].pc = "done"]
  /\ UNCHANGED <<settingsVars, phase>>

\* The exception handlers of QuotaExceeded and IntegrityError look the key up
\* again, and compare the task's preset with the one this request resolved.
LookUpAgain(t) ==
  LET r == request[t] IN
  /\ r.pc \in {"quota", "conflict"}
  /\ IF Bound(r.client, r.key) # {}
     THEN \E existing \in Bound(r.client, r.key) :
            ReplyExisting(t, existing, r.config[1])
     ELSE Reply(t, IF r.pc = "quota" THEN "CLIENT_QUOTA_EXCEEDED"
                   ELSE "UPLOAD_IN_PROGRESS", None)
  /\ request' = [request EXCEPT ![t].pc = "done"]
  /\ UNCHANGED <<settingsVars, phase>>

\* A malformed form, or a transaction that fails.
Abort(t) ==
  /\ request[t].pc \in {"insert", "quota", "conflict"}
  /\ request' = [request EXCEPT ![t].pc = "done"]
  /\ Reply(t, "refused", None)
  /\ UNCHANGED <<settingsVars, phase>>

\* A request for the same key that arrived before the row was inserted.
Live(t) == request[t].pc \in {"resolve", "insert", "quota", "conflict"}
Contended(t) ==
  \E s \in Request : /\ Live(s) /\ request[t].key # None
                    /\ request[s].client = request[t].client
                    /\ request[s].key = request[t].key

\* ObjectLifecycle: what the upload handler, recovery, deletions and retention
\* make of an inserted task.  A file that is not stored ends void.  Retention
\* takes far longer than a request.
Proceed(t, to) ==
  /\ <<phase[t], to>> \in
       {<<"open", "void">>, <<"open", "kept">>, <<"kept", "closing">>,
        <<"closing", "kept">>, <<"closing", "gone">>, <<"void", "none">>,
        <<"gone", "none">>}
       \union (IF Revivals THEN {<<"void", "kept">>} ELSE {})
  /\ to = "kept" => request[t].size # 0
  /\ to = "none" => ~Contended(t)
  /\ phase' = [phase EXCEPT ![t] = to]
  /\ UNCHANGED <<settingsVars, request, answer>>

\* The process dies: whoever waits is not answered.
Restart ==
  /\ RestartSettings
  /\ request' = [t \in Request |-> IF Live(t) THEN [request[t] EXCEPT !.pc = "done"]
                                   ELSE request[t]]
  /\ answer' = [t \in Request |-> IF Live(t) THEN [code |-> "lost", task |-> None]
                                  ELSE answer[t]]
  /\ UNCHANGED phase

-----------------------------------------------------------------------------
AdmissionStep(t) ==
  \/ \E client \in Client, key \in Key \union {None}, size \in Size \union {0},
        header \in Preset \union {None} : Arrive(t, client, key, header, size)
  \/ Resolve(t) \/ Insert(t) \/ LookUpAgain(t) \/ Abort(t)

Next ==
  \/ \E t \in Request :
       \/ AdmissionStep(t)
       \/ \E to \in {"void", "kept", "closing", "gone", "none"} : Proceed(t, to)
  \/ SettingsStep /\ UNCHANGED admissionVars
  \/ PurgeConfigs(Referenced) /\ UNCHANGED admissionVars
  \/ Restart

Spec == Init /\ [][Next]_vars

-----------------------------------------------------------------------------
(* Properties *)

\* Whoever sends a client's key gets to know one task only, and one of its own:
\* the look-up, the insertion and both second look-ups agree, with other
\* requests in between.  (A task retention has forgotten frees its key.)
IdempotentAnswers ==
  /\ \A s, t \in Request :
       LET known == {answer[s].task, answer[t].task} IN
       /\ None \notin known /\ known \subseteq Rows
       /\ request[s].client = request[t].client
       /\ request[s].key = request[t].key /\ request[s].key # None
       => Cardinality(known) = 1
  /\ \A t \in Request : answer[t].task # None
       => request[answer[t].task].client = request[t].client

\* A request that names a preset is answered with a task of that preset, or
\* told of the mismatch.
PresetHonoured ==
  \A t \in Request :
    /\ answer[t].task # None /\ request[t].header # None
    /\ answer[t].code # "IDEMPOTENCY_SCOPE_MISMATCH"
    => PresetOf(answer[t].task) = request[t].header

\* No client holds more than its quota, however its requests interleave; rows
\* of files that are not stored are not objects (README.md, docs/current/API.md
\* 3.3).
QuotaHolds ==
  \A client \in Client :
    LET objects == {t \in Counted(client) : request[t].size # 0} IN
    /\ MaxObjects # 0 => Cardinality(objects) <= MaxObjects
    /\ MaxBytes # 0 => Bytes(objects) <= MaxBytes

\* Every row can reach its bucket: its configuration is kept as long as it is.
ConfigKept == \A t \in Rows : InDatabase(request[t].config)

\* An upload uses the revision that is active when it begins, of the preset it
\* names or of the default, and no disabled one (docs/current/API.md, 4.1).
ResolvesCurrent ==
  [][\A t \in Request :
       request[t].pc = "resolve" /\ request'[t].pc = "insert" =>
         LET p == IF request[t].header = None THEN DefaultOf(presets)
                  ELSE request[t].header IN
         /\ presets[p].enabled
         /\ request'[t].config = <<p, active[p]>>]_vars

=============================================================================
