---------------------------- MODULE RequestGuard ----------------------------
(***************************************************************************)
(* The middleware in front of the upload routes (app/http.py): a sliding   *)
(* window of attempts per source address, one semaphore for all uploads,   *)
(* and a limit on the bytes a handler may read.                            *)
(*                                                                         *)
(* A request runs on one event loop: what happens between two awaits is    *)
(* one step.  A tick is half a second, Retry-After is given in seconds;    *)
(* ages are kept in place of times.                                        *)
(*                                                                         *)
(* Left out: requests that are no uploads, which pass, and those refused   *)
(* for their credentials or X-Request-ID; neither touches what is modelled.*)
(* A handler is cancelled only when the process ends, and nothing here     *)
(* outlives the process.                                                   *)
(***************************************************************************)
EXTENDS Integers, FiniteSets, SequencesExt, FiniteSetsExt

CONSTANTS
  Source,    \* source addresses
  Request,   \* connections that send one upload after another
  Limit,     \* UPLOAD_RATE_LIMIT_PER_MINUTE
  Window,    \* the length of the window, in ticks
  MaxSlots,  \* MAX_CONCURRENT_UPLOADS
  BodyLimit, \* MAX_REQUEST_BODY_BYTES, in chunks
  None       \* no promise

ASSUME GuardAssumption ==
  /\ IsFiniteSet(Request)
  /\ Limit \in Nat \ {0} /\ Window \in Nat \ {0} /\ Window % 2 = 0
  /\ MaxSlots \in Nat \ {0} /\ BodyLimit \in Nat \ {0}
  /\ None \notin Int

VARIABLES
  attempts,  \* _upload_attempts: ages, the oldest first
  slots,     \* _upload_slots
  request,
  admitted,  \* history: the ages of the last minute's admissions, by source
  promise    \* history: ticks until a 429's Retry-After is over, by source

vars == <<attempts, slots, request, admitted, promise>>

-----------------------------------------------------------------------------
(***************************************************************************)
(* asyncio.Semaphore.  A slot that becomes free is handed to the first     *)
(* waiter, who goes on later; until it does, newcomers queue up even if    *)
(* there is another free slot, and when it does it wakes the next.         *)
(***************************************************************************)
Semaphore == [free : 0..MaxSlots, queue : Seq(Request), woken : SUBSET Request]

WakeNext(s) ==
  IF s.free = 0 \/ s.queue = <<>> THEN s
  ELSE [free |-> s.free - 1, queue |-> Tail(s.queue),
        woken |-> s.woken \union {Head(s.queue)}]

Locked(s) == s.free = 0 \/ s.queue # <<>> \/ s.woken # {}

Taken(s) == [s EXCEPT !.free = @ - 1]
Queued(s, r) == [s EXCEPT !.queue = Append(@, r)]
Resumed(s, r) == WakeNext([s EXCEPT !.woken = @ \ {r}])

\* Mistake: a free slot wakes nobody.
ReleasedSilently(s) == [s EXCEPT !.free = @ + 1]

Released(s) == WakeNext([s EXCEPT !.free = @ + 1])

-----------------------------------------------------------------------------
Gone == [phase |-> "gone", declared |-> FALSE, total |-> 0]
Begun == [phase |-> "handled", declared |-> FALSE, total |-> 0]
RequestState ==
  [phase : {"gone",       \* not there, or answered
            "acquiring",  \* waits for a slot
            "handled",    \* the application runs and reads the body
            "refused"},   \* it read too much: 413 is being sent
   declared : BOOLEAN,    \* is Content-Length over the limit, or no number?
   total : 0..BodyLimit]  \* what the application got of the body

Holders == {r \in Request : request[r].phase \in {"handled", "refused"}} \union slots.woken

TypeOK ==
  /\ DOMAIN attempts = Source
  /\ \A s \in Source : /\ attempts[s] \in Seq(0..Window)
                       /\ Len(attempts[s]) <= Limit
  /\ slots \in Semaphore
  /\ request \in [Request -> RequestState]
  /\ DOMAIN admitted = Source
  /\ \A s \in Source : admitted[s] \in Seq(0..Window)
  /\ promise \in [Source -> {None} \union 0..(Window + 1)]

Init ==
  /\ attempts = [s \in Source |-> <<>>]
  /\ slots = [free |-> MaxSlots, queue |-> <<>>, woken |-> {}]
  /\ request = [r \in Request |-> Gone]
  /\ admitted = [s \in Source |-> <<>>]
  /\ promise = [s \in Source |-> None]

\* What a popleft loop leaves: all from the first age below n.
Younger(ages, n) ==
  SubSeq(ages, Min({i \in DOMAIN ages : ages[i] < n} \union {Len(ages) + 1}), Len(ages))

\* Mistake: an attempt is forgotten a tick early.
RecentShort(s) == Younger(attempts[s], Window - 1)

Recent(s) == Younger(attempts[s], Window)

\* Mistake: the seconds are rounded down.
RetryAfterDown(age) == 2 * Max({1, (Window - age) \div 2})

\* max(1, ceil(60 - age)) seconds, in ticks
RetryAfter(age) == 2 * Max({1, (Window - age + 1) \div 2})

\* 429.  The attempt is not counted.
Limited(r, s) ==
  /\ request[r].phase = "gone"
  /\ Len(Recent(s)) >= Limit
  /\ attempts' = [attempts EXCEPT ![s] = Recent(s)]
  /\ promise' = [promise EXCEPT ![s] =
       Min({RetryAfter(Head(Recent(s)))} \union ({@} \ {None}))]
  /\ UNCHANGED <<slots, request, admitted>>

\* Mistake: the slot of a request refused for its Content-Length is kept.
EnterKeeping(r, s, declared) ==
  /\ slots' = s
  /\ request' = [request EXCEPT ![r] = IF declared THEN Gone ELSE Begun]

\* Once a slot is acquired: 413 for the declared length, or the application.
Enter(r, s, declared) ==
  /\ slots' = IF declared THEN Released(s) ELSE s
  /\ request' = [request EXCEPT ![r] = IF declared THEN Gone ELSE Begun]

\* The attempt counts from now on, however long the request waits for its slot.
Admit(r, s, declared) ==
  /\ request[r].phase = "gone"
  /\ Len(Recent(s)) < Limit
  /\ attempts' = [attempts EXCEPT ![s] = Append(Recent(s), 0)]
  /\ admitted' = [admitted EXCEPT ![s] = Append(@, 0)]
  /\ promise' = [promise EXCEPT ![s] = None]
  /\ IF Locked(slots)
     THEN /\ slots' = Queued(slots, r)
          /\ request' = [request EXCEPT ![r] =
               [phase |-> "acquiring", declared |-> declared, total |-> 0]]
     ELSE Enter(r, Taken(slots), declared)

Resume(r) ==
  /\ r \in slots.woken
  /\ Enter(r, Resumed(slots, r), request[r].declared)
  /\ UNCHANGED <<attempts, admitted, promise>>

\* The application gets one more chunk, or BodyTooLarge ends it.
AfterChunk(q) ==
  IF q.total = BodyLimit THEN [q EXCEPT !.phase = "refused"]
  ELSE [q EXCEPT !.total = q.total + 1]

Read(r) ==
  /\ request[r].phase = "handled"
  /\ request' = [request EXCEPT ![r] = AfterChunk(@)]
  /\ UNCHANGED <<attempts, slots, admitted, promise>>

\* finally: the application returned or raised, or 413 is sent.
Finish(r) ==
  /\ request[r].phase \in {"handled", "refused"}
  /\ request' = [request EXCEPT ![r] = Gone]
  /\ slots' = Released(slots)
  /\ UNCHANGED <<attempts, admitted, promise>>

Tick ==
  /\ attempts' = [s \in Source |->
       [i \in DOMAIN attempts[s] |-> Min({Window, attempts[s][i] + 1})]]
  /\ admitted' = [s \in Source |->
       Younger([i \in DOMAIN admitted[s] |-> admitted[s][i] + 1], Window)]
  /\ promise' = [s \in Source |->
       IF promise[s] = None THEN None ELSE Max({0, promise[s] - 1})]
  /\ UNCHANGED <<slots, request>>

Next ==
  \/ \E r \in Request, s \in Source :
       \/ Limited(r, s)
       \/ \E declared \in BOOLEAN : Admit(r, s, declared)
  \/ \E r \in Request : Resume(r) \/ Read(r) \/ Finish(r)
  \/ Tick

(***************************************************************************)
(* Fairness.  The loop resumes a woken request.  An application ends: its  *)
(* client sends the rest of the body or goes away, and the provider's      *)
(* timeouts end the upload.                                                *)
(***************************************************************************)
Fairness == \A r \in Request : WF_vars(Resume(r)) /\ WF_vars(Finish(r))

Spec == Init /\ [][Next]_vars
FairSpec == Spec /\ Fairness

-----------------------------------------------------------------------------
(* Properties *)

\* Each slot is free or held by exactly one request, whatever way the request
\* takes out of the middleware.  Whoever waits is in the queue or was woken, and
\* if there is a queue somebody is at work who will wake its first.
SlotsKept ==
  /\ slots.free + Cardinality(Holders) = MaxSlots
  /\ slots.woken \union ToSet(slots.queue)
       = {r \in Request : request[r].phase = "acquiring"}
  /\ slots.queue # <<>> => Holders # {}
  /\ slots.queue # <<>> /\ slots.free > 0 => slots.woken # {}

\* No minute has more than Limit admissions of one source.
WindowBound == \A s \in Source : Len(admitted[s]) <= Limit

\* A client that waits for Retry-After, while its address sends nothing else
\* that is admitted, is not refused again.
RetrySuffices == \A s \in Source : promise[s] = 0 => Len(Recent(s)) < Limit

\* Every upload that was not refused gets its slot.
SlotComes == \A r \in Request :
  request[r].phase = "acquiring" ~> request[r].phase # "acquiring"
=============================================================================
