------------------------ MODULE RequestGuard_proofs ------------------------
(***************************************************************************)
(* Proofs about RequestGuard, for every number of slots, requests and      *)
(* sources, and every limit: no upload slot is lost or given twice, the    *)
(* window counts what it should, and Retry-After is enough.                *)
(***************************************************************************)
EXTENDS RequestGuard, Sums, SequenceTheorems

-----------------------------------------------------------------------------
(* The inductive invariant *)

Handling == {r \in Request : request[r].phase \in {"handled", "refused"}}
Waiting == {r \in Request : request[r].phase = "acquiring"}

\* The semaphore s accounts for n slots, with those in H at work and those in W
\* waiting; nobody stands in the queue twice, or after having been woken.
Accounts(s, H, W, n) ==
  /\ s \in [free : Nat, queue : Seq(Request), woken : SUBSET Request]
  /\ H \subseteq Request /\ W \subseteq Request /\ H \intersect W = {}
  /\ W = s.woken \union {s.queue[i] : i \in 1..Len(s.queue)}
  /\ \A i \in 1..Len(s.queue) : s.queue[i] \notin s.woken
  /\ \A i, j \in 1..Len(s.queue) : s.queue[i] = s.queue[j] => i = j
  /\ s.free + Cardinality(H) + Cardinality(s.woken) = n

\* A free slot and a queue are together only while somebody is being woken.
Alert(s) == s.queue # <<>> /\ s.free > 0 => s.woken # {}

SlotInv ==
  /\ request \in [Request -> RequestState]
  /\ Accounts(slots, Handling, Waiting, MaxSlots)
  /\ Alert(slots)

-----------------------------------------------------------------------------
(* What the semaphore's operations do to the account *)

\* Sets of requests are finite, and so are their cardinalities numbers.
LEMMA Finite ==
  ASSUME NEW S \in SUBSET Request
  PROVE  IsFiniteSet(S) /\ Cardinality(S) \in Nat
BY GuardAssumption, FS_Subset, FS_CardinalityType

\* Waking the next keeps the account, and leaves the semaphore alert unless
\* slots were free before and nobody was woken.
LEMMA Waking ==
  ASSUME NEW s, NEW H, NEW W, NEW n \in Nat, Accounts(s, H, W, n)
  PROVE  Accounts(WakeNext(s), H, W, n) /\ Alert(WakeNext(s))
<1>1. CASE s.free = 0 \/ s.queue = <<>>
  BY <1>1 DEF WakeNext, Alert, Accounts
<1>2. CASE s.free # 0 /\ s.queue # <<>>
  <2> DEFINE h == Head(s.queue)
             t == WakeNext(s)
  <2>1. /\ s.free \in Nat /\ s.queue \in Seq(Request) /\ s.woken \in SUBSET Request
        /\ Len(s.queue) \in Nat \ {0}
    BY <1>2 DEF Accounts
  <2>2. t = [free |-> s.free - 1, queue |-> Tail(s.queue), woken |-> s.woken \union {h}]
    BY <1>2 DEF WakeNext
  <2>3. /\ Tail(s.queue) \in Seq(Request) /\ Len(Tail(s.queue)) = Len(s.queue) - 1
        /\ \A i \in 1..Len(Tail(s.queue)) : Tail(s.queue)[i] = s.queue[i + 1]
        /\ h = s.queue[1] /\ h \in Request
    BY <1>2, <2>1
  <2>4. h \notin s.woken
    BY <2>1, <2>3 DEF Accounts
  <2>5. Cardinality(s.woken \union {h}) = Cardinality(s.woken) + 1
    BY <2>1, <2>4, Finite, FS_AddElement
  <2>6. t.free + Cardinality(H) + Cardinality(t.woken) = n
    BY <1>2, <2>1, <2>2, <2>5, Finite DEF Accounts
  <2>7. W = t.woken \union {t.queue[i] : i \in 1..Len(t.queue)}
    <3>1. \A i \in 1..Len(s.queue) :
             i = 1 \/ (i - 1 \in 1..Len(t.queue) /\ t.queue[i - 1] = s.queue[i])
      BY <2>1, <2>2, <2>3
    <3>2. \A i \in 1..Len(t.queue) : i + 1 \in 1..Len(s.queue) /\ t.queue[i] = s.queue[i + 1]
      BY <2>1, <2>2, <2>3
    <3>3. 1 \in 1..Len(s.queue)
      BY <2>1
    <3>4. W = s.woken \union {s.queue[i] : i \in 1..Len(s.queue)}
      BY DEF Accounts
    <3>5. t.woken = s.woken \union {h}
      BY <2>2
    <3> HIDE DEF t
    <3>6. ASSUME NEW x \in W
          PROVE  x \in t.woken \union {t.queue[i] : i \in 1..Len(t.queue)}
      <4>1. CASE x \in s.woken
        BY <4>1, <3>5
      <4>2. CASE x \notin s.woken
        <5>1. PICK i \in 1..Len(s.queue) : x = s.queue[i]
          BY <4>2, <3>4, <3>6
        <5> QED BY <5>1, <3>1, <3>5, <2>3
      <4> QED BY <4>1, <4>2
    <3>7. ASSUME NEW x \in t.woken \union {t.queue[i] : i \in 1..Len(t.queue)}
          PROVE  x \in W
      <4>1. CASE x \in t.woken
        BY <4>1, <3>3, <3>4, <3>5, <2>3
      <4>2. CASE x \notin t.woken
        <5>1. PICK i \in 1..Len(t.queue) : x = t.queue[i]
          BY <4>2, <3>7
        <5> QED BY <5>1, <3>2, <3>4
      <4> QED BY <4>1, <4>2
    <3> QED BY <3>6, <3>7
  <2>8. /\ \A i \in 1..Len(t.queue) : t.queue[i] \notin t.woken
        /\ \A i, j \in 1..Len(t.queue) : t.queue[i] = t.queue[j] => i = j
    <3>1. \A i \in 1..Len(t.queue) : i + 1 \in 1..Len(s.queue) /\ t.queue[i] = s.queue[i + 1]
      BY <2>1, <2>2, <2>3
    <3>2. \A i, j \in 1..Len(s.queue) : s.queue[i] = s.queue[j] => i = j
      BY DEF Accounts
    <3>3. \A i \in 1..Len(s.queue) : s.queue[i] \notin s.woken
      BY DEF Accounts
    <3>4. \A i \in 1..Len(t.queue) : t.queue[i] # h
      BY <2>1, <2>3, <3>1, <3>2
    <3>5. t.woken = s.woken \union {h}
      BY <2>2
    <3>6. \A i \in 1..Len(t.queue) : i \in Nat
      OBVIOUS
    <3> HIDE DEF t, h
    <3>7. \A i \in 1..Len(t.queue) : t.queue[i] \notin t.woken
      BY <3>1, <3>3, <3>4, <3>5
    <3>8. ASSUME NEW i \in 1..Len(t.queue), NEW j \in 1..Len(t.queue),
                 t.queue[i] = t.queue[j]
          PROVE  i = j
      <4>1. i + 1 = j + 1
        BY <3>1, <3>2, <3>8
      <4> QED BY <4>1, <3>6
    <3> QED BY <3>7, <3>8
  <2>9. /\ t \in [free : Nat, queue : Seq(Request), woken : SUBSET Request]
        /\ t.woken # {}
    <3>1. s.free - 1 \in Nat
      BY <1>2, <2>1
    <3>2. s.woken \union {h} \in SUBSET Request /\ s.woken \union {h} # {}
      BY <2>1, <2>3
    <3> HIDE DEF t, h
    <3> QED BY <3>1, <3>2, <2>2, <2>3
  <2> HIDE DEF t
  <2>10. Accounts(t, H, W, n)
    BY <2>6, <2>7, <2>8, <2>9 DEF Accounts
  <2>11. Alert(t)
    BY <2>9 DEF Alert
  <2> QED BY <2>10, <2>11 DEF t
<1> QED BY <1>1, <1>2

\* A slot more, and whoever is first in the queue is woken.
LEMMA Releasing ==
  ASSUME NEW s, NEW H, NEW W, NEW n \in Nat, Accounts(s, H, W, n)
  PROVE  Accounts(Released(s), H, W, n + 1) /\ Alert(Released(s))
<1> DEFINE t == [s EXCEPT !.free = @ + 1]
<1>1. /\ s.free \in Nat /\ H \in SUBSET Request /\ s.woken \in SUBSET Request
      /\ s = [free |-> s.free, queue |-> s.queue, woken |-> s.woken]
  BY DEF Accounts
<1>2. /\ t \in [free : Nat, queue : Seq(Request), woken : SUBSET Request]
      /\ t.free = s.free + 1 /\ t.queue = s.queue /\ t.woken = s.woken
  BY DEF Accounts
<1> HIDE DEF t
<1>3. t.free + Cardinality(H) + Cardinality(t.woken) = n + 1
  BY <1>1, <1>2, Finite DEF Accounts
<1>4. Accounts(t, H, W, n + 1)
  BY <1>2, <1>3 DEF Accounts
<1> QED BY <1>4, Waking DEF Released, t

\* A woken request goes on: it no longer waits, and its slot is to be given
\* to somebody.
LEMMA Resuming ==
  ASSUME NEW s, NEW H, NEW W, NEW n \in Nat, Accounts(s, H, W, n + 1),
         NEW r \in s.woken
  PROVE  Accounts(Resumed(s, r), H, W \ {r}, n) /\ Alert(Resumed(s, r))
<1> DEFINE t == [s EXCEPT !.woken = @ \ {r}]
<1>1. /\ s.free \in Nat /\ H \in SUBSET Request /\ s.woken \in SUBSET Request
      /\ s = [free |-> s.free, queue |-> s.queue, woken |-> s.woken]
  BY DEF Accounts
<1>2. /\ t \in [free : Nat, queue : Seq(Request), woken : SUBSET Request]
      /\ t.free = s.free /\ t.queue = s.queue /\ t.woken = s.woken \ {r}
  BY DEF Accounts
<1> HIDE DEF t
<1>3. Cardinality(t.woken) = Cardinality(s.woken) - 1
  BY <1>1, <1>2, Finite, FS_RemoveElement
<1>4. t.free + Cardinality(H) + Cardinality(t.woken) = n
  BY <1>1, <1>2, <1>3, Finite DEF Accounts
<1>5. W \ {r} = t.woken \union {t.queue[i] : i \in 1..Len(t.queue)}
  <2>1. W = s.woken \union {s.queue[i] : i \in 1..Len(s.queue)}
    BY DEF Accounts
  <2>2. \A i \in 1..Len(s.queue) : s.queue[i] # r
    BY DEF Accounts
  <2> QED BY <2>1, <2>2, <1>2
<1>6. /\ \A i \in 1..Len(t.queue) : t.queue[i] \notin t.woken
      /\ \A i, j \in 1..Len(t.queue) : t.queue[i] = t.queue[j] => i = j
  BY <1>2 DEF Accounts
<1>7. H \subseteq Request /\ W \ {r} \subseteq Request /\ H \intersect (W \ {r}) = {}
  BY DEF Accounts
<1>8. Accounts(t, H, W \ {r}, n)
  BY <1>2, <1>4, <1>5, <1>6, <1>7 DEF Accounts
<1> QED BY <1>8, Waking DEF Resumed, t

\* A request starts to work with the slot that is to be given.
LEMMA Starting ==
  ASSUME NEW s, NEW H, NEW W, NEW n \in Nat, Accounts(s, H, W, n),
         NEW r \in Request, r \notin H, r \notin W
  PROVE  Accounts(s, H \union {r}, W, n + 1)
<1>1. H \in SUBSET Request /\ s.woken \in SUBSET Request /\ s.free \in Nat
  BY DEF Accounts
<1>2. Cardinality(H \union {r}) = Cardinality(H) + 1
  BY <1>1, Finite, FS_AddElement
<1>3. s.free + Cardinality(H \union {r}) + Cardinality(s.woken) = n + 1
  <2>1. Cardinality(H) \in Nat /\ Cardinality(s.woken) \in Nat
    BY <1>1, Finite
  <2>2. s.free + Cardinality(H) + Cardinality(s.woken) = n
    BY DEF Accounts
  <2> QED BY <1>1, <1>2, <2>1, <2>2
<1> QED BY <1>3 DEF Accounts

\* A request is over; its slot is to be released.
LEMMA Ending ==
  ASSUME NEW s, NEW H, NEW W, NEW n \in Nat, Accounts(s, H, W, n + 1), NEW r \in H
  PROVE  Accounts(s, H \ {r}, W, n)
<1>1. H \in SUBSET Request /\ s.woken \in SUBSET Request /\ s.free \in Nat
  BY DEF Accounts
<1>2. Cardinality(H \ {r}) = Cardinality(H) - 1
  BY <1>1, Finite, FS_RemoveElement
<1>3. s.free + Cardinality(H \ {r}) + Cardinality(s.woken) = n
  <2>1. Cardinality(H) \in Nat /\ Cardinality(s.woken) \in Nat
    BY <1>1, Finite
  <2>2. s.free + Cardinality(H) + Cardinality(s.woken) = n + 1
    BY DEF Accounts
  <2>3. Cardinality(H \ {r}) \in Nat
    BY <1>1, Finite
  <2> QED BY <1>1, <1>2, <2>1, <2>2, <2>3, SMTT(30)
<1> QED BY <1>3 DEF Accounts

\* A free slot is taken.
LEMMA Taking ==
  ASSUME NEW s, NEW H, NEW W, NEW n \in Nat, Accounts(s, H, W, n + 1), s.free > 0
  PROVE  Accounts(Taken(s), H, W, n)
<1>1. /\ s.free \in Nat /\ H \in SUBSET Request /\ s.woken \in SUBSET Request
      /\ s = [free |-> s.free, queue |-> s.queue, woken |-> s.woken]
  BY DEF Accounts
<1>2. Taken(s) = [free |-> s.free - 1, queue |-> s.queue, woken |-> s.woken]
  BY <1>1 DEF Taken
<1>3. s.free - 1 \in Nat
  BY <1>1
<1>4. /\ Taken(s) \in [free : Nat, queue : Seq(Request), woken : SUBSET Request]
      /\ Taken(s).free = s.free - 1
      /\ Taken(s).queue = s.queue /\ Taken(s).woken = s.woken
  BY <1>2, <1>3 DEF Accounts
<1>5. Taken(s).free + Cardinality(H) + Cardinality(Taken(s).woken) = n
  <2>1. Cardinality(H) \in Nat /\ Cardinality(s.woken) \in Nat
    BY <1>1, Finite
  <2>2. s.free + Cardinality(H) + Cardinality(s.woken) = n + 1
    BY DEF Accounts
  <2> QED BY <1>1, <1>4, <2>1, <2>2
<1> QED BY <1>4, <1>5 DEF Accounts

\* A request goes to the end of the queue.
LEMMA Queueing ==
  ASSUME NEW s, NEW H, NEW W, NEW n \in Nat, Accounts(s, H, W, n),
         NEW r \in Request, r \notin H, r \notin W
  PROVE  Accounts(Queued(s, r), H, W \union {r}, n)
<1> DEFINE t == Queued(s, r)
<1>1. /\ s.free \in Nat /\ s.queue \in Seq(Request) /\ s.woken \in SUBSET Request
      /\ s = [free |-> s.free, queue |-> s.queue, woken |-> s.woken]
      /\ Len(s.queue) \in Nat
  BY DEF Accounts
<1>2. t = [free |-> s.free, queue |-> Append(s.queue, r), woken |-> s.woken]
  <2>1. t = [s EXCEPT !.queue = Append(s.queue, r)]
    BY DEF Queued
  <2>2. s \in [free : Nat, queue : Seq(Request), woken : SUBSET Request]
    BY DEF Accounts
  <2> QED BY <2>1, <2>2
<1>3. /\ Append(s.queue, r) \in Seq(Request)
      /\ Len(Append(s.queue, r)) = Len(s.queue) + 1
      /\ \A i \in 1..Len(s.queue) : Append(s.queue, r)[i] = s.queue[i]
      /\ Append(s.queue, r)[Len(s.queue) + 1] = r
  BY <1>1
<1> HIDE DEF t
<1>4. /\ t \in [free : Nat, queue : Seq(Request), woken : SUBSET Request]
      /\ t.free = s.free /\ t.woken = s.woken
      /\ Len(t.queue) = Len(s.queue) + 1
      /\ \A i \in 1..Len(s.queue) : t.queue[i] = s.queue[i]
      /\ t.queue[Len(s.queue) + 1] = r
  BY <1>1, <1>2, <1>3
<1>5. \A i \in 1..Len(t.queue) : i \in 1..Len(s.queue) \/ i = Len(s.queue) + 1
  BY <1>1, <1>4
<1>6. \A i \in 1..Len(s.queue) : i \in 1..Len(t.queue) /\ s.queue[i] \in W
  BY <1>1, <1>4 DEF Accounts
<1>7. Len(s.queue) + 1 \in 1..Len(t.queue)
  BY <1>1, <1>4
<1>8. W \union {r} = t.woken \union {t.queue[i] : i \in 1..Len(t.queue)}
  <2>1. W = s.woken \union {s.queue[i] : i \in 1..Len(s.queue)}
    BY DEF Accounts
  <2> QED BY <2>1, <1>4, <1>5, <1>6, <1>7
<1>9. r \notin s.woken
  BY DEF Accounts
<1>10. \A i \in 1..Len(t.queue) : t.queue[i] \notin t.woken
  BY <1>4, <1>5, <1>9 DEF Accounts
<1>11. \A i, j \in 1..Len(t.queue) : t.queue[i] = t.queue[j] => i = j
  <2>1. \A i, j \in 1..Len(s.queue) : s.queue[i] = s.queue[j] => i = j
    BY DEF Accounts
  <2> QED BY <2>1, <1>4, <1>5, <1>6
<1>12. H \subseteq Request /\ W \union {r} \subseteq Request /\ H \intersect (W \union {r}) = {}
  BY DEF Accounts
<1>13. t.free + Cardinality(H) + Cardinality(t.woken) = n
  BY <1>4 DEF Accounts
<1> QED BY <1>4, <1>8, <1>10, <1>11, <1>12, <1>13 DEF Accounts, t
-----------------------------------------------------------------------------
(* The invariant holds *)

\* The states of a request that comes or goes are states of a request.
LEMMA Typed ==
  /\ Gone \in RequestState /\ Gone.phase = "gone"
  /\ Begun \in RequestState /\ Begun.phase = "handled"
  /\ \A declared \in BOOLEAN :
       [phase |-> "acquiring", declared |-> declared, total |-> 0] \in RequestState
BY GuardAssumption DEF Gone, Begun, RequestState

\* It holds at the start.
LEMMA InitSlots == Init => SlotInv
<1> SUFFICES ASSUME Init PROVE SlotInv
  OBVIOUS
<1>1. Handling = {} /\ Waiting = {}
  BY DEF Init, Gone, Handling, Waiting
<1>2. slots \in [free : Nat, queue : Seq(Request), woken : SUBSET Request]
  BY GuardAssumption DEF Init
<1>3. Cardinality({}) = 0
  BY FS_EmptySet
<1>4. slots.free + Cardinality({}) + Cardinality(slots.woken) = MaxSlots
  BY <1>3, GuardAssumption DEF Init
<1>5. slots.queue = <<>> /\ slots.woken = {}
  BY DEF Init
<1>6. {slots.queue[i] : i \in 1..Len(slots.queue)} = {}
  BY <1>5
<1>7. Accounts(slots, Handling, Waiting, MaxSlots)
  BY <1>1, <1>2, <1>4, <1>5, <1>6 DEF Accounts
<1>8. request \in [Request -> RequestState]
  BY Typed DEF Init
<1> QED BY <1>5, <1>7, <1>8 DEF SlotInv, Alert

\* Whatever request r becomes, nobody else's phase changes.
LEMMA Becoming ==
  ASSUME NEW r \in Request, NEW to \in RequestState, SlotInv,
         request' = [request EXCEPT ![r] = to]
  PROVE  /\ request' \in [Request -> RequestState]
         /\ to.phase = "gone" => Handling' = Handling \ {r} /\ Waiting' = Waiting \ {r}
         /\ to.phase = "acquiring" =>
              Handling' = Handling \ {r} /\ Waiting' = Waiting \union {r}
         /\ to.phase \in {"handled", "refused"} =>
              Handling' = Handling \union {r} /\ Waiting' = Waiting \ {r}
<1>1. request \in [Request -> RequestState]
  BY DEF SlotInv
<1>2. /\ request' \in [Request -> RequestState]
      /\ request'[r] = to /\ \A q \in Request \ {r} : request'[q] = request[q]
  BY <1>1
<1> QED BY <1>2 DEF Handling, Waiting

\* Entering with a slot in hand, whether the request waited for it or not: the
\* semaphore s accounts for the other slots.
LEMMA Entering ==
  ASSUME NEW r \in Request, NEW s, NEW declared \in BOOLEAN, SlotInv,
         Enter(r, s, declared), Alert(s), r \notin Handling,
         Accounts(s, Handling, Waiting \ {r}, MaxSlots - 1)
  PROVE  SlotInv'
<1>1. MaxSlots - 1 \in Nat /\ (MaxSlots - 1) + 1 = MaxSlots
  BY GuardAssumption
<1>2. Handling \ {r} = Handling /\ r \notin Waiting \ {r}
  OBVIOUS
<1>3. CASE declared
  <2>1. request' = [request EXCEPT ![r] = Gone] /\ slots' = Released(s)
    BY <1>3 DEF Enter
  <2>2. /\ Handling' = Handling \ {r} /\ Waiting' = Waiting \ {r}
        /\ request' \in [Request -> RequestState]
    BY <2>1, Becoming, Typed
  <2>3. Accounts(slots', Handling, Waiting \ {r}, MaxSlots) /\ Alert(slots')
    <3>1. /\ Accounts(Released(s), Handling, Waiting \ {r}, (MaxSlots - 1) + 1)
          /\ Alert(Released(s))
      BY <1>1, Releasing
    <3> QED BY <1>1, <2>1, <3>1
  <2> QED BY <1>2, <2>2, <2>3 DEF SlotInv
<1>4. CASE ~declared
  <2>1. request' = [request EXCEPT ![r] = Begun] /\ slots' = s
    BY <1>4 DEF Enter
  <2>3. /\ Handling' = Handling \union {r} /\ Waiting' = Waiting \ {r}
        /\ request' \in [Request -> RequestState]
    BY <2>1, Becoming, Typed
  <2>4. Accounts(s, Handling \union {r}, Waiting \ {r}, MaxSlots)
    <3>1. Accounts(s, Handling \union {r}, Waiting \ {r}, (MaxSlots - 1) + 1)
      BY <1>1, <1>2, Starting
    <3> QED BY <1>1, <3>1
  <2> QED BY <2>1, <2>3, <2>4 DEF SlotInv
<1> QED BY <1>3, <1>4

\* Every step keeps the invariant.
LEMMA StepSlots == SlotInv /\ [Next]_vars => SlotInv'
<1> SUFFICES ASSUME SlotInv, [Next]_vars PROVE SlotInv'
  OBVIOUS
<1> USE DEF Handling, Waiting
<1>0. MaxSlots - 1 \in Nat /\ (MaxSlots - 1) + 1 = MaxSlots /\ MaxSlots \in Nat
  BY GuardAssumption
<1>a. Accounts(slots, Handling, Waiting, MaxSlots) /\ Alert(slots)
  BY DEF SlotInv
<1>1. ASSUME NEW r \in Request, NEW s \in Source, Limited(r, s) PROVE SlotInv'
  BY <1>1 DEF Limited, SlotInv
<1>2. ASSUME NEW r \in Request, NEW s \in Source, NEW declared \in BOOLEAN,
             Admit(r, s, declared)
      PROVE  SlotInv'
  <2>1. request[r].phase = "gone" /\ r \notin Handling /\ r \notin Waiting
    BY <1>2 DEF Admit
  <2>2. CASE Locked(slots)
    <3> DEFINE to == [phase |-> "acquiring", declared |-> declared, total |-> 0]
    <3>1. slots' = Queued(slots, r) /\ request' = [request EXCEPT ![r] = to]
      BY <1>2, <2>2 DEF Admit
    <3>2. /\ Handling' = Handling \ {r} /\ Waiting' = Waiting \union {r}
          /\ request' \in [Request -> RequestState]
      BY <3>1, Becoming, Typed
    <3>3. Accounts(slots', Handling, Waiting \union {r}, MaxSlots)
      BY <1>0, <1>a, <2>1, <3>1, Queueing
    <3>4. Alert(slots')
      <4>1. slots \in [free : Nat, queue : Seq(Request), woken : SUBSET Request]
        BY <1>a DEF Accounts
      <4>2. slots'.free = slots.free /\ slots'.woken = slots.woken
        BY <3>1, <4>1 DEF Queued
      <4> QED BY <1>a, <2>2, <4>1, <4>2 DEF Locked, Alert
    <3>5. Handling \ {r} = Handling
      BY <2>1
    <3> QED BY <3>2, <3>3, <3>4, <3>5 DEF SlotInv
  <2>3. CASE ~Locked(slots)
    <3>1. slots.free > 0 /\ slots.queue = <<>>
      BY <1>a, <2>3 DEF Locked, Accounts
    <3>2. Accounts(Taken(slots), Handling, Waiting, MaxSlots - 1)
      BY <1>0, <1>a, <3>1, Taking
    <3>3. Alert(Taken(slots))
      <4>1. slots \in [free : Nat, queue : Seq(Request), woken : SUBSET Request]
        BY <1>a DEF Accounts
      <4> QED BY <3>1, <4>1 DEF Taken, Alert
    <3>4. Waiting \ {r} = Waiting
      BY <2>1
    <3>5. Enter(r, Taken(slots), declared)
      BY <1>2, <2>3 DEF Admit
    <3> QED BY <2>1, <3>2, <3>3, <3>4, <3>5, Entering
  <2> QED BY <2>2, <2>3
<1>3. ASSUME NEW r \in Request, Resume(r) PROVE SlotInv'
  <2>1. /\ r \in slots.woken /\ Enter(r, Resumed(slots, r), request[r].declared)
        /\ request[r].declared \in BOOLEAN
    BY <1>3 DEF Resume, SlotInv, RequestState
  <2>2. r \in Waiting /\ r \notin Handling
    BY <1>a, <2>1 DEF Accounts
  <2>3. /\ Accounts(Resumed(slots, r), Handling, Waiting \ {r}, MaxSlots - 1)
        /\ Alert(Resumed(slots, r))
    <3>1. Accounts(slots, Handling, Waiting, (MaxSlots - 1) + 1)
      BY <1>0, <1>a
    <3> QED BY <1>0, <2>1, <3>1, Resuming
  <2> QED BY <2>1, <2>2, <2>3, Entering
<1>4. ASSUME NEW r \in Request, Read(r) PROVE SlotInv'
  <2>1. r \in Handling /\ r \notin Waiting /\ request[r].phase = "handled"
    BY <1>4 DEF Read
  <2>2. PICK to \in RequestState : /\ request' = [request EXCEPT ![r] = to]
                                   /\ to.phase \in {"handled", "refused"}
    <3>1. request[r] \in RequestState
      BY DEF SlotInv
    <3>2. AfterChunk(request[r]) \in RequestState
      BY <3>1, GuardAssumption DEF AfterChunk, RequestState
    <3>3. AfterChunk(request[r]).phase \in {"handled", "refused"}
      BY <2>1, <3>1 DEF AfterChunk, RequestState
    <3> QED BY <1>4, <3>2, <3>3 DEF Read
  <2>3. /\ Handling' = Handling \union {r} /\ Waiting' = Waiting \ {r}
        /\ request' \in [Request -> RequestState]
    BY <2>2, Becoming
  <2>4. Handling' = Handling /\ Waiting' = Waiting /\ slots' = slots
    BY <1>4, <2>1, <2>3 DEF Read
  <2> QED BY <1>a, <2>3, <2>4 DEF SlotInv
<1>5. ASSUME NEW r \in Request, Finish(r) PROVE SlotInv'
  <2>1. /\ r \in Handling /\ r \notin Waiting
        /\ request' = [request EXCEPT ![r] = Gone] /\ slots' = Released(slots)
    BY <1>5 DEF Finish
  <2>2. /\ Handling' = Handling \ {r} /\ Waiting' = Waiting \ {r}
        /\ request' \in [Request -> RequestState]
    BY <2>1, Becoming, Typed
  <2>3. Accounts(slots, Handling \ {r}, Waiting, MaxSlots - 1)
    <3>1. Accounts(slots, Handling, Waiting, (MaxSlots - 1) + 1)
      BY <1>0, <1>a
    <3> QED BY <1>0, <2>1, <3>1, Ending
  <2>4. Accounts(slots', Handling \ {r}, Waiting, MaxSlots) /\ Alert(slots')
    <3>1. /\ Accounts(Released(slots), Handling \ {r}, Waiting, (MaxSlots - 1) + 1)
          /\ Alert(Released(slots))
      BY <1>0, <2>3, Releasing
    <3> QED BY <1>0, <2>1, <3>1
  <2>5. Waiting \ {r} = Waiting
    BY <2>1
  <2> QED BY <2>2, <2>4, <2>5 DEF SlotInv
<1>6. CASE Tick
  BY <1>6 DEF Tick, SlotInv
<1>7. CASE UNCHANGED vars
  BY <1>7 DEF vars, SlotInv
<1> QED BY <1>1, <1>2, <1>3, <1>4, <1>5, <1>6, <1>7 DEF Next

-----------------------------------------------------------------------------
(* Theorems *)

\* The inductive invariant: the semaphore accounts for every slot, and it is
\* alert.
THEOREM SlotsAccounted == Spec => []SlotInv
BY InitSlots, StepSlots, PTL DEF Spec

\* Slots are neither lost nor given twice, nobody who waits is forgotten, and
\* while somebody waits somebody is at work who will wake the next: whatever way
\* each request takes through the middleware (app/http.py).
THEOREM SlotsHold == Spec => []SlotsKept
<1>1. SlotInv => SlotsKept
  <2> SUFFICES ASSUME SlotInv PROVE SlotsKept
    OBVIOUS
  <2>1. Accounts(slots, Handling, Waiting, MaxSlots) /\ Alert(slots)
    BY DEF SlotInv
  <2>2. /\ Handling \in SUBSET Request /\ slots.woken \in SUBSET Request
        /\ Handling \intersect slots.woken = {}
        /\ slots.free \in Nat /\ slots.queue \in Seq(Request)
    BY <2>1 DEF Accounts
  <2>3. Cardinality(Handling) \in Nat /\ Cardinality(slots.woken) \in Nat
    BY <2>2, Finite
  <2>4. Cardinality(Holders) = Cardinality(Handling) + Cardinality(slots.woken)
    <3>1. IsFiniteSet(Handling) /\ IsFiniteSet(slots.woken)
      BY <2>2, Finite
    <3>2. Cardinality(Handling \union slots.woken)
            = Cardinality(Handling) + Cardinality(slots.woken)
              - Cardinality(Handling \intersect slots.woken)
      BY <3>1, FS_Union
    <3>3. Cardinality(Handling \intersect slots.woken) = 0
      BY <2>2, FS_EmptySet
    <3>4. Holders = Handling \union slots.woken
      BY DEF Holders, Handling
    <3> HIDE DEF Handling, Waiting
    <3> QED BY <2>3, <3>2, <3>3, <3>4
  <2>5. slots.free + Cardinality(Handling) + Cardinality(slots.woken) = MaxSlots
    BY <2>1 DEF Accounts
  <2>6. slots.free + Cardinality(Holders) = MaxSlots
    BY <2>2, <2>3, <2>4, <2>5
  <2>7. slots.woken \union ToSet(slots.queue) = Waiting
    <3>1. ToSet(slots.queue) = {slots.queue[i] : i \in 1..Len(slots.queue)}
      BY <2>2 DEF ToSet
    <3> QED BY <2>1, <3>1 DEF Accounts
  <2>8. slots.queue # <<>> /\ slots.free > 0 => slots.woken # {}
    BY <2>1 DEF Alert
  <2>9. slots.queue # <<>> => Holders # {}
    <3>1. CASE slots.free > 0
      BY <2>8, <3>1 DEF Holders
    <3>2. CASE slots.free = 0
      <4>1. Cardinality(Holders) # 0
        BY <2>2, <2>3, <2>4, <2>6, <3>2, GuardAssumption
      <4> QED BY <4>1, FS_EmptySet
    <3> QED BY <2>2, <3>1, <3>2
  <2> QED BY <2>6, <2>7, <2>8, <2>9 DEF SlotsKept, Waiting
<1> QED BY <1>1, SlotsAccounted, PTL

-----------------------------------------------------------------------------
(* The window *)

LEMMA MinOfTwo ==
  ASSUME NEW m \in Nat, NEW n \in Nat
  PROVE  /\ Min({m, n}) = IF m <= n THEN m ELSE n
         /\ Max({m, n}) = IF m <= n THEN n ELSE m
<1>1. Min({m, n}) \in {m, n} /\ Min({m, n}) <= m /\ Min({m, n}) <= n
  BY MinLeast
<1>2. Max({m, n}) \in {m, n} /\ Max({m, n}) >= m /\ Max({m, n}) >= n
  <2>1. \E x \in {m, n} : \A y \in {m, n} : x >= y
    OBVIOUS
  <2> QED BY <2>1 DEF Max
<1> QED BY <1>1, <1>2

LEMMA InSeq ==
  ASSUME NEW T, NEW ages \in Seq(T)
  PROVE  /\ Len(ages) \in Nat /\ DOMAIN ages = 1..Len(ages)
         /\ ages = [i \in 1..Len(ages) |-> ages[i]]
         /\ \A i \in 1..Len(ages) : ages[i] \in T
OBVIOUS

LEMMA MakeSeq ==
  ASSUME NEW T, NEW n \in Nat, NEW ages, ages = [i \in 1..n |-> ages[i]],
         \A i \in 1..n : ages[i] \in T
  PROVE  ages \in Seq(T) /\ Len(ages) = n
<1>1. ages \in [1..n -> T]
  OBVIOUS
<1> QED BY <1>1

\* Rounding down.
LEMMA Halved ==
  ASSUME NEW n \in Nat
  PROVE  n \div 2 \in Nat /\ 2 * (n \div 2) >= n - 1 /\ 2 * (n \div 2) <= n
OBVIOUS

\* The loop drops d ages, which are over, and stops at one that is not.
Drops(ages, n, d) ==
  /\ d \in 0..Len(ages)
  /\ Len(Younger(ages, n)) = Len(ages) - d
  /\ \A i \in 1..(Len(ages) - d) : Younger(ages, n)[i] = ages[i + d]
  /\ \A i \in 1..d : ages[i] >= n
  /\ d < Len(ages) => ages[d + 1] < n

LEMMA YoungerDrops ==
  ASSUME NEW T \in SUBSET Nat, NEW ages \in Seq(T), NEW n \in Nat
  PROVE  /\ Younger(ages, n) \in Seq(T)
         /\ \E d \in 0..Len(ages) : Drops(ages, n, d)
<1> DEFINE A == {i \in DOMAIN ages : ages[i] < n} \union {Len(ages) + 1}
           k == Min(A)
<1>1. /\ Len(ages) \in Nat /\ DOMAIN ages = 1..Len(ages)
      /\ \A i \in 1..Len(ages) : ages[i] \in T
  OBVIOUS
<1>2. A \in SUBSET (1..(Len(ages) + 1)) /\ A # {}
  BY <1>1
<1>3. k \in A /\ \A m \in A : k <= m
  <2>1. A \in SUBSET Nat
    BY <1>2
  <2> HIDE DEF A
  <2> QED BY <1>2, <2>1, MinLeast
<1>4. k \in 1..(Len(ages) + 1)
  BY <1>2, <1>3
<1>5. \A i \in 1..(k - 1) : ages[i] >= n
  <2> SUFFICES ASSUME NEW i \in 1..(k - 1) PROVE ages[i] >= n
    OBVIOUS
  <2> HIDE DEF k
  <2>1. i \notin A /\ i \in DOMAIN ages
    <3> HIDE DEF A
    <3>1. i < k /\ i \in 1..Len(ages)
      BY <1>1, <1>4
    <3> QED BY <1>1, <1>3, <1>4, <3>1
  <2>2. ages[i] \in Nat
    BY <1>1, <2>1
  <2> QED BY <2>1, <2>2
<1>6. k - 1 < Len(ages) => ages[k] < n
  <2> HIDE DEF k
  <2> QED BY <1>1, <1>3, <1>4
<1>7. Younger(ages, n) = SubSeq(ages, k, Len(ages))
  BY DEF Younger
<1> HIDE DEF k
<1>8. \A i \in k..Len(ages) : ages[i] \in T
  BY <1>1, <1>4
<1>9. /\ Younger(ages, n) \in Seq(T)
      /\ Len(Younger(ages, n)) = IF k <= Len(ages) THEN Len(ages) - k + 1 ELSE 0
      /\ \A i \in 1..(Len(ages) - k + 1) : Younger(ages, n)[i] = ages[k + i - 1]
  <2>1. k \in Int /\ Len(ages) \in Int
    BY <1>1, <1>4
  <2> QED BY <1>7, <1>8, <2>1, SubSeqProperties
<1>10. Drops(ages, n, k - 1)
  BY <1>1, <1>4, <1>5, <1>6, <1>9 DEF Drops
<1> QED BY <1>1, <1>4, <1>9, <1>10

\* What is kept of a source: a are its attempts, m its admissions of the last
\* minute, p the promise made to it.
\*   The admissions are the attempts that are not over yet, the oldest first; the
\* promise is kept when the oldest of a full window is over by then.
Fades(a, m) ==
  LET over == Len(a) - Len(m) IN
  /\ over >= 0
  /\ \A i \in 1..over : a[i] = Window
  /\ \A i \in 1..Len(m) : m[i] = a[i + over]

Kept(a, p) == p # None /\ Len(a) = Limit => a[1] + p >= Window

Counts(a, m, p) ==
  /\ a \in Seq(0..Window) /\ Len(a) <= Limit
  /\ m \in Seq(0..(Window - 1))
  /\ \A i, j \in 1..Len(m) : i <= j => m[j] <= m[i]
  /\ p \in {None} \union 0..(Window + 1)
  /\ Fades(a, m)
  /\ Kept(a, p)

WindowInv ==
  /\ DOMAIN attempts = Source /\ DOMAIN admitted = Source
  /\ promise \in [Source -> {None} \union 0..(Window + 1)]
  /\ \A s \in Source : Counts(attempts[s], admitted[s], promise[s])

\* What is counted is what was admitted in the last minute.
LEMMA CountsRecent ==
  ASSUME NEW a, NEW m, NEW p, Counts(a, m, p)
  PROVE  /\ Younger(a, Window) \in Seq(0..Window)
         /\ Len(Younger(a, Window)) = Len(m)
         /\ Len(m) \in Nat /\ Len(a) \in Nat /\ Len(m) <= Len(a)
         /\ \A i \in 1..Len(m) : Younger(a, Window)[i] = a[i + (Len(a) - Len(m))]
         /\ \A i \in 1..Len(m) : Younger(a, Window)[i] = m[i]
<1>1. Window \in Nat
  BY GuardAssumption
<1>2. a \in Seq(0..Window) /\ m \in Seq(0..(Window - 1)) /\ Fades(a, m)
  BY DEF Counts
<1>3. /\ Younger(a, Window) \in Seq(0..Window)
      /\ \E d \in 0..Len(a) : Drops(a, Window, d)
  <2>1. 0..Window \in SUBSET Nat
    BY <1>1
  <2> QED BY <1>1, <1>2, <2>1, YoungerDrops
<1>4. PICK d \in 0..Len(a) : Drops(a, Window, d)
  BY <1>3
<1> DEFINE over == Len(a) - Len(m)
<1>5. /\ Len(a) \in Nat /\ Len(m) \in Nat
      /\ \A i \in 1..Len(a) : a[i] \in 0..Window
      /\ \A i \in 1..Len(m) : m[i] \in 0..(Window - 1)
  BY <1>2, InSeq
<1>6. /\ over \in Nat
      /\ \A i \in 1..over : a[i] = Window
      /\ \A i \in 1..Len(m) : m[i] = a[i + over]
  BY <1>2, <1>5 DEF Fades
<1>7. ~(d > over)
  <2> SUFFICES ASSUME d > over PROVE FALSE
    OBVIOUS
  <2>1. over + 1 \in 1..d /\ 1 \in 1..Len(m)
    BY <1>4, <1>5, <1>6
  <2>2. a[over + 1] >= Window
    BY <1>4, <2>1 DEF Drops
  <2>3. a[1 + over] = m[1] /\ m[1] \in 0..(Window - 1)
    BY <1>5, <1>6, <2>1
  <2>4. 1 + over = over + 1
    BY <1>6
  <2> QED BY <1>1, <2>2, <2>3, <2>4
<1>8. ~(d < over)
  <2> SUFFICES ASSUME d < over PROVE FALSE
    OBVIOUS
  <2>1. d + 1 \in 1..over /\ d < Len(a)
    BY <1>4, <1>5, <1>6
  <2>2. a[d + 1] < Window
    BY <1>4, <2>1 DEF Drops
  <2>3. a[d + 1] = Window
    BY <1>6, <2>1
  <2> QED BY <1>1, <2>2, <2>3
<1>9. d = over
  BY <1>4, <1>5, <1>6, <1>7, <1>8
<1>10. Len(Younger(a, Window)) = Len(a) - d
       /\ \A i \in 1..(Len(a) - d) : Younger(a, Window)[i] = a[i + d]
  BY <1>4 DEF Drops
<1>11. Len(a) - d = Len(m)
  BY <1>5, <1>9
<1> HIDE DEF over
<1> QED BY <1>3, <1>5, <1>6, <1>9, <1>10, <1>11 DEF over

\* A refusal changes no count: only the promise is new.
LEMMA LimitedCounts ==
  ASSUME NEW a, NEW m, NEW p, Counts(a, m, p), Len(Younger(a, Window)) >= Limit
  PROVE  Counts(Younger(a, Window), m,
                Min({RetryAfter(Head(Younger(a, Window)))} \union ({p} \ {None})))
<1> DEFINE y == Younger(a, Window)
           retry == RetryAfter(Head(y))
           q == Min({retry} \union ({p} \ {None}))
<1>1. Window \in Nat /\ Window >= 2 /\ Limit \in Nat /\ Limit >= 1 /\ Window % 2 = 0 /\ None \notin Int
  BY GuardAssumption
<1>2. /\ y \in Seq(0..Window) /\ Len(y) = Len(m) /\ Len(m) <= Len(a)
      /\ Len(m) \in Nat /\ Len(a) \in Nat /\ Len(a) <= Limit
      /\ \A i \in 1..Len(m) : y[i] = m[i]
      /\ \A i \in 1..Len(m) : y[i] = a[i + (Len(a) - Len(m))]
  BY CountsRecent DEF Counts
<1>3. Len(y) = Limit /\ Len(a) = Limit
  BY <1>1, <1>2
<1>4. Head(y) = a[1] /\ a[1] \in 0..Window /\ y[1] = a[1]
  <2> HIDE DEF y
  <2>1. y # <<>> /\ Head(y) = y[1]
    BY <1>1, <1>2, <1>3
  <2>2. 1 \in 1..Len(m) /\ 1 + (Len(a) - Len(m)) = 1
    BY <1>1, <1>2, <1>3
  <2>3. y[1] = a[1]
    BY <1>2, <2>2
  <2>4. y[1] \in 0..Window
    BY <1>1, <1>2, <1>3
  <2> QED BY <2>1, <2>3, <2>4
<1>5. retry \in 0..(Window + 1) /\ a[1] + retry >= Window
  <2> DEFINE half == (Window - a[1] + 1) \div 2
  <2>1. half \in Nat /\ 2 * half >= Window - a[1] /\ 2 * half <= Window - a[1] + 1
    <3>1. Window - a[1] + 1 \in Nat
      BY <1>1, <1>4
    <3>2. /\ half \in Nat
          /\ 2 * half >= (Window - a[1] + 1) - 1 /\ 2 * half <= Window - a[1] + 1
      BY <3>1, Halved
    <3> HIDE DEF half
    <3> QED BY <1>1, <1>4, <3>2
  <2>2. Max({1, half}) = IF 1 <= half THEN half ELSE 1
    <3> HIDE DEF half
    <3> QED BY <2>1, MinOfTwo
  <2>3. retry = 2 * Max({1, half})
    BY <1>4 DEF RetryAfter
  <2> HIDE DEF half, retry
  <2>4. CASE 1 <= half
    BY <1>1, <1>4, <2>1, <2>2, <2>3, <2>4
  <2>5. CASE ~(1 <= half)
    BY <1>1, <1>4, <2>1, <2>2, <2>3, <2>5
  <2> QED BY <2>4, <2>5
<1> HIDE DEF retry
<1>6. q \in 0..(Window + 1) /\ a[1] + q >= Window
  <2>1. CASE p = None
    <3>1. {retry} \union ({p} \ {None}) = {retry}
      BY <2>1
    <3>2. q = retry
      BY <1>1, <1>5, <3>1, MinLeast
    <3> QED BY <1>5, <3>2
  <2>2. CASE p # None
    <3>1. {retry} \union ({p} \ {None}) = {retry, p}
      BY <2>2
    <3>2. p \in 0..(Window + 1) /\ a[1] + p >= Window
      BY <1>3, <2>2 DEF Counts, Kept
    <3>3. q = retry \/ q = p
      BY <1>5, <3>1, <3>2, MinLeast
    <3> QED BY <1>5, <3>2, <3>3
  <2> QED BY <2>1, <2>2
<1> HIDE DEF y, q
<1>7. Fades(y, m)
  <2>1. Len(y) - Len(m) = 0
    BY <1>2
  <2>2. \A i \in 1..Len(m) : i + 0 = i
    BY <1>2
  <2> QED BY <1>2, <2>1, <2>2 DEF Fades
<1>8. Kept(y, q)
  BY <1>4, <1>6 DEF Kept
<1>9. Counts(y, m, q)
  BY <1>1, <1>2, <1>3, <1>6, <1>7, <1>8 DEF Counts
<1> QED BY <1>9 DEF y, q, retry

\* An admission makes one entry in both.
LEMMA AdmitCounts ==
  ASSUME NEW a, NEW m, NEW p, Counts(a, m, p), Len(Younger(a, Window)) < Limit
  PROVE  Counts(Append(Younger(a, Window), 0), Append(m, 0), None)
<1> DEFINE y == Younger(a, Window)
           b == Append(y, 0)
           k == Append(m, 0)
<1>1. Window \in Nat /\ Window >= 2 /\ Limit \in Nat
  BY GuardAssumption
<1>2. /\ y \in Seq(0..Window) /\ Len(y) = Len(m) /\ Len(m) \in Nat
      /\ \A i \in 1..Len(m) : y[i] = m[i]
  BY CountsRecent
<1>3. /\ m \in Seq(0..(Window - 1))
      /\ \A i, j \in 1..Len(m) : i <= j => m[j] <= m[i]
      /\ \A i \in 1..Len(m) : m[i] \in 0..(Window - 1)
  BY InSeq DEF Counts
<1> HIDE DEF y
<1>4. /\ b \in Seq(0..Window) /\ Len(b) = Len(m) + 1
      /\ \A i \in 1..Len(m) : b[i] = m[i]
      /\ b[Len(m) + 1] = 0
  <2>1. 0 \in 0..Window
    BY <1>1
  <2> QED BY <1>2, <2>1
<1>5. /\ k \in Seq(0..(Window - 1)) /\ Len(k) = Len(m) + 1
      /\ \A i \in 1..Len(m) : k[i] = m[i]
      /\ k[Len(m) + 1] = 0
  <2>1. 0 \in 0..(Window - 1)
    BY <1>1
  <2> QED BY <1>2, <1>3, <2>1
<1> HIDE DEF b, k
<1>6. Len(b) <= Limit
  BY <1>1, <1>2, <1>4 DEF y
<1>7. \A i, j \in 1..Len(k) : i <= j => k[j] <= k[i]
  <2> SUFFICES ASSUME NEW i \in 1..Len(k), NEW j \in 1..Len(k), i <= j
               PROVE  k[j] <= k[i]
    OBVIOUS
  <2>1. CASE j \in 1..Len(m)
    <3>1. i \in 1..Len(m)
      BY <1>2, <1>5, <2>1
    <3> QED BY <1>3, <1>5, <2>1, <3>1
  <2>2. CASE j = Len(m) + 1
    <3>1. k[i] \in Nat
      BY <1>1, <1>2, <1>3, <1>5
    <3> QED BY <1>5, <2>2, <3>1
  <2> QED BY <1>2, <1>5, <2>1, <2>2
<1>8. Fades(b, k)
  <2>1. Len(b) - Len(k) = 0
    BY <1>2, <1>4, <1>5
  <2>2. \A i \in 1..Len(k) : i + 0 = i /\ k[i] = b[i]
    BY <1>2, <1>4, <1>5
  <2> QED BY <2>1, <2>2 DEF Fades
<1>9. Counts(b, k, None)
  BY <1>4, <1>5, <1>6, <1>7, <1>8 DEF Counts, Kept
<1> QED BY <1>9 DEF b, k, y

\* A tick makes all older, ends some, and brings every promise nearer.
LEMMA TickCounts ==
  ASSUME NEW a, NEW m, NEW p, Counts(a, m, p)
  PROVE  Counts([i \in DOMAIN a |-> Min({Window, a[i] + 1})],
                Younger([i \in DOMAIN m |-> m[i] + 1], Window),
                IF p = None THEN None ELSE Max({0, p - 1}))
<1> DEFINE b == [i \in DOMAIN a |-> Min({Window, a[i] + 1})]
           r == [i \in DOMAIN m |-> m[i] + 1]
           k == Younger(r, Window)
           q == IF p = None THEN None ELSE Max({0, p - 1})
           over == Len(a) - Len(m)
<1>1. Window \in Nat /\ Window >= 2 /\ Limit \in Nat /\ Limit >= 1 /\ None \notin Int
  BY GuardAssumption
<1>2. /\ Len(a) \in Nat /\ DOMAIN a = 1..Len(a) /\ Len(a) <= Limit
      /\ \A i \in 1..Len(a) : a[i] \in 0..Window
  BY InSeq DEF Counts
<1>3. /\ Len(m) \in Nat /\ DOMAIN m = 1..Len(m)
      /\ \A i \in 1..Len(m) : m[i] \in 0..(Window - 1)
      /\ \A i, j \in 1..Len(m) : i <= j => m[j] <= m[i]
  BY InSeq DEF Counts
<1>4. /\ over \in Nat
      /\ \A i \in 1..over : a[i] = Window
      /\ \A i \in 1..Len(m) : m[i] = a[i + over]
  BY <1>2, <1>3 DEF Counts, Fades
<1>5. /\ b \in Seq(0..Window) /\ Len(b) = Len(a)
      /\ \A i \in 1..Len(a) : b[i] = IF a[i] = Window THEN Window ELSE a[i] + 1
  <2>1. \A i \in 1..Len(a) : Min({Window, a[i] + 1}) = IF a[i] = Window THEN Window ELSE a[i] + 1
    <3> SUFFICES ASSUME NEW i \in 1..Len(a)
                 PROVE  Min({Window, a[i] + 1}) = IF a[i] = Window THEN Window ELSE a[i] + 1
      OBVIOUS
    <3>1. a[i] \in 0..Window
      BY <1>2
    <3>2. Min({Window, a[i] + 1}) = IF Window <= a[i] + 1 THEN Window ELSE a[i] + 1
      BY <1>1, <3>1, MinOfTwo
    <3> QED BY <1>1, <3>1, <3>2
  <2>2. \A i \in 1..Len(a) : b[i] = Min({Window, a[i] + 1})
    BY <1>2
  <2>3. \A i \in 1..Len(a) : b[i] \in 0..Window
    BY <1>1, <1>2, <2>1, <2>2
  <2>4. b = [i \in 1..Len(a) |-> b[i]]
    BY <1>2
  <2> HIDE DEF b
  <2>5. b \in Seq(0..Window) /\ Len(b) = Len(a)
    BY <1>2, <2>3, <2>4, MakeSeq
  <2> QED BY <2>1, <2>2, <2>5
<1>6. /\ r \in Seq(1..Window) /\ Len(r) = Len(m)
      /\ \A i \in 1..Len(m) : r[i] = m[i] + 1
  <2>1. \A i \in 1..Len(m) : m[i] + 1 \in 1..Window
    BY <1>1, <1>3
  <2>2. r = [i \in 1..Len(m) |-> m[i] + 1]
    BY <1>3
  <2> HIDE DEF r
  <2> QED BY <1>3, <2>1, <2>2
<1> HIDE DEF b, r
<1>7. /\ k \in Seq(1..Window)
      /\ \E d \in 0..Len(r) : Drops(r, Window, d)
  <2>1. 1..Window \in SUBSET Nat
    BY <1>1
  <2> QED BY <1>1, <1>6, <2>1, YoungerDrops
<1>8. PICK d \in 0..Len(m) : Drops(r, Window, d)
  BY <1>6, <1>7
<1>9. /\ d \in Nat /\ d <= Len(m)
      /\ Len(k) = Len(m) - d
      /\ \A i \in 1..Len(k) : k[i] = m[i + d] + 1
      /\ \A i \in 1..d : m[i] + 1 = Window
      /\ d < Len(m) => m[d + 1] + 1 < Window
  <2>1. /\ Len(k) = Len(m) - d
        /\ \A i \in 1..(Len(m) - d) : k[i] = r[i + d]
        /\ \A i \in 1..d : r[i] >= Window
        /\ d < Len(m) => r[d + 1] < Window
    BY <1>6, <1>8 DEF Drops
  <2>2. d \in Nat /\ d <= Len(m)
    BY <1>3, <1>8
  <2>3. \A i \in 1..(Len(m) - d) : i + d \in 1..Len(m)
    BY <1>3, <2>2
  <2>4. \A i \in 1..d : i \in 1..Len(m)
    BY <1>3, <2>2
  <2>5. \A i \in 1..d : m[i] + 1 = Window
    <3> SUFFICES ASSUME NEW i \in 1..d PROVE m[i] + 1 = Window
      OBVIOUS
    <3>1. r[i] = m[i] + 1 /\ r[i] >= Window /\ m[i] \in 0..(Window - 1)
      BY <1>3, <1>6, <2>1, <2>4
    <3> QED BY <1>1, <3>1
  <2>6. d < Len(m) => d + 1 \in 1..Len(m)
    BY <1>3, <2>2
  <2> HIDE DEF k
  <2> QED BY <1>6, <2>1, <2>2, <2>3, <2>5, <2>6
<1> HIDE DEF k
<1>10. \A i \in 1..Len(k) : k[i] \in 0..(Window - 1)
  <2> SUFFICES ASSUME NEW i \in 1..Len(k) PROVE k[i] \in 0..(Window - 1)
    OBVIOUS
  <2>1. d + 1 \in 1..Len(m) /\ i + d \in 1..Len(m) /\ d + 1 <= i + d /\ d < Len(m)
    BY <1>3, <1>9
  <2>2. m[i + d] <= m[d + 1]
    BY <1>3, <2>1
  <2>3. m[d + 1] + 1 < Window
    BY <1>9, <2>1
  <2>4. m[i + d] \in 0..(Window - 1) /\ m[d + 1] \in 0..(Window - 1)
    BY <1>3, <2>1
  <2>5. k[i] = m[i + d] + 1
    BY <1>9
  <2>6. \A x \in 0..(Window - 1), y \in 0..(Window - 1) :
           x <= y /\ y + 1 < Window => x + 1 \in 0..(Window - 1)
    BY <1>1
  <2> QED BY <2>2, <2>3, <2>4, <2>5, <2>6
<1>11. k \in Seq(0..(Window - 1))
  <2>1. k = [i \in 1..Len(k) |-> k[i]] /\ Len(k) \in Nat
    BY <1>7, InSeq
  <2> QED BY <1>10, <2>1, MakeSeq
<1>12. \A i, j \in 1..Len(k) : i <= j => k[j] <= k[i]
  <2> SUFFICES ASSUME NEW i \in 1..Len(k), NEW j \in 1..Len(k), i <= j
               PROVE  k[j] <= k[i]
    OBVIOUS
  <2>1. i + d \in 1..Len(m) /\ j + d \in 1..Len(m) /\ i + d <= j + d
    BY <1>3, <1>9
  <2>2. m[j + d] <= m[i + d] /\ m[j + d] \in 0..(Window - 1) /\ m[i + d] \in 0..(Window - 1)
    BY <1>3, <2>1
  <2>3. k[i] = m[i + d] + 1 /\ k[j] = m[j + d] + 1
    BY <1>9
  <2> QED BY <1>1, <2>2, <2>3
<1>13. Fades(b, k)
  <2>1. Len(b) - Len(k) = over + d
    BY <1>2, <1>3, <1>5, <1>9
  <2>2. over + d \in Nat
    BY <1>4, <1>9
  <2>3. ASSUME NEW i \in 1..(over + d)
        PROVE  b[i] = Window
    <3>1. i \in 1..Len(a)
      BY <1>2, <1>3, <1>4, <1>9
    <3>2. CASE i <= over
      <4>1. a[i] = Window
        BY <1>4, <2>3, <3>2
      <4> QED BY <1>5, <3>1, <4>1
    <3>3. CASE ~(i <= over)
      <4> DEFINE n == i - over
      <4>1. n \in 1..d /\ n \in 1..Len(m) /\ n + over = i
        BY <1>3, <1>4, <1>9, <2>3, <3>3
      <4>2. m[n] + 1 = Window /\ m[n] = a[n + over]
        BY <1>4, <1>9, <4>1
      <4>3. a[i] + 1 = Window
        BY <4>1, <4>2
      <4>4. a[i] \in 0..Window
        BY <1>2, <3>1
      <4> QED BY <1>1, <1>5, <3>1, <4>3, <4>4
    <3> QED BY <3>2, <3>3
  <2>4. ASSUME NEW i \in 1..Len(k)
        PROVE  k[i] = b[i + (over + d)]
    <3>1. i + d \in 1..Len(m) /\ (i + d) + over \in 1..Len(a) /\ (i + d) + over = i + (over + d)
      BY <1>2, <1>3, <1>4, <1>9
    <3>2. m[i + d] = a[(i + d) + over] /\ m[i + d] \in 0..(Window - 1)
      BY <1>3, <1>4, <3>1
    <3>3. k[i] = m[i + d] + 1
      BY <1>9
    <3>4. a[i + (over + d)] # Window /\ a[i + (over + d)] = m[i + d]
      BY <1>1, <3>1, <3>2
    <3> QED BY <1>5, <3>1, <3>3, <3>4
  <2> HIDE DEF over
  <2> QED BY <2>1, <2>2, <2>3, <2>4 DEF Fades
<1>14. q \in {None} \union 0..(Window + 1) /\ Kept(b, q)
  <2>1. CASE p = None
    BY <2>1 DEF Kept
  <2>2. CASE p # None
    <3>1. p \in 0..(Window + 1)
      BY <2>2 DEF Counts
    <3>2. q = IF p = 0 THEN 0 ELSE p - 1
      <4>1. CASE p = 0
        <5>1. \E x \in {0, -1} : \A y \in {0, -1} : x >= y
          OBVIOUS
        <5>2. Max({0, -1}) \in {0, -1} /\ Max({0, -1}) >= 0
          BY <5>1 DEF Max
        <5>3. q = Max({0, -1})
          BY <2>2, <4>1
        <5> QED BY <4>1, <5>2, <5>3
      <4>2. CASE p # 0
        <5>1. p - 1 \in Nat
          BY <3>1, <4>2
        <5>2. Max({0, p - 1}) = IF 0 <= p - 1 THEN p - 1 ELSE 0
          BY <5>1, MinOfTwo
        <5> QED BY <2>2, <4>2, <5>1, <5>2
      <4> QED BY <4>1, <4>2
    <3>3. q \in 0..(Window + 1)
      BY <1>1, <3>1, <3>2
    <3>4. ASSUME Len(b) = Limit
          PROVE  b[1] + q >= Window
      <4>1. Len(a) = Limit /\ 1 \in 1..Len(a)
        BY <1>1, <1>2, <1>5, <3>4
      <4>2. a[1] + p >= Window
        BY <2>2, <4>1 DEF Counts, Kept
      <4>3. a[1] \in 0..Window
        BY <1>2, <4>1
      <4>4. b[1] = IF a[1] = Window THEN Window ELSE a[1] + 1
        BY <1>5, <4>1
      <4> HIDE DEF q
      <4> QED BY <1>1, <3>1, <3>2, <4>2, <4>3, <4>4
    <3> QED BY <3>3, <3>4 DEF Kept
  <2> QED BY <2>1, <2>2
<1> HIDE DEF q
<1>15. Counts(b, k, q)
  BY <1>2, <1>5, <1>11, <1>12, <1>13, <1>14 DEF Counts
<1> QED BY <1>15 DEF b, k, r, q

LEMMA WindowNext == WindowInv /\ [Next]_vars => WindowInv'
<1> SUFFICES ASSUME WindowInv, [Next]_vars PROVE WindowInv'
  OBVIOUS
<1>1. CASE UNCHANGED <<attempts, admitted, promise>>
  BY <1>1 DEF WindowInv
<1>2. ASSUME NEW r \in Request, NEW s \in Source, Limited(r, s)
      PROVE  WindowInv'
  <2> DEFINE a == Younger(attempts[s], Window)
             q == Min({RetryAfter(Head(a))} \union ({promise[s]} \ {None}))
  <2>1. /\ Len(a) >= Limit
        /\ attempts' = [attempts EXCEPT ![s] = a]
        /\ promise' = [promise EXCEPT ![s] = q]
        /\ admitted' = admitted
    BY <1>2 DEF Limited, Recent
  <2>2. Counts(a, admitted[s], q)
    BY <2>1, LimitedCounts DEF WindowInv
  <2>3. q \in {None} \union 0..(Window + 1)
    BY <2>2 DEF Counts
  <2> HIDE DEF a, q
  <2> QED BY <2>1, <2>2, <2>3 DEF WindowInv
<1>3. ASSUME NEW r \in Request, NEW s \in Source, NEW declared \in BOOLEAN, Admit(r, s, declared)
      PROVE  WindowInv'
  <2> DEFINE a == Younger(attempts[s], Window)
  <2>1. /\ Len(a) < Limit
        /\ attempts' = [attempts EXCEPT ![s] = Append(a, 0)]
        /\ promise' = [promise EXCEPT ![s] = None]
        /\ admitted' = [admitted EXCEPT ![s] = Append(admitted[s], 0)]
    BY <1>3 DEF Admit, Recent
  <2>2. Counts(Append(a, 0), Append(admitted[s], 0), None)
    BY <2>1, AdmitCounts DEF WindowInv
  <2> HIDE DEF a
  <2> QED BY <2>1, <2>2 DEF WindowInv
<1>4. CASE Tick
  <2> DEFINE q(s) == IF promise[s] = None THEN None ELSE Max({0, promise[s] - 1})
             a(s) == [i \in DOMAIN attempts[s] |-> Min({Window, attempts[s][i] + 1})]
             m(s) == Younger([i \in DOMAIN admitted[s] |-> admitted[s][i] + 1], Window)
  <2>1. /\ attempts' = [s \in Source |-> a(s)]
        /\ admitted' = [s \in Source |-> m(s)]
        /\ promise' = [s \in Source |-> q(s)]
    BY <1>4 DEF Tick
  <2>2. \A s \in Source : Counts(a(s), m(s), q(s))
    BY TickCounts DEF WindowInv
  <2>3. \A s \in Source : q(s) \in {None} \union 0..(Window + 1)
    <3> HIDE DEF a, m, q
    <3> QED BY <2>2 DEF Counts
  <2> HIDE DEF a, m, q
  <2> QED BY <2>1, <2>2, <2>3 DEF WindowInv
<1>5. ASSUME NEW r \in Request, Resume(r) \/ Read(r) \/ Finish(r)
      PROVE  WindowInv'
  BY <1>1, <1>5 DEF Resume, Read, Finish
<1>6. CASE UNCHANGED vars
  BY <1>1, <1>6 DEF vars
<1> QED BY <1>2, <1>3, <1>4, <1>5, <1>6 DEF Next

\* What is remembered of a source are its admissions of the last minute, behind
\* attempts that are over, and whoever was refused finds room when its promise
\* is up.
THEOREM WindowInvariant == Spec => []WindowInv
<1>1. Init => WindowInv
  <2> SUFFICES ASSUME Init PROVE WindowInv
    OBVIOUS
  <2>1. Counts(<<>>, <<>>, None)
    BY GuardAssumption DEF Counts, Fades, Kept
  <2> QED BY <2>1 DEF Init, WindowInv
<1> QED BY <1>1, WindowNext, PTL DEF Spec

\* No minute has more than Limit admissions of a source, wherever it begins.
THEOREM WindowsBounded == Spec => []WindowBound
<1>1. WindowInv => WindowBound
  <2> SUFFICES ASSUME WindowInv, NEW s \in Source
               PROVE  Len(admitted[s]) <= Limit
    BY DEF WindowBound
  <2>1. Counts(attempts[s], admitted[s], promise[s])
    BY DEF WindowInv
  <2>2. /\ Len(admitted[s]) <= Len(attempts[s])
        /\ Len(admitted[s]) \in Nat /\ Len(attempts[s]) \in Nat
    BY <2>1, CountsRecent
  <2>3. Len(attempts[s]) <= Limit
    BY <2>1 DEF Counts
  <2> QED BY <2>2, <2>3, GuardAssumption
<1> QED BY <1>1, WindowInvariant, PTL

\* Retry-After is enough: the seconds are rounded up, and the oldest attempt of a
\* full window is over when they are.
THEOREM RetriesSuffice == Spec => []RetrySuffices
<1>1. WindowInv => RetrySuffices
  <2> SUFFICES ASSUME WindowInv, NEW s \in Source, promise[s] = 0
               PROVE  Len(Younger(attempts[s], Window)) < Limit
    BY DEF RetrySuffices, Recent
  <2> DEFINE a == attempts[s]
             m == admitted[s]
  <2> SUFFICES Len(Younger(a, Window)) < Limit
    OBVIOUS
  <2>1. Counts(a, m, 0)
    BY DEF WindowInv
  <2>2. /\ Len(Younger(a, Window)) = Len(m) /\ Len(m) \in Nat /\ Len(a) \in Nat
        /\ Len(m) <= Len(a)
    BY <2>1, CountsRecent
  <2>3. Len(a) <= Limit /\ Limit \in Nat /\ Limit >= 1 /\ None # 0 /\ Window \in Nat
    BY <2>1, GuardAssumption DEF Counts
  <2>4. CASE Len(a) = Limit
    <3>1. a[1] >= Window
      <4>1. a[1] + 0 >= Window /\ a[1] \in 0..Window
        <5>1. 1 \in 1..Len(a)
          BY <2>3, <2>4
        <5>2. a[1] \in 0..Window
          BY <2>1, <5>1, InSeq DEF Counts
        <5> QED BY <2>1, <2>3, <2>4, <5>2 DEF Counts, Kept
      <4> HIDE DEF a
      <4> QED BY <2>3, <4>1
    <3>2. ~(Len(m) = Len(a))
      <4> SUFFICES ASSUME Len(m) = Len(a) PROVE FALSE
        OBVIOUS
      <4>1. 1 \in 1..Len(m) /\ 1 + (Len(a) - Len(m)) = 1
        BY <2>2, <2>3, <2>4
      <4>2. m[1] = a[1] /\ m[1] \in 0..(Window - 1)
        BY <2>1, <4>1, InSeq DEF Counts, Fades
      <4> HIDE DEF a, m
      <4> QED BY <2>3, <3>1, <4>2
    <3> HIDE DEF a, m
    <3> QED BY <2>2, <2>3, <2>4, <3>2
  <2>5. CASE Len(a) # Limit
    <3> HIDE DEF a, m
    <3> QED BY <2>2, <2>3, <2>5
  <2> QED BY <2>4, <2>5
<1> QED BY <1>1, WindowInvariant, PTL

\* Every value has its type: nothing is counted beyond the limit, no slot beyond
\* the semaphore's.
THEOREM GuardTyped == Spec => []TypeOK
<1>1. SlotInv /\ WindowInv => TypeOK
  <2> SUFFICES ASSUME SlotInv, WindowInv PROVE TypeOK
    OBVIOUS
  <2>1. slots \in Semaphore
    <3>1. /\ slots \in [free : Nat, queue : Seq(Request), woken : SUBSET Request]
          /\ slots.free + Cardinality(Handling) + Cardinality(slots.woken) = MaxSlots
      BY DEF SlotInv, Accounts
    <3>2. Cardinality(Handling) \in Nat /\ Cardinality(slots.woken) \in Nat
      BY <3>1, Finite DEF Handling
    <3>3. slots.free \in 0..MaxSlots
      BY <3>1, <3>2, GuardAssumption
    <3> QED BY <3>1, <3>3 DEF Semaphore
  <2>2. ASSUME NEW s \in Source
        PROVE  admitted[s] \in Seq(0..Window)
    <3>1. admitted[s] \in Seq(0..(Window - 1))
      BY DEF WindowInv, Counts
    <3>2. 0..(Window - 1) \subseteq 0..Window
      BY GuardAssumption
    <3>3. /\ Len(admitted[s]) \in Nat
          /\ admitted[s] = [i \in 1..Len(admitted[s]) |-> admitted[s][i]]
          /\ \A i \in 1..Len(admitted[s]) : admitted[s][i] \in 0..(Window - 1)
      BY <3>1, InSeq
    <3>4. \A i \in 1..Len(admitted[s]) : admitted[s][i] \in 0..Window
      BY <3>2, <3>3
    <3> QED BY <3>3, <3>4, MakeSeq
  <2> QED BY <2>1, <2>2 DEF TypeOK, SlotInv, WindowInv, Counts
<1> QED BY <1>1, SlotsAccounted, WindowInvariant, PTL
=============================================================================
