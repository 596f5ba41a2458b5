-------------------------- MODULE EventLoopProofs ---------------------------
(***************************************************************************)
(* Proofs about the timers and the turn of the loop that takes them, for   *)
(* any number of requests, timers, connections and descriptors.            *)
(***************************************************************************)
EXTENDS EventLoop, HeapOpsProofs

-----------------------------------------------------------------------------
(* The inductive invariant *)

\* Every variable has its type.
TypeOK ==
  /\ now \in Nat
  /\ queue \in Seq(Timers)
  /\ key \in [Timers -> Nat]
  /\ del \in [Timers -> BOOLEAN]
  /\ owner \in [Timers -> Requests \cup {None}]
  /\ timer \in [Requests -> Timers \cup {None}]
  /\ alive \in [Requests -> BOOLEAN]
  /\ pc \in {"find", "wait", "expire", "pop", "events", "aborted", "wild"}
  /\ until \in Nat \cup {SGX_TIMER_INFINITE}
  /\ ready \in BOOLEAN
  /\ fires \in [Timers -> Nat]
  /\ lost \in SUBSET Timers
  /\ rearmed \in SUBSET Requests

\* A timer is queued once, after it was allocated.
QueueInv ==
  /\ Distinct(queue)
  /\ \A n \in Queued : owner[n] # None

\* Two timers of a request are armed at a time only if it was given the second
\* while the first was.
OwnerInv ==
  \A m, n \in Queued :
    m # n /\ ~ del[m] /\ ~ del[n] /\ owner[m] = owner[n] => owner[m] \in rearmed

\* A queued timer that is not deleted and has not fired has a live request.
AliveInv ==
  \A n \in Queued : ~ del[n] /\ fires[n] = 0 => alive[owner[n]] \/ owner[n] \in rearmed

\* A queued timer has fired only if it is about to be popped.
FiringInv ==
  /\ pc = "pop" => queue # <<>> /\ fires[first] > 0
  /\ \A n \in Queued : fires[n] > 0 => pc \in {"pop", "aborted", "wild"} /\ n = first
  /\ \A n \in Timers : fires[n] > 0 => fires[n] = 1 /\ owner[n] # None /\ key[n] <= now

\* While the loop waits, the wait ends with what is at the top, which is not deleted.
WaitInv ==
  pc = "wait" /\ queue # <<>> =>
    /\ ~ del[first]
    /\ until # SGX_TIMER_INFINITE
    /\ until <= key[first] \/ until <= now

IInv ==
  /\ TypeOK /\ QueueInv /\ OwnerInv /\ AliveInv /\ FiringInv /\ WaitInv /\ NoneForgotten

-----------------------------------------------------------------------------
(* What the actions do to the queue *)

LEMMA QueuedElements == Queued = Elements(queue) /\ Queued' = Elements(queue')
  BY DEF Queued, Elements

\* What is first is queued.
LEMMA FirstQueued ==
  ASSUME TypeOK, queue # <<>>
  PROVE  first \in Timers /\ first \in Queued
<1>1. 1 \in DOMAIN queue /\ queue[1] \in Timers
  BY DEF TypeOK
<1> QED
  BY <1>1 DEF first, Top, Queued

\* A pop takes the top away, or the process ends.
LEMMA Popping ==
  ASSUME TypeOK, QueueInv, queue # <<>>, NEW next, PopThen(next)
  PROVE  \/ pc' = "aborted" /\ queue' = queue
         \/ /\ pc' = next /\ queue' \in Seq(Timers)
            /\ Distinct(queue') /\ Queued' = Queued \ {first}
<1>1. queue \in Seq(Timers) /\ Distinct(queue)
  BY DEF TypeOK, QueueInv
<1>2. CASE pc' = next /\ queue' = Pop(key, queue)
  BY <1>1, <1>2, PopRemoves, QueuedElements DEF first
<1> QED
  BY <1>2 DEF PopThen

\* A timer is added to a queue it was not in.
LEMMA Adding ==
  ASSUME TypeOK, QueueInv, NEW n \in Fresh, queue' = Push(key', queue, n)
  PROVE  queue' \in Seq(Timers) /\ Distinct(queue') /\ Queued' = Queued \cup {n}
<1>1. queue \in Seq(Timers) /\ Distinct(queue) /\ n \in Timers
  BY DEF TypeOK, QueueInv, Fresh
<1>2. n \notin Elements(queue)
  BY QueuedElements DEF QueueInv, Fresh
<1>3. PICK k : k = key'
  OBVIOUS
<1>4. queue' = Push(k, queue, n)
  BY <1>3
<1>5. /\ Push(k, queue, n) \in Seq(Timers)
      /\ Elements(Push(k, queue, n)) = Elements(queue) \cup {n}
      /\ Distinct(Push(k, queue, n))
  <2>1. PICK q : q = queue
    OBVIOUS
  <2>2. q \in Seq(Timers) /\ Distinct(q) /\ n \in Timers /\ n \notin Elements(q)
    BY <1>1, <1>2, <2>1
  <2>3. /\ Push(k, q, n) \in Seq(Timers)
        /\ Elements(Push(k, q, n)) = Elements(q) \cup {n}
        /\ Distinct(Push(k, q, n))
    <3>1. Push(k, q, n) \in Seq(Timers)
      BY <2>2, PushAdds
    <3>2. Elements(Push(k, q, n)) = Elements(q) \cup {n}
      BY <2>2, <3>1, PushAdds
    <3>3. Distinct(Push(k, q, n))
      BY <2>2, PushAdds
    <3> QED
      BY <3>1, <3>2, <3>3
  <2> QED
    BY <2>1, <2>3
<1> QED
  BY <1>4, <1>5, QueuedElements

-----------------------------------------------------------------------------
(* The invariant *)

LEMMA InitInv ==
  ASSUME Init
  PROVE  IInv
<1>1. TypeOK
  <2>1. <<>> \in Seq(Timers) /\ 0 \in Nat /\ SGX_TIMER_INFINITE \in {SGX_TIMER_INFINITE}
    OBVIOUS
  <2> QED
    BY <2>1 DEF Init, TypeOK
<1>2. Queued = {}
  BY DEF Init, Queued
<1>3. QueueInv /\ OwnerInv /\ FiringInv
  BY <1>2, TimerAssumption DEF Init, QueueInv, OwnerInv, FiringInv, Distinct
<1>4. AliveInv /\ WaitInv /\ NoneForgotten
  BY <1>2 DEF Init, AliveInv, WaitInv, NoneForgotten
<1> QED
  BY <1>1, <1>3, <1>4 DEF IInv

\* A step that leaves the timers alone.
LEMMA IdleStep ==
  ASSUME IInv, UNCHANGED <<queue, del, alive, fires, nodeVars>>,
         now' \in Nat, now' >= now, until' \in Nat \cup {SGX_TIMER_INFINITE}, ready' \in BOOLEAN,
         pc' \in {"find", "wait", "expire", "events"} \/ pc' = pc,
         pc \in {"pop", "aborted", "wild"} => pc' = pc,
         WaitInv'
  PROVE  IInv'
<1>1. /\ TypeOK /\ QueueInv /\ OwnerInv /\ AliveInv /\ FiringInv /\ NoneForgotten
      /\ queue' = queue /\ key' = key /\ del' = del /\ owner' = owner /\ timer' = timer
      /\ alive' = alive /\ fires' = fires /\ lost' = lost /\ rearmed' = rearmed /\ Queued' = Queued /\ first' = first
  BY DEF IInv, nodeVars, Queued, first
<1>2. TypeOK'
  BY <1>1 DEF TypeOK
<1>3. QueueInv' /\ OwnerInv' /\ AliveInv' /\ NoneForgotten'
  BY <1>1 DEF QueueInv, Distinct, OwnerInv, AliveInv, NoneForgotten
<1>4. FiringInv'
  <2>1. pc' = "pop" => pc = "pop"
    OBVIOUS
  <2>2. \A n \in Queued : fires[n] > 0 => pc \in {"pop", "aborted", "wild"} /\ n = first
    BY <1>1 DEF FiringInv
  <2>3. \A n \in Timers : fires[n] > 0 => fires[n] = 1 /\ owner[n] # None /\ key[n] <= now'
    BY <1>1 DEF FiringInv, TypeOK
  <2> QED
    BY <1>1, <2>1, <2>2, <2>3 DEF FiringInv
<1> QED
  BY <1>2, <1>3, <1>4 DEF IInv

\* Time passes.
LEMMA TickStep ==
  ASSUME IInv, Tick
  PROVE  IInv'
<1>1. /\ now \in Nat /\ now' = now + 1 /\ until' = until /\ ready' = ready /\ pc' = pc
      /\ UNCHANGED <<queue, del, alive, fires, nodeVars>>
      /\ until \in Nat \cup {SGX_TIMER_INFINITE} /\ ready \in BOOLEAN
  BY DEF Tick, IInv, TypeOK
<1>2. WaitInv'
  <2>1. WaitInv /\ queue' = queue /\ key' = key /\ del' = del /\ first' = first
    BY <1>1 DEF IInv, nodeVars, first
  <2>2. until \in Int /\ (until <= now => until <= now')
    BY <1>1 DEF SGX_TIMER_INFINITE
  <2> QED
    BY <1>1, <2>1, <2>2 DEF WaitInv
<1>3. now' \in Nat /\ now' >= now
  BY <1>1
<1> QED
  BY <1>1, <1>2, <1>3, IdleStep

\* The other steps of the loop and of the wait that leave the timers alone.
LEMMA QuietStep ==
  ASSUME IInv, FindEmpty \/ FindLive \/ WaitTimeout \/ WaitEvents \/ ExpireDone \/ EventsDone
  PROVE  IInv'
<1>1. /\ now \in Nat /\ until \in Nat \cup {SGX_TIMER_INFINITE} /\ ready \in BOOLEAN
  BY DEF IInv, TypeOK
<1>2. CASE FindEmpty
  <2>1. /\ UNCHANGED <<queue, del, alive, fires, nodeVars>> /\ now' = now /\ ready' = ready
        /\ until' = SGX_TIMER_INFINITE /\ pc = "find" /\ pc' = "wait" /\ queue = <<>>
    BY <1>2 DEF FindEmpty
  <2>2. WaitInv'
    BY <2>1 DEF WaitInv
  <2> QED
    BY <1>1, <2>1, <2>2, IdleStep
<1>3. CASE FindLive
  <2>1. /\ UNCHANGED <<queue, del, alive, fires, nodeVars>> /\ now' = now /\ ready' = ready
        /\ until' = Time /\ pc = "find" /\ pc' = "wait" /\ queue # <<>> /\ ~ del[first]
    BY <1>3 DEF FindLive
  <2>2. first \in Timers /\ key[first] \in Nat
    BY <2>1, FirstQueued DEF IInv, TypeOK
  <2>3. Time \in Nat /\ (Time = key[first] \/ Time = now)
    BY <1>1, <2>2 DEF Time
  <2>4. WaitInv'
    <3>1. queue' = queue /\ key' = key /\ del' = del /\ first' = first
      BY <2>1 DEF nodeVars, first
    <3>2. Time # SGX_TIMER_INFINITE
      BY <2>3 DEF SGX_TIMER_INFINITE
    <3>3. Time <= key[first] \/ Time <= now
      BY <1>1, <2>2, <2>3
    <3> QED
      BY <2>1, <3>1, <3>2, <3>3 DEF WaitInv
  <2> QED
    BY <1>1, <2>1, <2>3, <2>4, IdleStep
<1>4. CASE WaitTimeout \/ WaitEvents \/ ExpireDone \/ EventsDone
  <2>1. /\ UNCHANGED <<queue, del, alive, fires, nodeVars>> /\ now' = now
        /\ until' \in Nat \cup {SGX_TIMER_INFINITE} /\ ready' \in BOOLEAN
        /\ pc \notin {"pop", "aborted", "wild"} /\ pc' \in {"find", "expire", "events"}
    BY <1>1, <1>4 DEF WaitTimeout, WaitEvents, EndWait, ExpireDone, EventsDone
  <2>2. WaitInv'
    BY <2>1 DEF WaitInv
  <2> QED
    BY <1>1, <2>1, <2>2, IdleStep
<1> QED
  BY <1>2, <1>3, <1>4

\* A pop of a timer that was deleted or has fired.
LEMMA PopStep ==
  ASSUME IInv, queue # <<>>, del[first] \/ fires[first] > 0,
         NEW next \in {"find", "expire"}, PopThen(next),
         UNCHANGED <<now, del, alive, until, ready, fires, nodeVars>>
  PROVE  IInv'
<1>1. TypeOK /\ QueueInv /\ OwnerInv /\ AliveInv /\ FiringInv /\ NoneForgotten
  BY DEF IInv
<1>2. /\ now' = now /\ key' = key /\ del' = del /\ owner' = owner /\ timer' = timer
      /\ alive' = alive /\ fires' = fires /\ lost' = lost /\ until' = until /\ ready' = ready
      /\ rearmed' = rearmed
  BY DEF nodeVars
<1>3. CASE pc' = "aborted" /\ queue' = queue
  <2>1. Queued' = Queued /\ first' = first
    BY <1>3 DEF Queued, first
  <2>2. TypeOK'
    BY <1>1, <1>2, <1>3 DEF TypeOK
  <2>3. QueueInv' /\ OwnerInv' /\ AliveInv' /\ NoneForgotten'
    BY <1>1, <1>2, <1>3, <2>1 DEF QueueInv, Distinct, OwnerInv, AliveInv, NoneForgotten
  <2>4. FiringInv' /\ WaitInv'
    BY <1>1, <1>2, <1>3, <2>1 DEF FiringInv, WaitInv
  <2> QED
    BY <2>2, <2>3, <2>4 DEF IInv
<1>4. CASE /\ pc' = next /\ queue' \in Seq(Timers)
           /\ Distinct(queue') /\ Queued' = Queued \ {first}
  <2>1. TypeOK'
    BY <1>1, <1>2, <1>4 DEF TypeOK
  <2>2. QueueInv'
    <3>1. Distinct(queue)'
      BY <1>4 DEF Distinct
    <3> QED
      BY <1>1, <1>2, <1>4, <3>1 DEF QueueInv
  <2>3. OwnerInv' /\ AliveInv'
    BY <1>1, <1>2, <1>4 DEF OwnerInv, AliveInv
  <2>4. NoneForgotten'
    BY <1>1, <1>2, <1>4 DEF NoneForgotten
  <2>5. FiringInv' /\ WaitInv'
    BY <1>1, <1>2, <1>4 DEF FiringInv, WaitInv
  <2> QED
    BY <2>1, <2>2, <2>3, <2>4, <2>5 DEF IInv
<1> QED
  BY <1>1, <1>3, <1>4, Popping

\* The handler of the timer at the top is called, with a request that lives or with
\* one that was freed.
LEMMA CallStep ==
  ASSUME IInv, ExpireCall \/ ExpireFreed
  PROVE  IInv'
<1>1. TypeOK /\ QueueInv /\ OwnerInv /\ AliveInv /\ FiringInv /\ NoneForgotten
  BY DEF IInv
<1>2. /\ now' = now /\ queue' = queue /\ key' = key /\ del' = del /\ owner' = owner
      /\ timer' = timer /\ lost' = lost /\ rearmed' = rearmed /\ until' = until /\ ready' = ready
      /\ pc = "expire" /\ pc' \in {"pop", "wild"} /\ queue # <<>> /\ ~ del[first] /\ key[first] <= now
      /\ Queued' = Queued /\ first' = first
  BY DEF ExpireCall, ExpireFreed, Wild, Due, nodeVars, Queued, first
<1>3. /\ first \in Timers /\ first \in Queued /\ owner[first] # None
  BY <1>1, <1>2, FirstQueued DEF QueueInv
<1>4. owner[first] \in Requests /\ fires[first] \in Nat /\ ~ (fires[first] > 0)
  BY <1>1, <1>2, <1>3 DEF TypeOK, FiringInv
<1>5. fires' = [fires EXCEPT ![first] = 1]
  <2>1. fires' = [fires EXCEPT ![first] = fires[first] + 1]
    BY DEF ExpireCall, ExpireFreed
  <2>2. fires[first] + 1 = 1
    BY <1>4
  <2> QED
    BY <2>1, <2>2
<1>6. alive' = [alive EXCEPT ![owner[first]] = FALSE] \/ alive' = alive
  BY DEF ExpireCall, ExpireFreed, Wild
<1>7. /\ fires' \in [Timers -> Nat] /\ alive' \in [Requests -> BOOLEAN]
      /\ \A n \in Timers : fires'[n] = IF n = first THEN 1 ELSE fires[n]
      /\ \A r \in Requests : r # owner[first] => alive'[r] = alive[r]
  BY <1>1, <1>3, <1>4, <1>5, <1>6 DEF TypeOK
<1>8. \A n \in Queued : n \in Timers
  BY <1>1 DEF Queued, TypeOK
<1>9. TypeOK'
  BY <1>1, <1>2, <1>7 DEF TypeOK
<1>10. QueueInv' /\ OwnerInv' /\ WaitInv'
  BY <1>1, <1>2 DEF QueueInv, Distinct, OwnerInv, WaitInv
<1>11. AliveInv'
  <2>1. ASSUME NEW n \in Queued, ~ del[n], fires'[n] = 0
        PROVE  alive'[owner[n]] \/ owner[n] \in rearmed
    <3>1. n \in Timers /\ n # first /\ fires[n] = 0
      BY <1>7, <1>8, <2>1
    <3>2. owner[n] # owner[first] \/ owner[n] \in rearmed
      BY <1>1, <1>2, <1>3, <2>1, <3>1 DEF OwnerInv
    <3>3. owner[n] \in Requests /\ (alive[owner[n]] \/ owner[n] \in rearmed)
      BY <1>1, <2>1, <3>1 DEF AliveInv, QueueInv, TypeOK
    <3> QED
      BY <1>7, <3>2, <3>3
  <2> QED
    BY <1>2, <2>1 DEF AliveInv
<1>12. FiringInv'
  <2>1. fires'[first] > 0
    BY <1>3, <1>7
  <2>2. \A n \in Queued : fires'[n] > 0 => n = first
    BY <1>1, <1>2, <1>7, <1>8 DEF FiringInv
  <2>3. \A n \in Timers : fires'[n] > 0 => fires'[n] = 1 /\ owner[n] # None /\ key[n] <= now
    BY <1>1, <1>2, <1>3, <1>7 DEF FiringInv
  <2> QED
    BY <1>2, <2>1, <2>2, <2>3 DEF FiringInv
<1>13. NoneForgotten'
  BY <1>1, <1>2, <1>3, <1>7 DEF NoneForgotten
<1> QED
  BY <1>9, <1>10, <1>11, <1>12, <1>13 DEF IInv

\* A request is given a timer.
LEMMA AddStep ==
  ASSUME IInv, NEW r \in Requests, NEW timeout \in Timeouts, Add(r, timeout)
  PROVE  IInv'
<1>1. TypeOK /\ QueueInv /\ OwnerInv /\ AliveInv /\ FiringInv /\ NoneForgotten
  BY DEF IInv
<1>2. /\ pc = "events" /\ pc' = "events" /\ alive[r]
      /\ now' = now /\ del' = del /\ alive' = alive /\ until' = until /\ ready' = ready
      /\ fires' = fires
  BY DEF Add
<1>3. PICK n \in Fresh :
        /\ key' = [key EXCEPT ![n] = now + timeout]
        /\ owner' = [owner EXCEPT ![n] = r]
        /\ timer' = [timer EXCEPT ![r] = n]
        /\ rearmed' = IF \E m \in Queued : owner[m] = r /\ ~ del[m] THEN rearmed \cup {r} ELSE rearmed
        /\ \/ queue' = Push(key', queue, n) /\ UNCHANGED lost
           \/ lost' = lost \cup {n} /\ UNCHANGED queue
  BY DEF Add, TimerAdd
<1>4. n \in Timers /\ owner[n] = None /\ r # None /\ n # None /\ now + timeout \in Nat
  BY <1>1, TimerAssumption DEF Fresh, TypeOK
<1>5. /\ key' \in [Timers -> Nat] /\ owner' \in [Timers -> Requests \cup {None}]
      /\ timer' \in [Requests -> Timers \cup {None}]
      /\ owner'[n] = r
      /\ \A m \in Timers : m # n => owner'[m] = owner[m] /\ key'[m] = key[m]
      /\ rearmed' \in SUBSET Requests /\ rearmed \subseteq rearmed'
      /\ (\E m \in Queued : owner[m] = r /\ ~ del[m]) => r \in rearmed'
  BY <1>1, <1>3, <1>4 DEF TypeOK
<1>6. fires[n] = 0 /\ n \notin Queued /\ \A m \in Queued : m \in Timers
  BY <1>1, <1>4 DEF FiringInv, QueueInv, TypeOK, Queued
<1>7. \/ /\ queue' \in Seq(Timers) /\ Distinct(queue') /\ Queued' = Queued \cup {n}
         /\ lost' = lost
      \/ /\ queue' = queue /\ Queued' = Queued /\ lost' = lost \cup {n}
  <2>1. CASE queue' = Push(key', queue, n) /\ UNCHANGED lost
    BY <1>1, <2>1, Adding
  <2>2. CASE lost' = lost \cup {n} /\ UNCHANGED queue
    BY <2>2 DEF Queued
  <2> QED
    BY <1>3, <2>1, <2>2
<1>8. /\ queue' \in Seq(Timers) /\ Distinct(queue') /\ lost' \in SUBSET Timers
      /\ Queued \subseteq Queued' /\ Queued' \subseteq Queued \cup {n}
      /\ n \in Queued' \/ n \in lost'
      /\ lost \subseteq lost'
  BY <1>1, <1>4, <1>7 DEF TypeOK, QueueInv
<1>9. TypeOK'
  BY <1>1, <1>2, <1>5, <1>8 DEF TypeOK
<1>10. QueueInv'
  <2>1. Distinct(queue)'
    BY <1>8 DEF Distinct
  <2>2. \A m \in Queued' : owner'[m] # None
    BY <1>1, <1>4, <1>5, <1>6, <1>8 DEF QueueInv
  <2> QED
    BY <2>1, <2>2 DEF QueueInv
<1>11. OwnerInv'
  <2>1. ASSUME NEW m \in Queued, ~ del[m], owner'[m] = r
        PROVE  r \in rearmed'
    <3>1. m \in Timers /\ m # n
      BY <1>6
    <3>2. owner[m] = r
      BY <1>5, <2>1, <3>1
    <3> QED
      BY <1>5, <2>1, <3>2
  <2>2. ASSUME NEW l \in Queued', NEW m \in Queued', l # m, ~ del[l], ~ del[m],
               owner'[l] = owner'[m]
        PROVE  owner'[l] \in rearmed'
    <3>1. CASE l = n
      BY <1>5, <1>8, <2>1, <2>2, <3>1
    <3>2. CASE m = n
      BY <1>5, <1>8, <2>1, <2>2, <3>2
    <3>3. CASE l # n /\ m # n
      <4>1. l \in Queued /\ m \in Queued /\ l \in Timers /\ m \in Timers
        BY <1>6, <1>8, <2>2, <3>3
      <4>2. owner'[l] = owner[l] /\ owner'[m] = owner[m]
        BY <1>5, <3>3, <4>1
      <4> QED
        BY <1>1, <1>5, <2>2, <4>1, <4>2 DEF OwnerInv
    <3> QED
      BY <3>1, <3>2, <3>3
  <2> QED
    BY <1>2, <2>2 DEF OwnerInv
<1>12. AliveInv'
  <2>1. ASSUME NEW m \in Queued', ~ del[m], fires[m] = 0
        PROVE  alive[owner'[m]] \/ owner'[m] \in rearmed'
    <3>1. CASE m = n
      BY <1>2, <1>5, <3>1
    <3>2. CASE m # n
      BY <1>1, <1>5, <1>6, <1>8, <2>1, <3>2 DEF AliveInv
    <3> QED
      BY <3>1, <3>2
  <2> QED
    BY <1>2, <2>1 DEF AliveInv
<1>13. FiringInv'
  <2>1. \A m \in Queued' : ~ (fires[m] > 0)
    BY <1>1, <1>2, <1>6, <1>8 DEF FiringInv
  <2>2. ASSUME NEW m \in Timers, fires[m] > 0
        PROVE  fires[m] = 1 /\ owner'[m] # None /\ key'[m] <= now
    <3>1. m # n
      BY <1>6, <2>2
    <3> QED
      BY <1>1, <1>5, <2>2, <3>1 DEF FiringInv
  <2> QED
    BY <1>2, <2>1, <2>2 DEF FiringInv
<1>14. NoneForgotten'
  <2>1. ASSUME NEW m \in Timers, owner'[m] # None, m \notin Queued'
        PROVE  fires[m] > 0 \/ del[m] \/ m \in lost'
    <3>1. CASE m = n
      BY <1>8, <2>1, <3>1
    <3>2. CASE m # n
      BY <1>1, <1>5, <1>8, <2>1, <3>2 DEF NoneForgotten
    <3> QED
      BY <3>1, <3>2
  <2> QED
    BY <1>2, <2>1 DEF NoneForgotten
<1>15. WaitInv'
  BY <1>2 DEF WaitInv
<1> QED
  BY <1>9, <1>10, <1>11, <1>12, <1>13, <1>14, <1>15 DEF IInv

\* The timer of a request is deleted.
LEMMA DelStep ==
  ASSUME IInv, NEW r \in Requests, Del(r)
  PROVE  IInv'
<1>1. TypeOK /\ QueueInv /\ OwnerInv /\ AliveInv /\ FiringInv /\ NoneForgotten
  BY DEF IInv
<1>2. /\ now' = now /\ queue' = queue /\ key' = key /\ owner' = owner /\ timer' = timer
      /\ alive' = alive /\ lost' = lost /\ rearmed' = rearmed /\ until' = until /\ ready' = ready /\ fires' = fires
      /\ pc = "events" /\ pc' = "events" /\ timer[r] # None
      /\ Queued' = Queued /\ first' = first
  BY DEF Del, nodeVars, Queued, first
<1>3. /\ del' \in [Timers -> BOOLEAN] /\ \A n \in Timers : del[n] => del'[n]
  <2>1. timer[r] \in Timers /\ del' = [del EXCEPT ![timer[r]] = TRUE]
    BY <1>1, <1>2 DEF Del, TypeOK
  <2> QED
    BY <1>1, <2>1 DEF TypeOK
<1>4. \A n \in Queued : n \in Timers
  BY <1>1 DEF Queued, TypeOK
<1>5. TypeOK'
  BY <1>1, <1>2, <1>3 DEF TypeOK
<1>6. QueueInv' /\ OwnerInv'
  BY <1>1, <1>2, <1>3, <1>4 DEF QueueInv, Distinct, OwnerInv
<1>7. AliveInv' /\ NoneForgotten'
  BY <1>1, <1>2, <1>3, <1>4 DEF AliveInv, NoneForgotten
<1>8. FiringInv' /\ WaitInv'
  BY <1>1, <1>2 DEF FiringInv, WaitInv
<1> QED
  BY <1>5, <1>6, <1>7, <1>8 DEF IInv

LEMMA NextInv ==
  ASSUME IInv, [Next]_vars
  PROVE  IInv'
<1>1. CASE UNCHANGED vars
  <2>1. WaitInv'
    BY <1>1 DEF vars, nodeVars, IInv, WaitInv, first
  <2> QED
    BY <1>1, <2>1, IdleStep DEF vars, IInv, TypeOK
<1>2. ASSUME NEW next \in {"find", "expire"}, DropDeleted(next)
      PROVE  IInv'
  BY <1>2, PopStep DEF DropDeleted
<1>3. CASE ExpirePop
  <2>1. queue # <<>> /\ fires[first] > 0
    BY <1>3 DEF ExpirePop, IInv, FiringInv
  <2> QED
    BY <1>3, <2>1, PopStep DEF ExpirePop
<1> QED
  BY <1>1, <1>2, <1>3, TickStep, QuietStep, CallStep, AddStep, DelStep
  DEF Next, LoopStep, FindStep, ExpireStep, FindDeleted, ExpireDeleted

LEMMA Invariance == Spec => []IInv
<1>1. Init => IInv
  BY InitInv
<1>2. IInv /\ [Next]_vars => IInv'
  BY NextInv
<1> QED
  BY <1>1, <1>2, PTL DEF Spec

-----------------------------------------------------------------------------
(* What the run checks holds of every set of timers *)

\* Every variable has its type in every reachable state.
THEOREM TypeCorrect == Spec => []TypeOK
<1>1. IInv => TypeOK
  BY DEF IInv
<1> QED
  BY <1>1, Invariance, PTL

\* sgx_http_close_conn is given a request it has freed only if that request was armed
\* again while a timer of its was: deleted timers that stay in the queue, and the
\* timers their requests are given later, never bring it there.
THEOREM NoDanglingRequest == Spec => []HandlersOnLiveRequests
<1>1. ASSUME IInv PROVE HandlersOnLiveRequests
  <2>1. AliveInv /\ FiringInv /\ TypeOK
    BY <1>1 DEF IInv
  <2>2. ASSUME NEW n \in Queued \ Firing, ~ del[n]
        PROVE  alive[owner[n]] \/ owner[n] \in rearmed
    <3>1. n \in Timers /\ queue # <<>>
      BY <2>1 DEF TypeOK, Queued
    <3>2. ~ (fires[n] > 0)
      BY <2>1, <3>1 DEF FiringInv, Firing
    <3>3. fires[n] = 0
      BY <2>1, <3>1, <3>2 DEF TypeOK
    <3> QED
      BY <2>1, <2>2, <3>3 DEF AliveInv
  <2> QED
    BY <2>2 DEF HandlersOnLiveRequests
<1> QED
  BY <1>1, Invariance, PTL

\* sgx_handle_expire_timers calls a handler at most once, and not before its time.
THEOREM EachFiresOnce == Spec => []FiresOnceWhenDue
<1>1. IInv => FiresOnceWhenDue
  BY DEF IInv, FiringInv, FiresOnceWhenDue
<1> QED
  BY <1>1, Invariance, PTL

\* What the loops of sgx_timer_find and sgx_handle_expire_timers pop is what they
\* looked at, so no timer is dropped that was neither deleted nor has fired.
THEOREM NothingForgotten == Spec => []NoneForgotten
<1>1. IInv => NoneForgotten
  BY DEF IInv
<1> QED
  BY <1>1, Invariance, PTL

\* epoll_wait is given no infinite timeout while a timer is armed, nor one that
\* ends after all of them.
THEOREM WaitsEnd == Spec => []NoEndlessWait
<1>1. ASSUME IInv PROVE NoEndlessWait
  <2> SUFFICES ASSUME pc = "wait", NEW n \in Queued
               PROVE  /\ until # SGX_TIMER_INFINITE
                      /\ \E m \in Queued : ~ del[m] /\ (until <= key[m] \/ until <= now)
    BY DEF NoEndlessWait
  <2>1. TypeOK /\ WaitInv
    BY <1>1 DEF IInv
  <2>2. queue # <<>>
    BY <2>1 DEF Queued, TypeOK
  <2>3. first \in Queued
    BY <2>1, <2>2, FirstQueued
  <2> QED
    BY <2>1, <2>2, <2>3 DEF WaitInv
<1> QED
  BY <1>1, Invariance, PTL

-----------------------------------------------------------------------------
(* The edge-triggered socket is drained, whatever the heap of timers does:   *)
(* the queue only decides which timer is first.                             *)

\* An event that was returned is kept until the events of its turn are handled.
ReadyInv == ready => pc \in {"expire", "pop", "events", "aborted", "wild"}

LoopInv == ReadyInv /\ Announced

LEMMA LoopInitInv == LoopInit => LoopInv
  BY DEF LoopInit, Init, LoopInv, ReadyInv, Announced

\* The loops of find and expire, and the clock, touch neither the socket nor ready.
LEMMA TimersKeepLoopInv ==
  ASSUME LoopInv, TimerStep(FindStep \/ ExpireDeleted \/ ExpireDone \/ ExpirePop \/ Tick)
  PROVE  LoopInv'
<1>1. UNCHANGED <<loopVars, ready, alive>>
  BY DEF TimerStep, FindStep, FindEmpty, FindDeleted, FindLive, DropDeleted, ExpireDeleted,
         ExpireDone, ExpirePop, Tick, vars
<1>2. \/ pc = "find" /\ pc' \in {"find", "wait", "aborted"}
      \/ pc \in {"expire", "pop"} /\ pc' \in {"expire", "events", "aborted"}
      \/ pc' = pc
  BY DEF TimerStep, FindStep, FindEmpty, FindDeleted, FindLive, DropDeleted, PopThen,
         ExpireDeleted, ExpireDone, ExpirePop, Tick
<1> QED
  BY <1>1, <1>2 DEF LoopInv, ReadyInv, Announced, loopVars

LEMMA LoopStepInv == LoopInv /\ [LoopNext]_allVars => LoopInv'
<1> SUFFICES ASSUME LoopInv, [LoopNext]_allVars PROVE LoopInv'
  OBVIOUS
<1> USE DEF LoopInv, ReadyInv, Announced
<1>1. CASE Arrive
  BY <1>1 DEF Arrive, vars
<1>2. CASE TimerStep(Tick)
  BY <1>2, TimersKeepLoopInv DEF TimerStep
<1>3. CASE TimerStep(FindStep)
  BY <1>3, TimersKeepLoopInv DEF TimerStep
<1>4. CASE Timeout
  BY <1>4 DEF Timeout, TimerStep, WaitTimeout, EndWait, loopVars
<1>5. CASE Wait
  <2>1. PICK kept \in ReturnKept : EndWait(kept) /\ stuck' = (stuck \/ ~ kept)
    BY <1>5 DEF Wait
  <2>2. kept \in BOOLEAN /\ ready' = kept /\ pc' = "expire"
    BY <2>1, LoopAssumption DEF EndWait
  <2>3. CASE kept = TRUE
    BY <2>2, <2>3
  <2>4. CASE kept = FALSE
    <3>1. ready' = FALSE
      BY <2>2, <2>4
    <3>2. stuck'
      BY <2>1, <2>4, Zenon
    <3> QED
      BY <3>1, <3>2
  <2> QED
    BY <2>2, <2>3, <2>4
<1>6. CASE TimerStep(ExpireDeleted \/ ExpireDone \/ ExpirePop)
  BY <1>6, TimersKeepLoopInv DEF TimerStep
<1>7. CASE CloseListener
  BY <1>7 DEF CloseListener, ExpireCall
<1>8. CASE CloseFreed \/ ReadFreed
  BY <1>8 DEF CloseFreed, ReadFreed, TimerStep, ExpireFreed, Wild, nodeVars, loopVars
<1>9. CASE StartAccepting
  BY <1>9 DEF StartAccepting, LoopTo, loopVars
<1>10. CASE Accept
  BY <1>10 DEF Accept, AcceptThen, LoopTo
<1>11. CASE AcceptAgain
  BY <1>11 DEF AcceptAgain, LoopTo, loopVars
<1>12. CASE AcceptFails
  BY <1>12 DEF AcceptFails, LoopTo
<1>13. CASE Handled
  BY <1>13 DEF Handled, TimerStep, EventsDone, loopVars
<1>14. CASE UNCHANGED allVars
  BY <1>14 DEF allVars, vars, loopVars
<1> QED
  BY <1>1, <1>2, <1>3, <1>4, <1>5, <1>6, <1>7, <1>8, <1>9, <1>10, <1>11, <1>12, <1>13, <1>14
     DEF LoopNext, Turn

\* While a connection waits at an open socket the loop has an edge to see, or is on
\* its way to accept, or accept failed or an event was lost since the last one came.
THEOREM DrainedAtEveryEvent == LoopSpec => []Announced
<1>1. LoopInv => Announced
  BY DEF LoopInv
<1> QED
  BY LoopInitInv, LoopStepInv, <1>1, PTL DEF LoopSpec
=============================================================================
