---------------------------- MODULE EventTimer ------------------------------
(***************************************************************************)
(* The timers of src/event/event_timer.c, kept in the priority queue of    *)
(* HeapOps, and the turn of the event loop that uses them: find how long   *)
(* to wait, wait for events or for that long, run the handlers that are    *)
(* due, handle the events, which may arm and delete timers.                *)
(*                                                                         *)
(* The handler is sgx_http_close_conn, the only one in the code, which     *)
(* frees the request.  Nothing keeps a caller from arming a request that   *)
(* has a timer already, as sgx_rush.c:127 does: the handler of the one     *)
(* that is left is given a freed request, and from there, in the phase     *)
(* "wild", anything can happen.                                            *)
(***************************************************************************)
EXTENDS Integers, Sequences, HeapOps

CONSTANTS Requests,      \* the requests timers belong to
          Timers,        \* the timer nodes malloc hands to sgx_timer_add
          Timeouts,      \* the timeouts, in ticks of the clock
          MaxTime,       \* bound: the clock stops, and no timer is due later
          FreeOutcomes,  \* what the invalid free in the queue's pop does
          None

SGX_TIMER_INFINITE == -1

ASSUME TimerAssumption ==
  /\ MaxTime \in Nat
  /\ Timeouts \subseteq Nat
  /\ FreeOutcomes \subseteq {"abort", "ignore"}
  /\ None \notin Requests \cup Timers

VARIABLES
  now,      \* what gettimeofday reads
  queue,    \* sgx_timer_Q
  key,      \* node->key
  del,      \* node->del
  owner,    \* node->request, None before the node is allocated
  timer,    \* request->timer
  alive,    \* the request has not been freed
  pc,       \* where the event loop is
  until,    \* when the wait in progress ends; SGX_TIMER_INFINITE if never, or none
  ready,    \* epoll_wait returned events
  fires,    \* history: how often the handler of each timer was called
  lost,     \* history: the timers whose push failed, which is only logged
  rearmed   \* history: the requests given a timer while one of theirs was armed

nodeVars == <<key, owner, timer, lost, rearmed>>
vars == <<now, queue, del, alive, pc, until, ready, fires, nodeVars>>

Init ==
  /\ now = 0
  /\ queue = <<>>
  /\ key = [n \in Timers |-> 0]
  /\ del = [n \in Timers |-> FALSE]
  /\ owner = [n \in Timers |-> None]
  /\ timer = [r \in Requests |-> None]
  /\ alive = [r \in Requests |-> TRUE]
  /\ pc = "find"
  /\ until = SGX_TIMER_INFINITE
  /\ ready = FALSE
  /\ fires = [n \in Timers |-> 0]
  /\ lost = {}
  /\ rearmed = {}

Tick ==
  /\ pc \notin {"aborted", "wild"}
  /\ now < MaxTime
  /\ now' = now + 1
  /\ UNCHANGED <<queue, del, alive, pc, until, ready, fires, nodeVars>>

first == Top(queue)

Queued == {queue[i] : i \in DOMAIN queue}

\* What a handler does to a freed request is undefined.
Wild == pc' = "wild" /\ UNCHANGED <<now, queue, del, alive, until, ready, nodeVars>>

\* sgx_priority_queue_pop; a failure to shrink the array is only logged.
PopThen(next) ==
  \E outcome \in FreeOutcomes :
    IF outcome = "abort" THEN pc' = "aborted" /\ UNCHANGED queue
                         ELSE pc' = next /\ queue' = Pop(key, queue)

\* A turn of the loop of find or of expire that meets a deleted timer.
DropDeleted(next) ==
  /\ queue # <<>> /\ del[first]
  /\ PopThen(next)
  /\ UNCHANGED <<now, del, alive, until, ready, fires, nodeVars>>

-----------------------------------------------------------------------------
(* sgx_timer_find and the wait *)

FindEmpty ==
  /\ pc = "find"
  /\ queue = <<>>
  /\ until' = SGX_TIMER_INFINITE
  /\ pc' = "wait"
  /\ UNCHANGED <<now, queue, del, alive, ready, fires, nodeVars>>

\* Bug: `break' where line 64 has `continue', with time still infinite.
FindGivesUp == pc = "find" /\ DropDeleted("wait")

FindDeleted == pc = "find" /\ DropDeleted("find")

\* Bug: line 67 is left out; epoll_wait takes any negative timeout as infinite.
TimeUnclamped == IF key[first] >= now THEN key[first] ELSE SGX_TIMER_INFINITE

\* The end of a wait of max(key - now, 0).
Time == IF key[first] > now THEN key[first] ELSE now

FindLive ==
  /\ pc = "find"
  /\ queue # <<>> /\ ~ del[first]
  /\ until' = Time
  /\ pc' = "wait"
  /\ UNCHANGED <<now, queue, del, alive, ready, fires, nodeVars>>

EndWait(events) ==
  /\ pc = "wait"
  /\ ready' = events
  /\ until' = SGX_TIMER_INFINITE
  /\ pc' = "expire"
  /\ UNCHANGED <<now, queue, del, alive, fires, nodeVars>>

WaitTimeout == until # SGX_TIMER_INFINITE /\ now >= until /\ EndWait(FALSE)

WaitEvents == EndWait(TRUE)

-----------------------------------------------------------------------------
(* sgx_handle_expire_timers *)

ExpireDeleted == pc = "expire" /\ DropDeleted("expire")

ExpireDone ==
  /\ pc = "expire"
  /\ queue # <<>> => ~ del[first] /\ key[first] > now
  /\ pc' = "events"
  /\ UNCHANGED <<now, queue, del, alive, until, ready, fires, nodeVars>>

\* Bug: the test of del (lines 121-127) is left out.
DueEvenDeleted == key[first] <= now

Due == ~ del[first] /\ key[first] <= now

\* The handler, sgx_http_close_conn, frees the request.
ExpireCall ==
  /\ pc = "expire"
  /\ queue # <<>> /\ Due
  /\ alive[owner[first]]
  /\ fires' = [fires EXCEPT ![first] = @ + 1]
  /\ alive' = [alive EXCEPT ![owner[first]] = FALSE]
  /\ pc' = "pop"
  /\ UNCHANGED <<now, queue, del, until, ready, nodeVars>>

\* Another timer of the request has fired before.
ExpireFreed ==
  /\ pc = "expire"
  /\ queue # <<>> /\ Due
  /\ ~ alive[owner[first]]
  /\ fires' = [fires EXCEPT ![first] = @ + 1]
  /\ Wild

\* Bug: line 134 is left out.
ExpireKeep ==
  /\ pc = "pop"
  /\ pc' = "expire"
  /\ UNCHANGED <<now, queue, del, alive, until, ready, fires, nodeVars>>

\* What is first is popped after the handler has returned.
ExpirePop ==
  /\ pc = "pop"
  /\ PopThen("expire")
  /\ UNCHANGED <<now, del, alive, until, ready, fires, nodeVars>>

-----------------------------------------------------------------------------
(* What the handling of events does with timers *)

Fresh == {n \in Timers : owner[n] = None}

\* sgx_timer_add; when the queue cannot grow, the push fails and the request
\* keeps a pointer to a timer that is in no queue.
TimerAdd(r, timeout) ==
  LET n == CHOOSE m \in Fresh : TRUE
  IN  /\ Fresh # {}
      /\ key' = [key EXCEPT ![n] = now + timeout]
      /\ owner' = [owner EXCEPT ![n] = r]
      /\ timer' = [timer EXCEPT ![r] = n]
      /\ rearmed' = IF \E m \in Queued : owner[m] = r /\ ~ del[m] THEN rearmed \cup {r} ELSE rearmed
      /\ \/ queue' = Push(key', queue, n) /\ UNCHANGED lost
         \/ lost' = lost \cup {n} /\ UNCHANGED queue

Add(r, timeout) ==
  /\ pc = "events" /\ ready
  /\ alive[r]
  /\ now + timeout <= MaxTime
  /\ TimerAdd(r, timeout)
  /\ UNCHANGED <<now, del, alive, pc, until, ready, fires>>

\* sgx_timer_del; a request without a timer would be a null dereference.
Del(r) ==
  /\ pc = "events" /\ ready
  /\ alive[r]
  /\ timer[r] # None
  /\ del' = [del EXCEPT ![timer[r]] = TRUE]
  /\ UNCHANGED <<now, queue, alive, pc, until, ready, fires, nodeVars>>

EventsDone ==
  /\ pc = "events"
  /\ pc' = "find"
  /\ ready' = FALSE
  /\ UNCHANGED <<now, queue, del, alive, until, fires, nodeVars>>

-----------------------------------------------------------------------------
FindStep == FindEmpty \/ FindDeleted \/ FindLive

ExpireStep == ExpireDeleted \/ ExpireDone \/ ExpireCall \/ ExpireFreed \/ ExpirePop

\* The steps the thread of the event loop takes by itself.
LoopStep == FindStep \/ WaitTimeout \/ ExpireStep \/ EventsDone

Next ==
  \/ Tick
  \/ LoopStep
  \/ WaitEvents
  \/ \E r \in Requests : Del(r) \/ \E timeout \in Timeouts : Add(r, timeout)

(***************************************************************************)
(* Fairness: time passes, and the loop goes on.  Events need not come.     *)
(***************************************************************************)
Spec == Init /\ [][Next]_vars /\ WF_vars(Tick) /\ WF_vars(LoopStep)

-----------------------------------------------------------------------------
(* Properties *)

\* The timer whose handler has been called and which is not popped yet.
Firing == IF pc \in {"pop", "aborted", "wild"} /\ queue # <<>> /\ fires[first] > 0
          THEN {first} ELSE {}

\* A queued timer that can still call its handler has a request that was not freed,
\* unless that request was given a timer while an earlier one of its was armed:
\* sgx_http_close_conn is given a dangling request through no other history of
\* arming, deleting, rearming and firing, deleted timers being left in the queue.
HandlersOnLiveRequests ==
  \A n \in Queued \ Firing : ~ del[n] => alive[owner[n]] \/ owner[n] \in rearmed

\* A handler is called at most once, and not before its time.
FiresOnceWhenDue ==
  \A n \in Timers : fires[n] > 0 => fires[n] = 1 /\ key[n] <= now

\* A timer that is no longer queued has fired or was deleted, unless its push
\* failed: what pop removes is what the loops of find and expire looked at,
\* though the handler runs between the two and the heap is not in order.
NoneForgotten ==
  \A n \in Timers : owner[n] # None /\ n \notin Queued => fires[n] > 0 \/ del[n] \/ n \in lost

\* The loop never blocks for ever while a timer that was not deleted is queued,
\* and never past every one of them.
NoEndlessWait ==
  pc = "wait" /\ (\E n \in Queued : ~ del[n]) =>
    /\ until # SGX_TIMER_INFINITE
    /\ \E n \in Queued : ~ del[n] /\ (until <= key[n] \/ until <= now)

\* A queued timer fires or is deleted in the end, however late the heap lets it,
\* unless the process ends or a handler is given a freed request before.
EveryTimerResolved ==
  \A n \in Timers : n \in Queued ~> fires[n] > 0 \/ del[n] \/ pc \in {"aborted", "wild"}
=============================================================================
