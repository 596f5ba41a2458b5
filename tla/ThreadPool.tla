----------------------------- MODULE ThreadPool -----------------------------
(***************************************************************************)
(* The thread pool of src/test/sgx_thread_pool.c: a list of jobs, a mutex  *)
(* and a condition variable shared by the workers, by the clients that add *)
(* jobs and by whoever destroys the pool.  A step is what a thread does    *)
(* between two accesses to shared memory that another thread could see in  *)
(* between; the field shutdown is read and written without the mutex, so   *)
(* each of its accesses is a step.                                         *)
(*                                                                         *)
(* Contract of use, taken from sgx_thread_pool_test.c: clients add jobs    *)
(* only after sgx_thread_pool_create has returned, and none is adding or   *)
(* will add once sgx_thread_pool_destroy has been called; destroy may be   *)
(* called again, but not while a call of it is in progress.  The routine   *)
(* of a job may itself call add_work at any time, since nothing stops it.  *)
(***************************************************************************)
EXTENDS Naturals, Sequences, FiniteSets

CONSTANTS Workers,     \* the threads sgx_thread_pool_create starts
          Clients,     \* the threads that call sgx_thread_pool_add_work
          Destroyers,  \* the threads that call sgx_thread_pool_destroy
          Works,       \* the list nodes malloc hands to add_work, each once
          None         \* no thread, no node

Threads == Workers \cup Clients \cup Destroyers
Adders == Workers \cup Clients

ASSUME ThreadsAssumption ==
  /\ IsFiniteSet(Workers) /\ Workers # {}
  /\ Workers \cap Clients = {}
  /\ Workers \cap Destroyers = {}
  /\ Clients \cap Destroyers = {}
  /\ None \notin Threads \cup Works

VARIABLES
  pool,      \* the structure sgx_tpool points to
  shutdown,  \* sgx_tpool->shutdown
  queue,     \* the list sgx_tpool->now
  lock,      \* the owner of sgx_tpool->lock
  pc,        \* where each thread is
  work,      \* the job a worker has taken (sgx_work in the routine)
  node,      \* the job a thread is adding (sgx_work in add_work)
  heap,      \* what became of each list node
  ran        \* history: the jobs whose routine has returned

jobVars == <<queue, work, node, heap, ran>>
vars == <<pool, shutdown, lock, pc, jobVars>>

WorkerLabels == {"unborn", "lock", "check", "wait", "asleep", "woken",
                 "recheck", "take", "run", "free", "exited", "gone"}
AddLabels == {"add_lock", "add_link"}
ClientLabels == {"idle", "gone"} \cup AddLabels
DestroyerLabels == {"idle", "d_check", "d_set", "d_lock", "d_broadcast",
                    "d_join", "d_drain", "returned", "gone"}

Init ==
  /\ pool = "absent"
  /\ shutdown = FALSE
  /\ queue = <<>>
  /\ lock = None
  /\ pc = [t \in Threads |-> IF t \in Workers THEN "unborn" ELSE "idle"]
  /\ work = [w \in Workers |-> None]
  /\ node = [t \in Adders |-> None]
  /\ heap = [n \in Works |-> "fresh"]
  /\ ran = {}

Goto(t, label) == pc' = [pc EXCEPT ![t] = label]
Acquire(t) == lock = None /\ lock' = t
Release(t) == lock = t /\ lock' = None

Asleep == {w \in Workers : pc[w] = "asleep"}

\* t goes on at label, and the sleepers in woken leave pthread_cond_wait.
GotoAndWake(t, label, woken) ==
  pc' = [u \in Threads |-> IF u = t THEN label ELSE IF u \in woken THEN "woken" ELSE pc[u]]

-----------------------------------------------------------------------------
(* sgx_thread_pool_create *)

Created == pool = "live" /\ \A w \in Workers : pc[w] # "unborn"

\* Every failure in create ends in exit(1), which takes all threads with it.
Exit ==
  /\ pool' = "exited"
  /\ pc' = [t \in Threads |-> "gone"]
  /\ lock' = None
  /\ UNCHANGED <<shutdown, jobVars>>

Create ==
  /\ pool = "absent"
  /\ \/ pool' = "live" /\ UNCHANGED <<shutdown, lock, pc, jobVars>>
     \/ Exit

Spawn(w) ==
  /\ pool = "live"
  /\ pc[w] = "unborn"
  /\ \/ Goto(w, "lock") /\ UNCHANGED <<pool, shutdown, lock, jobVars>>
     \/ Exit

-----------------------------------------------------------------------------
(* sgx_thread_routine *)

\* Bug: `if' where line 17 has `while', so a woken worker does not look again.
LookIf(w) == IF pc[w] = "woken" THEN "recheck" ELSE "check"

\* A worker that has the mutex looks at the list, woken or not.
Look(w) == "check"

WorkerLock(w) ==
  /\ pc[w] \in {"lock", "woken"}
  /\ Acquire(w)
  /\ Goto(w, Look(w))
  /\ UNCHANGED <<pool, shutdown, jobVars>>

\* Bug: line 17 forgets shutdown.
MustWaitForever == queue = <<>>

MustWait == queue = <<>> /\ ~ shutdown

WorkerCheck(w) ==
  /\ pc[w] = "check"
  /\ Goto(w, IF MustWait THEN "wait" ELSE "recheck")
  /\ UNCHANGED <<pool, shutdown, lock, jobVars>>

\* pthread_cond_wait releases the mutex and blocks in one step.
WorkerWait(w) ==
  /\ pc[w] = "wait"
  /\ Release(w)
  /\ Goto(w, "asleep")
  /\ UNCHANGED <<pool, shutdown, jobVars>>

\* POSIX lets pthread_cond_wait return for no reason.
WorkerSpurious(w) ==
  /\ pc[w] = "asleep"
  /\ Goto(w, "woken")
  /\ UNCHANGED <<pool, shutdown, lock, jobVars>>

WorkerRecheck(w) ==
  /\ pc[w] = "recheck"
  /\ IF shutdown THEN Release(w) /\ Goto(w, "exited")
                 ELSE UNCHANGED lock /\ Goto(w, "take")
  /\ UNCHANGED <<pool, shutdown, jobVars>>

\* Bug: line 25 is left out.
RestKept == queue

Rest == Tail(queue)

\* With an empty list, now->next would be a null dereference.
WorkerTake(w) ==
  /\ pc[w] = "take"
  /\ queue # <<>>
  /\ work' = [work EXCEPT ![w] = Head(queue)]
  /\ queue' = Rest
  /\ Release(w)
  /\ Goto(w, "run")
  /\ UNCHANGED <<pool, shutdown, node, heap, ran>>

\* The routine of the job returns; until then it may call AddCall.
WorkerRun(w) ==
  /\ pc[w] = "run"
  /\ ran' = ran \cup {work[w]}
  /\ Goto(w, "free")
  /\ UNCHANGED <<pool, shutdown, lock, queue, work, node, heap>>

WorkerFree(w) ==
  /\ pc[w] = "free"
  /\ heap' = [heap EXCEPT ![work[w]] = "freed"]
  /\ work' = [work EXCEPT ![w] = None]
  /\ Goto(w, "lock")
  /\ UNCHANGED <<pool, shutdown, lock, queue, node, ran>>

-----------------------------------------------------------------------------
(* sgx_thread_pool_add_work *)

MayAdd(t) ==
  \/ t \in Workers /\ pc[t] = "run"
  \/ t \in Clients /\ pc[t] = "idle" /\ Created
                   /\ \A d \in Destroyers : pc[d] = "idle"

AddCall(t, n) ==
  /\ MayAdd(t)
  /\ heap[n] = "fresh"
  /\ heap' = [heap EXCEPT ![n] = "live"]
  /\ node' = [node EXCEPT ![t] = n]
  /\ Goto(t, "add_lock")
  /\ UNCHANGED <<pool, shutdown, lock, queue, work, ran>>

\* A null routine or a failed malloc: -1, and the job is not accepted.
AddRefuse(t, n) ==
  /\ MayAdd(t)
  /\ heap[n] = "fresh"
  /\ heap' = [heap EXCEPT ![n] = "refused"]
  /\ UNCHANGED <<pool, shutdown, lock, pc, queue, work, node, ran>>

AddLock(t) ==
  /\ pc[t] = "add_lock"
  /\ Acquire(t)
  /\ Goto(t, "add_link")
  /\ UNCHANGED <<pool, shutdown, jobVars>>

\* Bug: line 123 is left out.
NoSignal == {{}}

\* Bug: an optimisation that signals only when the list was empty.
SignalIfFirst ==
  IF Asleep = {} \/ queue # <<>> THEN {{}} ELSE {{w} : w \in Asleep}

\* pthread_cond_signal wakes one of the sleepers, if there is one.
Signal == IF Asleep = {} THEN {{}} ELSE {{w} : w \in Asleep}

\* Bug: the job is put at the head of the list.
LinkedFirst(n) == <<n>> \o queue

Linked(n) == Append(queue, n)

AddLink(t) ==
  /\ pc[t] = "add_link"
  /\ queue' = Linked(node[t])
  /\ node' = [node EXCEPT ![t] = None]
  /\ \E woken \in Signal :
       GotoAndWake(t, IF t \in Workers THEN "run" ELSE "idle", woken)
  /\ Release(t)
  /\ UNCHANGED <<pool, shutdown, work, heap, ran>>

-----------------------------------------------------------------------------
(* sgx_thread_pool_destroy *)

DestroyCall(d) ==
  /\ pc[d] = "idle"
  /\ pool = "freed" \/ Created
  /\ \A c \in Clients : pc[c] = "idle"
  /\ \A e \in Destroyers : pc[e] \in {"idle", "returned"}
  /\ Goto(d, "d_check")
  /\ UNCHANGED <<pool, shutdown, lock, jobVars>>

\* What follows a read of the freed structure is undefined and not followed.
DestroyCheck(d) ==
  /\ pc[d] = "d_check"
  /\ pool = "live"
  /\ Goto(d, IF shutdown THEN "returned" ELSE "d_set")
  /\ UNCHANGED <<pool, shutdown, lock, jobVars>>

DestroySet(d) ==
  /\ pc[d] = "d_set"
  /\ shutdown' = TRUE
  /\ Goto(d, "d_lock")
  /\ UNCHANGED <<pool, lock, jobVars>>

DestroyLock(d) ==
  /\ pc[d] = "d_lock"
  /\ Acquire(d)
  /\ Goto(d, "d_broadcast")
  /\ UNCHANGED <<pool, shutdown, jobVars>>

\* Bug: pthread_cond_signal where line 75 has pthread_cond_broadcast.
BroadcastOne == Signal

\* pthread_cond_broadcast wakes all the sleepers.
Broadcast == {Asleep}

DestroyBroadcast(d) ==
  /\ pc[d] = "d_broadcast"
  /\ Release(d)
  /\ \E woken \in Broadcast : GotoAndWake(d, "d_join", woken)
  /\ UNCHANGED <<pool, shutdown, jobVars>>

\* Bug: the loop of line 77 stops one thread early.
AllButOneJoined ==
  \E last \in Workers : \A w \in Workers \ {last} : pc[w] = "exited"

AllJoined == \A w \in Workers : pc[w] = "exited"

DestroyJoin(d) ==
  /\ pc[d] = "d_join"
  /\ AllJoined
  /\ Goto(d, "d_drain")
  /\ UNCHANGED <<pool, shutdown, lock, jobVars>>

DestroyDrain(d) ==
  /\ pc[d] = "d_drain"
  /\ queue # <<>>
  /\ heap' = [heap EXCEPT ![Head(queue)] = "freed"]
  /\ queue' = Tail(queue)
  /\ UNCHANGED <<pool, shutdown, lock, pc, work, node, ran>>

DestroyFree(d) ==
  /\ pc[d] = "d_drain"
  /\ queue = <<>>
  /\ pool' = "freed"
  /\ Goto(d, "returned")
  /\ UNCHANGED <<shutdown, lock, jobVars>>

-----------------------------------------------------------------------------
\* The steps of each kind of thread the scheduler keeps running.
WorkerStep(w) ==
  \/ WorkerLock(w) \/ WorkerCheck(w) \/ WorkerWait(w) \/ WorkerRecheck(w)
  \/ WorkerTake(w) \/ WorkerRun(w) \/ WorkerFree(w)

AddStep(t) == AddLock(t) \/ AddLink(t)

DestroyStep(d) ==
  \/ DestroyCheck(d) \/ DestroySet(d) \/ DestroyLock(d) \/ DestroyBroadcast(d)
  \/ DestroyJoin(d) \/ DestroyDrain(d) \/ DestroyFree(d)

\* Nothing is left to do; any other state without a successor is a deadlock.
Finished ==
  /\ \/ pool = "exited"
     \/ pool = "freed" /\ \A d \in Destroyers : pc[d] = "returned"
  /\ UNCHANGED vars

Next ==
  \/ Create
  \/ \E w \in Workers : Spawn(w) \/ WorkerStep(w) \/ WorkerSpurious(w)
  \/ \E t \in Adders : AddStep(t)
  \/ \E t \in Adders, n \in Works : AddCall(t, n) \/ AddRefuse(t, n)
  \/ \E d \in Destroyers : DestroyCall(d) \/ DestroyStep(d)
  \/ Finished

SafeSpec == Init /\ [][Next]_vars

(***************************************************************************)
(* Fairness: a thread that can take a step eventually takes one (weak      *)
(* fairness: the mutex is not assumed to be fair), and the routine of a    *)
(* job returns.  Nobody is obliged to add a job or to destroy the pool,    *)
(* and a spurious wake-up need not happen.                                 *)
(***************************************************************************)
Fairness ==
  /\ \A w \in Workers : WF_vars(WorkerStep(w))
  /\ \A t \in Adders : WF_vars(AddStep(t))
  /\ \A d \in Destroyers : WF_vars(DestroyStep(d))

Spec == SafeSpec /\ Fairness

-----------------------------------------------------------------------------
(* Safety *)

\* Every variable has its type; a thread is only where its kind can be.
TypeOK ==
  /\ pool \in {"absent", "live", "freed", "exited"}
  /\ shutdown \in BOOLEAN
  /\ queue \in Seq(Works)
  /\ lock \in Threads \cup {None}
  /\ pc \in [Threads -> WorkerLabels \cup ClientLabels \cup DestroyerLabels]
  /\ \A w \in Workers : pc[w] \in WorkerLabels \cup AddLabels
  /\ \A c \in Clients : pc[c] \in ClientLabels
  /\ \A d \in Destroyers : pc[d] \in DestroyerLabels
  /\ work \in [Workers -> Works \cup {None}]
  /\ node \in [Adders -> Works \cup {None}]
  /\ heap \in [Works -> {"fresh", "live", "refused", "freed"}]
  /\ ran \subseteq Works

\* The places that can hold the pointer to list node n.
Holders(n) ==
  {<<"queue", i>> : i \in {j \in DOMAIN queue : queue[j] = n}}
    \cup {<<"work", w>> : w \in {v \in Workers : work[v] = n}}
    \cup {<<"node", t>> : t \in {u \in Adders : node[u] = n}}

\* A node malloc returned and nobody freed is held in exactly one place (the
\* list, a worker that took it, a thread that is adding it), and one that was
\* freed in none: no job runs twice, no node leaks, none is freed twice.
Ownership ==
  \A n \in Works : Cardinality(Holders(n)) = IF heap[n] = "live" THEN 1 ELSE 0

\* Lines 24-25 dereference now: at that point the list is not empty, whatever
\* other workers took since this one was signalled.
TakeNonEmpty == \A w \in Workers : pc[w] = "take" => queue # <<>>

\* The workers that will look at the list before they sleep or run a job.
Seeking ==
  {w \in Workers : pc[w] \in {"lock", "check", "woken", "recheck", "take", "free"}}

\* No job waits for a busy worker while another one sleeps: as long as some
\* worker is asleep, each waiting job has an awake worker on its way to it.
WorkConserving ==
  ~ shutdown /\ Asleep # {} => Len(queue) <= Cardinality(Seeking)

\* After the broadcast no worker is blocked, or about to block, on a condition
\* that will never be signalled again, although shutdown is set unlocked.
NoSleeperLeftBehind ==
  (\E d \in Destroyers : pc[d] \in {"d_join", "d_drain"}) =>
    \A w \in Workers : pc[w] \notin {"wait", "asleep"}

\* Once destroy has freed the pool no thread is at a line that reads it.
PoolOutlivesThreads ==
  pool = "freed" => /\ \A w \in Workers : pc[w] = "exited"
                    /\ \A c \in Clients : pc[c] = "idle"
                    /\ lock = None

-----------------------------------------------------------------------------
(* What the pool promises, and progress *)

Active == {work[w] : w \in {v \in Workers : pc[v] \in {"run"} \cup AddLabels}}

\* From the moment destroy holds the mutex no worker can take a job.
Sealed ==
  \E d \in Destroyers : pc[d] \in {"d_broadcast", "d_join", "d_drain", "returned"}

WP == INSTANCE WorkPool WITH
        Jobs    <- Works,
        pending <- queue,
        active  <- Active,
        done    <- ran,
        dropped <- {n \in Works : heap[n] = "freed"} \ ran,
        sealed  <- Sealed

\* The threads, the mutex and the condition variable implement WorkPool: jobs
\* start in order and once, none after the seal, and only jobs still waiting
\* when the last one has returned are thrown away.
ImplementsWorkPool == WP!Spec

Waiting(n) == \E i \in DOMAIN queue : queue[i] = n

\* A job in the list is started, unless the pool is being destroyed.
EveryJobStarts == \A n \in Works : Waiting(n) ~> ~ Waiting(n) \/ shutdown

\* A call of destroy returns and leaves the pool freed.
DestroyTerminates ==
  \A d \in Destroyers : pc[d] = "d_check" ~> pc[d] = "returned" /\ pool = "freed"
=============================================================================
