-------------------------- MODULE ThreadPoolProofs --------------------------
(***************************************************************************)
(* Proofs about the thread pool, for any finite number of workers and any  *)
(* numbers of clients, destroyers and jobs.                                *)
(***************************************************************************)
EXTENDS ThreadPool, FiniteSetTheorems, TLAPS

-----------------------------------------------------------------------------
(* The inductive invariant *)

\* The labels at which a thread holds the mutex.
Holding == {"check", "wait", "recheck", "take", "add_link", "d_broadcast"}

\* The mutex is held by the thread, if any, that is inside a critical section.
LockInv == \A t \in Threads : pc[t] \in Holding <=> lock = t

\* What a worker saw of the list under the mutex still holds.
WorkerInv ==
  \A w \in Workers :
    /\ pc[w] = "wait" => queue = <<>>
    /\ pc[w] = "recheck" => queue # <<>> \/ shutdown
    /\ pc[w] = "exited" => shutdown

\* A thread that is adding a job, or has taken one, knows which.
NodeInv ==
  /\ \A t \in Adders : pc[t] \in AddLabels => node[t] \in Works
  /\ \A w \in Workers :
       pc[w] \in {"run", "free"} \cup AddLabels => work[w] \in Works

\* The progress of a destroyer and what it implies of the other threads.
DestroyerInv ==
  \A d \in Destroyers :
    /\ pc[d] \notin {"idle", "gone"} =>
         /\ \A w \in Workers : pc[w] # "unborn"
         /\ \A c \in Clients : pc[c] = "idle"
         /\ pool \in {"live", "freed"}
    /\ pc[d] \in {"d_set", "d_lock", "d_broadcast", "d_join", "d_drain"} =>
         pool = "live"
    /\ pc[d] \in {"d_lock", "d_broadcast", "d_join", "d_drain"} => shutdown
    /\ pc[d] = "d_drain" => AllJoined
    /\ \A e \in Destroyers \ {d} :
         pc[d] \in {"idle", "returned", "gone"}
           \/ pc[e] \in {"idle", "returned", "gone"}

\* Outside its lifetime the pool has no busy thread.
PoolInv ==
  /\ pool = "absent" => \A t \in Threads : pc[t] \in {"unborn", "idle"}
  /\ pool = "exited" => \A t \in Threads : pc[t] = "gone"
  /\ pool # "exited" => \A t \in Threads : pc[t] # "gone"
  /\ (\E w \in Workers : pc[w] = "unborn") =>
       \A t \in Clients \cup Destroyers : pc[t] \in {"idle", "gone"}

IInv ==
  /\ TypeOK
  /\ LockInv
  /\ WorkerInv
  /\ NodeInv
  /\ DestroyerInv
  /\ PoolInv
  /\ TakeNonEmpty
  /\ NoSleeperLeftBehind
  /\ PoolOutlivesThreads

-----------------------------------------------------------------------------
(* IInv is inductive *)

LEMMA InitInv == Init => IInv
<1> SUFFICES ASSUME Init PROVE IInv
  OBVIOUS
<1> USE ThreadsAssumption DEF Init, Threads, Adders
<1>1. TypeOK
  <2>1. /\ pc \in [Threads -> {"unborn", "idle"}]
        /\ \A w \in Workers : pc[w] = "unborn"
        /\ \A t \in Clients \cup Destroyers : pc[t] = "idle"
    OBVIOUS
  <2>2. pc \in [Threads -> WorkerLabels \cup ClientLabels \cup DestroyerLabels]
    <3>1. {"unborn", "idle"} \subseteq WorkerLabels \cup ClientLabels \cup DestroyerLabels
      BY DEF WorkerLabels, ClientLabels
    <3> QED
      BY ONLY <2>1, <3>1
  <2>3. /\ \A w \in Workers : pc[w] \in WorkerLabels \cup AddLabels
        /\ \A c \in Clients : pc[c] \in ClientLabels
        /\ \A d \in Destroyers : pc[d] \in DestroyerLabels
    BY <2>1 DEF WorkerLabels, ClientLabels, DestroyerLabels
  <2>4. /\ work \in [Workers -> Works \cup {None}]
        /\ node \in [Adders -> Works \cup {None}]
        /\ heap \in [Works -> {"fresh", "live", "refused", "freed"}]
    OBVIOUS
  <2>5. pool \in {"absent"} /\ queue \in Seq(Works) /\ ran \subseteq Works
    OBVIOUS
  <2> QED
    BY ONLY <2>2, <2>3, <2>4, <2>5, Init DEF TypeOK, Init
<1>2. LockInv /\ WorkerInv /\ NodeInv
  BY DEF LockInv, WorkerInv, NodeInv, Holding, AddLabels
<1>3. DestroyerInv /\ PoolInv
  BY DEF DestroyerInv, PoolInv
<1>4. TakeNonEmpty /\ NoSleeperLeftBehind /\ PoolOutlivesThreads
  BY DEF TakeNonEmpty, NoSleeperLeftBehind, PoolOutlivesThreads
<1> QED
  BY <1>1, <1>2, <1>3, <1>4 DEF IInv

\* The step of add_work that links the job and signals a sleeper is the one
\* that moves two threads; each part of the invariant is taken in turn.
LEMMA AddLinkInv ==
  ASSUME IInv, NEW t \in Adders, AddLink(t)
  PROVE  IInv'
<1> USE ThreadsAssumption DEF IInv, Threads, Adders, AddLabels
<1>1. pc[t] = "add_link" /\ lock = t /\ lock' = None /\ node[t] \in Works
  BY DEF AddLink, Release, NodeInv
<1>2. PICK back \in {"run", "idle"} :
        /\ back = IF t \in Workers THEN "run" ELSE "idle"
        /\ \/ pc' = [pc EXCEPT ![t] = back]
           \/ \E w \in Workers : /\ pc[w] = "asleep" /\ w # t
                                 /\ pc' = [pc EXCEPT ![t] = back, ![w] = "woken"]
  BY DEF AddLink, Signal, GotoAndWake, Asleep, TypeOK
<1>3. /\ queue' = Append(queue, node[t])
      /\ queue' \in Seq(Works) /\ queue' # <<>>
  BY <1>1 DEF AddLink, Linked, TypeOK
<1>4. UNCHANGED <<pool, shutdown, work, heap, ran>> /\ node' = [node EXCEPT ![t] = None]
  BY DEF AddLink
<1>5. t \notin Destroyers /\ \A d \in Destroyers : pc'[d] = pc[d]
  BY <1>2 DEF TypeOK
<1>6. TypeOK'
  BY <1>1, <1>2, <1>3, <1>4, <1>5 DEF TypeOK, WorkerLabels, ClientLabels, DestroyerLabels
<1>7. LockInv'
  BY <1>1, <1>2, <1>3, <1>4, <1>5 DEF TypeOK, LockInv, Holding
<1>8. WorkerInv'
  BY <1>1, <1>2, <1>3, <1>4, <1>5 DEF TypeOK, LockInv, WorkerInv, Holding
<1>9. NodeInv'
  BY <1>1, <1>2, <1>3, <1>4, <1>5 DEF TypeOK, NodeInv
<1>10. DestroyerInv'
  BY <1>1, <1>2, <1>3, <1>4, <1>5 DEF TypeOK, DestroyerInv, AllJoined, ClientLabels
<1>11. PoolInv'
  BY <1>1, <1>2, <1>3, <1>4, <1>5 DEF TypeOK, PoolInv
<1>12. TakeNonEmpty'
  BY <1>1, <1>2, <1>3, <1>4, <1>5 DEF TypeOK, TakeNonEmpty
<1>13. NoSleeperLeftBehind'
  BY <1>1, <1>2, <1>3, <1>4, <1>5 DEF TypeOK, NoSleeperLeftBehind
<1>14. PoolOutlivesThreads'
  BY <1>1, <1>2, <1>3, <1>4, <1>5 DEF TypeOK, PoolOutlivesThreads
<1> QED
  BY <1>6, <1>7, <1>8, <1>9, <1>10, <1>11, <1>12, <1>13, <1>14

\* Every step preserves the invariant.
LEMMA NextInv == IInv /\ [Next]_vars => IInv'
<1> SUFFICES ASSUME IInv, [Next]_vars PROVE IInv'
  OBVIOUS
<1>1. ASSUME NEW t \in Adders, AddLink(t) PROVE IInv'
  BY <1>1, AddLinkInv
<1> USE ThreadsAssumption
    DEF IInv, TypeOK, LockInv, WorkerInv, NodeInv, DestroyerInv, PoolInv, TakeNonEmpty,
        NoSleeperLeftBehind, PoolOutlivesThreads, AllJoined, Holding, Threads,
        Adders, WorkerLabels, AddLabels, ClientLabels, DestroyerLabels, Goto, GotoAndWake,
        Acquire, Release, jobVars, Look, Rest, Broadcast, Asleep
<1>2. ASSUME Create PROVE IInv'
  BY <1>2 DEF Create, Exit
<1>3. ASSUME NEW w \in Workers, Spawn(w) PROVE IInv'
  BY <1>3 DEF Spawn, Exit
<1>4. ASSUME NEW w \in Workers, WorkerLock(w) PROVE IInv'
  BY <1>4 DEF WorkerLock
<1>5. ASSUME NEW w \in Workers, WorkerCheck(w) PROVE IInv'
  BY <1>5 DEF WorkerCheck, MustWait
<1>6. ASSUME NEW w \in Workers, WorkerWait(w) PROVE IInv'
  BY <1>6 DEF WorkerWait
<1>7. ASSUME NEW w \in Workers, WorkerSpurious(w) PROVE IInv'
  BY <1>7 DEF WorkerSpurious
<1>8. ASSUME NEW w \in Workers, WorkerRecheck(w) PROVE IInv'
  BY <1>8 DEF WorkerRecheck
<1>9. ASSUME NEW w \in Workers, WorkerTake(w) PROVE IInv'
  BY <1>9 DEF WorkerTake
<1>10. ASSUME NEW w \in Workers, WorkerRun(w) PROVE IInv'
  BY <1>10 DEF WorkerRun
<1>11. ASSUME NEW w \in Workers, WorkerFree(w) PROVE IInv'
  BY <1>11 DEF WorkerFree
<1>12. ASSUME NEW t \in Adders, NEW n \in Works, AddCall(t, n) PROVE IInv'
  BY <1>12 DEF AddCall, MayAdd, Created
<1>13. ASSUME NEW t \in Adders, NEW n \in Works, AddRefuse(t, n) PROVE IInv'
  BY <1>13 DEF AddRefuse, MayAdd, Created
<1>14. ASSUME NEW t \in Adders, AddLock(t) PROVE IInv'
  BY <1>14 DEF AddLock
<1>15. ASSUME NEW d \in Destroyers, DestroyCall(d) PROVE IInv'
  BY <1>15 DEF DestroyCall, Created
<1>16. ASSUME NEW d \in Destroyers, DestroyCheck(d) PROVE IInv'
  BY <1>16 DEF DestroyCheck
<1>17. ASSUME NEW d \in Destroyers, DestroySet(d) PROVE IInv'
  BY <1>17 DEF DestroySet
<1>18. ASSUME NEW d \in Destroyers, DestroyLock(d) PROVE IInv'
  BY <1>18 DEF DestroyLock
<1>19. ASSUME NEW d \in Destroyers, DestroyBroadcast(d) PROVE IInv'
  BY <1>19 DEF DestroyBroadcast
<1>20. ASSUME NEW d \in Destroyers, DestroyJoin(d) PROVE IInv'
  BY <1>20 DEF DestroyJoin
<1>21. ASSUME NEW d \in Destroyers, DestroyDrain(d) PROVE IInv'
  BY <1>21 DEF DestroyDrain
<1>22. ASSUME NEW d \in Destroyers, DestroyFree(d) PROVE IInv'
  BY <1>22 DEF DestroyFree
<1>23. CASE UNCHANGED vars
  BY <1>23 DEF vars
<1> QED
  BY <1>1, <1>2, <1>3, <1>4, <1>5, <1>6, <1>7, <1>8, <1>9, <1>10, <1>11, <1>12, <1>13, <1>14,
     <1>15, <1>16, <1>17, <1>18, <1>19, <1>20, <1>21, <1>22, <1>23
  DEF Next, WorkerStep, AddStep, DestroyStep, Finished

\* The invariant holds of every behaviour, fair or not.
THEOREM Invariant == SafeSpec => []IInv
  BY InitInv, NextInv, PTL DEF SafeSpec

\* Type correctness.
THEOREM TypeCorrect == SafeSpec => []TypeOK
<1>1. IInv => TypeOK
  BY DEF IInv
<1> QED
  BY <1>1, Invariant, PTL

\* No worker takes a job from an empty list.
THEOREM NeverTakesNothing == SafeSpec => []TakeNonEmpty
<1>1. IInv => TakeNonEmpty
  BY DEF IInv
<1> QED
  BY <1>1, Invariant, PTL

\* The broadcast of destroy reaches every worker that could sleep through it.
THEOREM BroadcastReachesAll == SafeSpec => []NoSleeperLeftBehind
<1>1. IInv => NoSleeperLeftBehind
  BY DEF IInv
<1> QED
  BY <1>1, Invariant, PTL

\* Nobody uses the pool after destroy has freed it.
THEOREM PoolNotUsedAfterFree == SafeSpec => []PoolOutlivesThreads
<1>1. IInv => PoolOutlivesThreads
  BY DEF IInv
<1> QED
  BY <1>1, Invariant, PTL

-----------------------------------------------------------------------------
(* No job waits for a busy worker while another one sleeps *)

LEMMA FiniteSeeking ==
  ASSUME IInv
  PROVE  /\ IsFiniteSet(Seeking)
         /\ Cardinality(Seeking) \in Nat
  BY ThreadsAssumption, FS_Subset, FS_CardinalityType DEF Seeking

\* Steps after which no worker is less on its way to the list than before, and
\* that leave the list alone.
LEMMA SeekingGrows ==
  ASSUME IInv, IInv', WorkConserving,
         Seeking \subseteq Seeking', Asleep' \subseteq Asleep,
         queue' = queue, shutdown' = shutdown
  PROVE  WorkConserving'
<1>1. Cardinality(Seeking) <= Cardinality(Seeking')
  <2>1. IsFiniteSet(Seeking')
    BY ThreadsAssumption, FS_Subset DEF Seeking
  <2> QED
    BY <2>1, FS_Subset
<1>2. Cardinality(Seeking) \in Nat /\ Cardinality(Seeking') \in Nat
  <2>1. IsFiniteSet(Seeking')
    BY ThreadsAssumption, FS_Subset DEF Seeking
  <2> QED
    BY <2>1, FiniteSeeking, FS_CardinalityType
<1>3. Len(queue) \in Nat
  BY DEF IInv, TypeOK
<1> QED
  BY <1>1, <1>2, <1>3 DEF WorkConserving

\* A step after which the list is empty.
LEMMA EmptyConserves ==
  ASSUME IInv', queue' = <<>>
  PROVE  WorkConserving'
<1>1. IsFiniteSet(Seeking')
  BY ThreadsAssumption, FS_Subset DEF Seeking
<1>2. Cardinality(Seeking') \in Nat
  BY <1>1, FS_CardinalityType
<1>3. Len(queue') = 0
  OBVIOUS
<1> QED
  BY <1>2, <1>3 DEF WorkConserving

\* Taking a job removes one job and one seeker.
LEMMA TakeConserves ==
  ASSUME IInv, IInv', WorkConserving, NEW w \in Workers, WorkerTake(w)
  PROVE  WorkConserving'
<1>1. /\ Seeking' = Seeking \ {w} /\ w \in Seeking
      /\ Asleep' = Asleep /\ shutdown' = shutdown
  BY DEF WorkerTake, Goto, Seeking, Asleep, IInv, TypeOK
<1>2. Cardinality(Seeking') = Cardinality(Seeking) - 1
  BY <1>1, FiniteSeeking, FS_RemoveElement
<1>3. Len(queue') = Len(queue) - 1 /\ Len(queue) \in Nat
  BY DEF WorkerTake, Rest, IInv, TypeOK
<1> QED
  BY <1>1, <1>2, <1>3, FiniteSeeking DEF WorkConserving

\* Adding a job wakes a sleeper, who becomes a seeker, if there is one.
LEMMA LinkConserves ==
  ASSUME IInv, IInv', WorkConserving, NEW t \in Adders, AddLink(t)
  PROVE  WorkConserving'
<1> USE ThreadsAssumption DEF Threads, Adders
<1>1. /\ shutdown' = shutdown
      /\ pc \in [Threads -> WorkerLabels \cup ClientLabels \cup DestroyerLabels]
      /\ Len(queue') = Len(queue) + 1 /\ Len(queue) \in Nat
  <2>1. node[t] \in Works
    BY DEF AddLink, IInv, NodeInv, AddLabels
  <2>2. queue' = Append(queue, node[t]) /\ queue \in Seq(Works)
    BY DEF AddLink, Linked, IInv, TypeOK
  <2>3. pc \in [Threads -> WorkerLabels \cup ClientLabels \cup DestroyerLabels]
    BY DEF IInv, TypeOK
  <2> QED
    BY <2>1, <2>2, <2>3 DEF AddLink
<1>2. CASE Asleep = {}
  <2>1. Asleep' = {}
    BY <1>1, <1>2 DEF AddLink, Signal, GotoAndWake, Asleep
  <2> QED
    BY <2>1 DEF WorkConserving
<1>3. CASE Asleep # {}
  <2>1. PICK w \in Asleep : /\ Seeking' = Seeking \cup {w}
                            /\ w \notin Seeking
    BY <1>1, <1>3 DEF AddLink, Signal, GotoAndWake, Asleep, Seeking
  <2>2. Cardinality(Seeking') = Cardinality(Seeking) + 1
    BY <2>1, FiniteSeeking, FS_AddElement
  <2> QED
    BY <1>1, <1>3, <2>2, FiniteSeeking DEF WorkConserving
<1> QED
  BY <1>2, <1>3

LEMMA NextConserves ==
  ASSUME IInv, IInv', WorkConserving, [Next]_vars
  PROVE  WorkConserving'
<1> USE ThreadsAssumption DEF Threads, Adders, jobVars
<1>1. pc \in [Threads -> WorkerLabels \cup ClientLabels \cup DestroyerLabels]
  BY DEF IInv, TypeOK
<1>2. ASSUME Exit PROVE WorkConserving'
  BY <1>2 DEF Exit, WorkConserving, Asleep
<1>3. ASSUME Create, ~ Exit PROVE WorkConserving'
  BY <1>3, SeekingGrows DEF Create, Seeking, Asleep
<1>4. ASSUME NEW w \in Workers, Spawn(w), ~ Exit PROVE WorkConserving'
  BY <1>1, <1>4, SeekingGrows DEF Spawn, Goto, Seeking, Asleep
<1>5. ASSUME NEW w \in Workers,
             WorkerLock(w) \/ WorkerSpurious(w) \/ WorkerRun(w) \/ WorkerFree(w)
      PROVE  WorkConserving'
  <2>1. Seeking \subseteq Seeking' /\ Asleep' \subseteq Asleep
    BY <1>1, <1>5
    DEF WorkerLock, Look, WorkerSpurious, WorkerRun, WorkerFree, Goto, Seeking, Asleep
  <2> QED
    BY <1>5, <2>1, SeekingGrows DEF WorkerLock, WorkerSpurious, WorkerRun, WorkerFree
<1>6. ASSUME NEW w \in Workers, WorkerCheck(w) PROVE WorkConserving'
  <2>1. CASE MustWait
    BY <1>6, <2>1, EmptyConserves DEF WorkerCheck, MustWait
  <2>2. CASE ~ MustWait
    <3>1. Seeking \subseteq Seeking' /\ Asleep' \subseteq Asleep
      BY <1>1, <1>6, <2>2 DEF WorkerCheck, Goto, Seeking, Asleep
    <3> QED
      BY <1>6, <3>1, SeekingGrows DEF WorkerCheck
  <2> QED
    BY <2>1, <2>2
<1>7. ASSUME NEW w \in Workers, WorkerRecheck(w) PROVE WorkConserving'
  <2>1. CASE shutdown
    BY <1>7, <2>1 DEF WorkerRecheck, WorkConserving
  <2>2. CASE ~ shutdown
    <3>1. Seeking \subseteq Seeking' /\ Asleep' \subseteq Asleep
      BY <1>1, <1>7, <2>2 DEF WorkerRecheck, Goto, Seeking, Asleep
    <3> QED
      BY <1>7, <3>1, SeekingGrows DEF WorkerRecheck
  <2> QED
    BY <2>1, <2>2
<1>8. ASSUME NEW w \in Workers, WorkerWait(w) PROVE WorkConserving'
  BY <1>8, EmptyConserves DEF WorkerWait, IInv, WorkerInv
<1>9. ASSUME NEW w \in Workers, WorkerTake(w) PROVE WorkConserving'
  BY <1>9, TakeConserves
<1>10. ASSUME NEW t \in Adders, AddLink(t) PROVE WorkConserving'
  BY <1>10, LinkConserves
<1>11. ASSUME NEW t \in Adders, AddLock(t) PROVE WorkConserving'
  BY <1>1, <1>11, SeekingGrows DEF AddLock, Goto, Seeking, Asleep
<1>12. ASSUME NEW t \in Adders, NEW n \in Works, AddCall(t, n) \/ AddRefuse(t, n)
       PROVE  WorkConserving'
  <2>1. Seeking \subseteq Seeking' /\ Asleep' \subseteq Asleep
    BY <1>1, <1>12 DEF AddCall, AddRefuse, MayAdd, Goto, Seeking, Asleep
  <2> QED
    BY <1>12, <2>1, SeekingGrows DEF AddCall, AddRefuse
<1>13. ASSUME NEW d \in Destroyers, DestroyCall(d) \/ DestroyCheck(d)
       PROVE  WorkConserving'
  <2>1. Seeking \subseteq Seeking' /\ Asleep' \subseteq Asleep
    BY <1>1, <1>13 DEF DestroyCall, DestroyCheck, Goto, Seeking, Asleep
  <2> QED
    BY <1>13, <2>1, SeekingGrows DEF DestroyCall, DestroyCheck
<1>14. ASSUME NEW d \in Destroyers,
              DestroySet(d) \/ DestroyLock(d) \/ DestroyBroadcast(d)
                \/ DestroyJoin(d) \/ DestroyDrain(d) \/ DestroyFree(d)
       PROVE  WorkConserving'
  <2>1. shutdown' = TRUE
    BY <1>14 DEF DestroySet, DestroyLock, DestroyBroadcast, DestroyJoin, DestroyDrain,
                 DestroyFree, IInv, DestroyerInv, TypeOK
  <2> QED
    BY <2>1 DEF WorkConserving
<1>15. CASE UNCHANGED vars
  BY <1>15, SeekingGrows DEF vars, Seeking, Asleep
<1> QED
  BY <1>2, <1>3, <1>4, <1>5, <1>6, <1>7, <1>8, <1>9, <1>10, <1>11, <1>12, <1>13, <1>14, <1>15
  DEF Next, WorkerStep, AddStep, DestroyStep, Finished

\* The work is shared out: as long as a worker sleeps, every waiting job has an
\* awake worker of its own on the way.
THEOREM WorkIsConserved == SafeSpec => []WorkConserving
<1>1. Init => WorkConserving
  BY DEF Init, WorkConserving, Asleep, Threads
<1>2. IInv /\ IInv' /\ WorkConserving /\ [Next]_vars => WorkConserving'
  BY NextConserves
<1> QED
  BY <1>1, <1>2, Invariant, PTL DEF SafeSpec

-----------------------------------------------------------------------------
(* Who holds a list node *)

InQueue(n) == \E i \in DOMAIN queue : queue[i] = n
InWork(n) == \E w \in Workers : work[w] = n
InNode(n) == \E t \in Adders : node[t] = n

\* Each kind of place holds a node at most once, and no two kinds hold the same.
HeldOnce ==
  /\ \A i, j \in DOMAIN queue : queue[i] = queue[j] => i = j
  /\ \A v, w \in Workers : work[v] = work[w] /\ work[v] # None => v = w
  /\ \A t, u \in Adders : node[t] = node[u] /\ node[t] # None => t = u
  /\ \A n \in Works : InQueue(n) => ~ InWork(n) /\ ~ InNode(n)
  /\ \A n \in Works : InWork(n) => ~ InNode(n)

\* What is held is what malloc returned and nobody freed.
HeldIsLive == \A n \in Works : heap[n] = "live" <=> InQueue(n) \/ InWork(n) \/ InNode(n)

\* A thread forgets a node when it hands it on.
HandedOn ==
  /\ \A w \in Workers : work[w] # None => pc[w] \in {"run", "free", "gone"} \cup AddLabels
  /\ \A t \in Adders : node[t] # None => pc[t] \in {"gone"} \cup AddLabels

\* Nobody has malloced before all the workers were started.
NothingEarly == (\E w \in Workers : pc[w] = "unborn") => \A n \in Works : heap[n] = "fresh"

OwnInv == HeldOnce /\ HeldIsLive /\ HandedOn /\ NothingEarly

-----------------------------------------------------------------------------
(* What the refinement of WorkPool needs besides *)

\* A job that has run is freed, or about to be by the worker that ran it.
RanInv ==
  /\ \A n \in ran : heap[n] = "freed" \/ \E w \in Workers : pc[w] = "free" /\ work[w] = n
  /\ \A w \in Workers : pc[w] = "free" => work[w] \in ran

\* shutdown is set by the one call that goes on to free the pool, and no worker
\* is on its way to a job once that call has held the mutex.
SealInv ==
  /\ shutdown => \/ pool = "freed"
                 \/ \E d \in Destroyers : pc[d] \in {"d_lock", "d_broadcast", "d_join", "d_drain"}
  /\ \A d \in Destroyers : pc[d] = "returned" => pool = "freed"
  /\ Sealed => \A w \in Workers : pc[w] # "take"

-----------------------------------------------------------------------------
(* OwnInv is inductive *)

\* The tail of a list has the elements of the list, one place further on.
LEMMA TailFacts ==
  ASSUME NEW S, NEW q \in Seq(S), q # <<>>
  PROVE  /\ \A i \in DOMAIN Tail(q) : i + 1 \in DOMAIN q /\ Tail(q)[i] = q[i + 1]
         /\ \A i \in DOMAIN q : i = 1 \/ (i - 1 \in DOMAIN Tail(q) /\ Tail(q)[i - 1] = q[i])
         /\ 1 \in DOMAIN q /\ Head(q) = q[1] /\ Head(q) \in S
         /\ DOMAIN q \subseteq Nat /\ DOMAIN Tail(q) \subseteq Nat
<1>1. Len(q) \in Nat /\ Len(q) > 0 /\ DOMAIN q = 1..Len(q)
  OBVIOUS
<1>2. Tail(q) \in Seq(S) /\ Len(Tail(q)) = Len(q) - 1 /\ DOMAIN Tail(q) = 1..(Len(q) - 1)
  OBVIOUS
<1>3. \A i \in 1..(Len(q) - 1) : Tail(q)[i] = q[i + 1]
  OBVIOUS
<1>4. Head(q) = q[1] /\ q[1] \in S
  BY <1>1
<1> QED
  BY <1>1, <1>2, <1>3, <1>4

LEMMA InitOwn == Init => OwnInv
  BY ThreadsAssumption
  DEF Init, OwnInv, HeldOnce, HeldIsLive, HandedOn, NothingEarly, InQueue, InWork, InNode,
      Threads, Adders

\* A step that moves threads only.
LEMMA MovesKeepOwn ==
  ASSUME IInv, OwnInv, UNCHANGED jobVars, HandedOn', NothingEarly'
  PROVE  OwnInv'
  BY DEF OwnInv, HeldOnce, HeldIsLive, InQueue, InWork, InNode, jobVars

LEMMA TailHolds ==
  ASSUME NEW S, NEW q \in Seq(S), q # <<>>, \A i, j \in DOMAIN q : q[i] = q[j] => i = j
  PROVE  /\ \A i, j \in DOMAIN Tail(q) : Tail(q)[i] = Tail(q)[j] => i = j
         /\ \A n : (\E i \in DOMAIN Tail(q) : Tail(q)[i] = n)
                     <=> (\E i \in DOMAIN q : q[i] = n) /\ n # Head(q)
         /\ \E i \in DOMAIN q : q[i] = Head(q)
<1> USE TailFacts
<1>1. ASSUME NEW i \in DOMAIN Tail(q), NEW j \in DOMAIN Tail(q), Tail(q)[i] = Tail(q)[j]
      PROVE  i = j
  <2>1. i + 1 = j + 1
    BY <1>1
  <2> QED
    BY <2>1
<1>2. ASSUME NEW i \in DOMAIN Tail(q)
      PROVE  (\E j \in DOMAIN q : q[j] = Tail(q)[i]) /\ Tail(q)[i] # Head(q)
  <2>1. i \in Nat /\ i + 1 \in DOMAIN q /\ Tail(q)[i] = q[i + 1] /\ Head(q) = q[1] /\ 1 \in DOMAIN q
    OBVIOUS
  <2>2. i + 1 # 1
    BY <2>1, TailFacts
  <2> QED
    BY <2>1, <2>2
<1>3. ASSUME NEW i \in DOMAIN q, q[i] # Head(q)
      PROVE  \E j \in DOMAIN Tail(q) : Tail(q)[j] = q[i]
  <2>1. i # 1
    BY <1>3
  <2> QED
    BY <2>1
<1> QED
  BY <1>1, <1>2, <1>3

LEMMA TakeKeepsOwn ==
  ASSUME IInv, OwnInv, NEW w \in Workers, WorkerTake(w)
  PROVE  OwnInv'
<1> USE ThreadsAssumption DEF Threads, Adders
<1>1. /\ queue \in Seq(Works) /\ queue # <<>> /\ queue' = Tail(queue)
      /\ work \in [Workers -> Works \cup {None}]
      /\ work' = [work EXCEPT ![w] = Head(queue)]
      /\ pc[w] = "take" /\ pc' = [pc EXCEPT ![w] = "run"]
      /\ UNCHANGED <<node, heap>>
  BY DEF WorkerTake, Rest, Goto, IInv, TypeOK
<1>2. pc \in [Threads -> WorkerLabels \cup ClientLabels \cup DestroyerLabels]
  BY DEF IInv, TypeOK
<1>3. Head(queue) \in Works
  BY <1>1, TailFacts
<1>4. work[w] = None
  BY <1>1 DEF OwnInv, HandedOn, AddLabels
<1>5. /\ \A i, j \in DOMAIN queue' : queue'[i] = queue'[j] => i = j
      /\ \A n \in Works : InQueue(n)' <=> InQueue(n) /\ n # Head(queue)
      /\ InQueue(Head(queue))
  <2>1. \A i, j \in DOMAIN queue : queue[i] = queue[j] => i = j
    BY DEF OwnInv, HeldOnce
  <2>2. /\ \A i, j \in DOMAIN queue' : queue'[i] = queue'[j] => i = j
        /\ \A n : (\E i \in DOMAIN queue' : queue'[i] = n)
                    <=> (\E i \in DOMAIN queue : queue[i] = n) /\ n # Head(queue)
        /\ \E i \in DOMAIN queue : queue[i] = Head(queue)
    BY <1>1, <2>1, TailHolds
  <2> QED
    BY <2>2 DEF InQueue
<1>6. \A n \in Works : InWork(n)' <=> InWork(n) \/ n = Head(queue)
  BY <1>1, <1>4 DEF InWork
<1>7. \A n \in Works : InNode(n)' <=> InNode(n)
  BY <1>1 DEF InNode
<1>8. HeldOnce'
  <2>1. \A i, j \in DOMAIN queue' : queue'[i] = queue'[j] => i = j
    BY <1>5
  <2>2. \A v, x \in Workers : work'[v] = work'[x] /\ work'[v] # None => v = x
    BY <1>1, <1>3, <1>5 DEF OwnInv, HeldOnce, InWork
  <2>3. \A t, u \in Adders : node'[t] = node'[u] /\ node'[t] # None => t = u
    BY <1>1 DEF OwnInv, HeldOnce
  <2>4. \A n \in Works : InQueue(n)' => ~ InWork(n)' /\ ~ InNode(n)'
    BY <1>5, <1>6, <1>7 DEF OwnInv, HeldOnce
  <2>5. \A n \in Works : InWork(n)' => ~ InNode(n)'
    BY <1>3, <1>5, <1>6, <1>7 DEF OwnInv, HeldOnce
  <2> QED
    BY <2>1, <2>2, <2>3, <2>4, <2>5 DEF HeldOnce, InQueue, InWork, InNode
<1>9. HeldIsLive'
  BY <1>1, <1>3, <1>5, <1>6, <1>7 DEF OwnInv, HeldIsLive
<1>10. HandedOn' /\ NothingEarly'
  BY <1>1, <1>2 DEF OwnInv, HandedOn, NothingEarly, AddLabels
<1> QED
  BY <1>8, <1>9, <1>10 DEF OwnInv

\* The worker's node is freed and forgotten.
LEMMA FreeKeepsOwn ==
  ASSUME IInv, OwnInv, NEW w \in Workers, WorkerFree(w)
  PROVE  OwnInv'
<1> USE ThreadsAssumption DEF Threads, Adders
<1>1. /\ work \in [Workers -> Works \cup {None}] /\ work[w] \in Works
      /\ work' = [work EXCEPT ![w] = None]
      /\ heap \in [Works -> {"fresh", "live", "refused", "freed"}]
      /\ heap' = [heap EXCEPT ![work[w]] = "freed"]
      /\ pc[w] = "free" /\ pc' = [pc EXCEPT ![w] = "lock"]
      /\ UNCHANGED <<queue, node>>
  BY DEF WorkerFree, Goto, IInv, TypeOK, NodeInv
<1>2. pc \in [Threads -> WorkerLabels \cup ClientLabels \cup DestroyerLabels]
  BY DEF IInv, TypeOK
<1>3. /\ \A n \in Works : InQueue(n)' <=> InQueue(n)
      /\ \A n \in Works : InNode(n)' <=> InNode(n)
      /\ \A n \in Works : InWork(n)' <=> InWork(n) /\ n # work[w]
  BY <1>1 DEF InQueue, InNode, InWork, OwnInv, HeldOnce
<1>4. HeldOnce'
  <2>1. \A v, x \in Workers : work'[v] = work'[x] /\ work'[v] # None => v = x
    BY <1>1 DEF OwnInv, HeldOnce
  <2> QED
    BY <1>1, <1>3, <2>1 DEF OwnInv, HeldOnce, InQueue, InNode, InWork
<1>5. HeldIsLive'
  <2>1. InWork(work[w])
    BY <1>1 DEF InWork
  <2> QED
    BY <1>1, <1>3, <2>1 DEF OwnInv, HeldOnce, HeldIsLive
<1>6. HandedOn' /\ NothingEarly'
  <2>1. \A v \in Workers : pc[v] # "unborn"
    BY <1>1 DEF OwnInv, NothingEarly, HeldIsLive, InWork
  <2> QED
    BY <1>1, <1>2, <2>1 DEF OwnInv, HandedOn, NothingEarly, AddLabels
<1> QED
  BY <1>4, <1>5, <1>6 DEF OwnInv

\* malloc hands out a node nobody has.
LEMMA CallKeepsOwn ==
  ASSUME IInv, OwnInv, NEW t \in Adders, NEW n \in Works, AddCall(t, n) \/ AddRefuse(t, n)
  PROVE  OwnInv'
<1> USE ThreadsAssumption DEF Threads, Adders
<1>1. /\ \A w \in Workers : pc[w] # "unborn"
      /\ node[t] = None
  <2>1. CASE t \in Workers /\ pc[t] = "run"
    <3>1. InWork(work[t]) /\ work[t] \in Works
      BY <2>1 DEF IInv, NodeInv, InWork
    <3> QED
      BY <2>1, <3>1 DEF OwnInv, HeldIsLive, HandedOn, NothingEarly, AddLabels
  <2>2. CASE t \in Clients /\ pc[t] = "idle" /\ Created
    BY <2>2 DEF Created, OwnInv, HandedOn, AddLabels
  <2> QED
    BY <2>1, <2>2 DEF AddCall, AddRefuse, MayAdd
<1>2. /\ heap[n] = "fresh" /\ heap \in [Works -> {"fresh", "live", "refused", "freed"}]
      /\ node \in [Adders -> Works \cup {None}]
      /\ pc \in [Threads -> WorkerLabels \cup ClientLabels \cup DestroyerLabels]
      /\ UNCHANGED <<queue, work>>
  BY DEF AddCall, AddRefuse, IInv, TypeOK
<1>3. ~ InQueue(n) /\ ~ InWork(n) /\ ~ InNode(n)
  BY <1>2 DEF OwnInv, HeldIsLive
<1>4. CASE AddRefuse(t, n)
  <2>1. UNCHANGED <<node, pc>> /\ heap' = [heap EXCEPT ![n] = "refused"]
    BY <1>4 DEF AddRefuse
  <2> QED
    BY <1>1, <1>2, <1>3, <2>1
    DEF OwnInv, HeldOnce, HeldIsLive, HandedOn, NothingEarly, InQueue, InWork, InNode
<1>5. CASE AddCall(t, n)
  <2>1. /\ node' = [node EXCEPT ![t] = n] /\ heap' = [heap EXCEPT ![n] = "live"]
        /\ pc' = [pc EXCEPT ![t] = "add_lock"]
    BY <1>5 DEF AddCall, Goto
  <2>2. /\ \A m \in Works : InQueue(m)' <=> InQueue(m)
        /\ \A m \in Works : InWork(m)' <=> InWork(m)
        /\ \A m \in Works : InNode(m)' <=> InNode(m) \/ m = n
    BY <1>1, <1>2, <2>1 DEF InQueue, InWork, InNode
  <2>3. HeldOnce'
    BY <1>1, <1>2, <1>3, <2>1, <2>2 DEF OwnInv, HeldOnce, InQueue, InWork, InNode
  <2>4. HeldIsLive'
    BY <1>2, <1>3, <2>1, <2>2 DEF OwnInv, HeldIsLive
  <2>5. HandedOn' /\ NothingEarly'
    BY <1>1, <1>2, <2>1 DEF OwnInv, HandedOn, NothingEarly, AddLabels
  <2> QED
    BY <2>3, <2>4, <2>5 DEF OwnInv
<1> QED
  BY <1>4, <1>5

\* The node goes from the thread that adds it to the end of the list.
LEMMA LinkKeepsOwn ==
  ASSUME IInv, OwnInv, NEW t \in Adders, AddLink(t)
  PROVE  OwnInv'
<1> USE ThreadsAssumption DEF Threads, Adders
<1>1. /\ queue \in Seq(Works) /\ node \in [Adders -> Works \cup {None}] /\ node[t] \in Works
      /\ queue' = Append(queue, node[t])
      /\ node' = [node EXCEPT ![t] = None]
      /\ UNCHANGED <<work, heap>>
  BY DEF AddLink, Linked, IInv, TypeOK, NodeInv, AddLabels
<1>2. /\ \A i \in DOMAIN queue' :
           \/ i \in DOMAIN queue /\ queue'[i] = queue[i]
           \/ i = Len(queue) + 1 /\ queue'[i] = node[t]
      /\ \A i \in DOMAIN queue : i \in DOMAIN queue' /\ queue'[i] = queue[i]
      /\ Len(queue) + 1 \in DOMAIN queue' /\ queue'[Len(queue) + 1] = node[t]
  BY <1>1
<1>3. InNode(node[t])
  BY DEF InNode
<1>4. /\ \A m \in Works : InQueue(m)' <=> InQueue(m) \/ m = node[t]
      /\ \A m \in Works : InWork(m)' <=> InWork(m)
      /\ \A m \in Works : InNode(m)' <=> InNode(m) /\ m # node[t]
  <2>1. \A m \in Works : InQueue(m)' <=> InQueue(m) \/ m = node[t]
    BY <1>2 DEF InQueue
  <2> QED
    BY <1>1, <2>1 DEF InWork, InNode, OwnInv, HeldOnce
<1>5. HeldOnce'
  <2>1. \A i, j \in DOMAIN queue' : queue'[i] = queue'[j] => i = j
    BY <1>1, <1>2, <1>3 DEF OwnInv, HeldOnce, InQueue
  <2>2. \A v, x \in Adders : node'[v] = node'[x] /\ node'[v] # None => v = x
    BY <1>1 DEF OwnInv, HeldOnce
  <2> QED
    BY <1>1, <1>3, <1>4, <2>1, <2>2 DEF OwnInv, HeldOnce, InQueue, InWork, InNode
<1>6. HeldIsLive'
  BY <1>1, <1>3, <1>4 DEF OwnInv, HeldIsLive
<1>7. \A u \in Threads : /\ u = t => pc'[u] \in {"run", "idle"}
                         /\ u # t => \/ pc'[u] = pc[u]
                                     \/ pc[u] = "asleep" /\ pc'[u] = "woken"
  BY DEF AddLink, Signal, GotoAndWake, Asleep
<1>8. t \in Workers => pc'[t] = "run"
  BY DEF AddLink, Signal, GotoAndWake, Asleep
<1>9. HandedOn' /\ NothingEarly'
  BY <1>1, <1>7, <1>8 DEF OwnInv, HandedOn, NothingEarly, AddLabels
<1> QED
  BY <1>5, <1>6, <1>9 DEF OwnInv

\* When all workers have ended, what waits is freed from the head of the list on.
LEMMA DrainKeepsOwn ==
  ASSUME IInv, OwnInv, NEW d \in Destroyers, DestroyDrain(d)
  PROVE  OwnInv'
<1> USE ThreadsAssumption DEF Threads, Adders
<1>1. /\ queue \in Seq(Works) /\ queue # <<>> /\ queue' = Tail(queue)
      /\ heap \in [Works -> {"fresh", "live", "refused", "freed"}]
      /\ heap' = [heap EXCEPT ![Head(queue)] = "freed"]
      /\ UNCHANGED <<work, node, pc>>
  BY DEF DestroyDrain, IInv, TypeOK
<1>2. Head(queue) \in Works
  BY <1>1, TailFacts
<1>3. /\ \A i, j \in DOMAIN queue' : queue'[i] = queue'[j] => i = j
      /\ \A n \in Works : InQueue(n)' <=> InQueue(n) /\ n # Head(queue)
      /\ InQueue(Head(queue))
  <2>1. \A i, j \in DOMAIN queue : queue[i] = queue[j] => i = j
    BY DEF OwnInv, HeldOnce
  <2>2. /\ \A i, j \in DOMAIN queue' : queue'[i] = queue'[j] => i = j
        /\ \A n : (\E i \in DOMAIN queue' : queue'[i] = n)
                    <=> (\E i \in DOMAIN queue : queue[i] = n) /\ n # Head(queue)
        /\ \E i \in DOMAIN queue : queue[i] = Head(queue)
    BY <1>1, <2>1, TailHolds
  <2> QED
    BY <2>2 DEF InQueue
<1>4. /\ \A n \in Works : InWork(n)' <=> InWork(n)
      /\ \A n \in Works : InNode(n)' <=> InNode(n)
  BY <1>1 DEF InWork, InNode
<1>5. HeldOnce'
  <2>1. \A i, j \in DOMAIN queue' : queue'[i] = queue'[j] => i = j
    BY <1>3
  <2> QED
    BY <1>1, <1>3, <1>4, <2>1 DEF OwnInv, HeldOnce, InQueue, InWork, InNode
<1>6. HeldIsLive'
  BY <1>1, <1>2, <1>3, <1>4 DEF OwnInv, HeldOnce, HeldIsLive
<1>7. HandedOn' /\ NothingEarly'
  <2>1. \A v \in Workers : pc[v] # "unborn"
    BY <1>2, <1>3 DEF OwnInv, NothingEarly, HeldIsLive
  <2> QED
    BY <1>1, <2>1 DEF OwnInv, HandedOn, NothingEarly
<1> QED
  BY <1>5, <1>6, <1>7 DEF OwnInv

LEMMA NextOwn == IInv /\ OwnInv /\ [Next]_vars => OwnInv'
<1> SUFFICES ASSUME IInv, OwnInv, [Next]_vars PROVE OwnInv'
  OBVIOUS
<1>1. ASSUME NEW w \in Workers, WorkerTake(w) PROVE OwnInv'
  BY <1>1, TakeKeepsOwn
<1>2. ASSUME NEW w \in Workers, WorkerFree(w) PROVE OwnInv'
  BY <1>2, FreeKeepsOwn
<1>3. ASSUME NEW t \in Adders, NEW n \in Works, AddCall(t, n) \/ AddRefuse(t, n) PROVE OwnInv'
  BY <1>3, CallKeepsOwn
<1>4. ASSUME NEW t \in Adders, AddLink(t) PROVE OwnInv'
  BY <1>4, LinkKeepsOwn
<1>5. ASSUME NEW d \in Destroyers, DestroyDrain(d) PROVE OwnInv'
  BY <1>5, DrainKeepsOwn
<1> USE ThreadsAssumption
    DEF Threads, Adders, AddLabels, Goto, GotoAndWake, jobVars, HandedOn, NothingEarly
<1>6. /\ pc \in [Threads -> WorkerLabels \cup ClientLabels \cup DestroyerLabels]
      /\ HandedOn /\ NothingEarly
  BY DEF IInv, TypeOK, OwnInv
<1>7. ASSUME NEW w \in Workers,
             \/ WorkerLock(w) \/ WorkerCheck(w) \/ WorkerWait(w) \/ WorkerSpurious(w)
             \/ WorkerRecheck(w)
      PROVE  OwnInv'
  <2>1. HandedOn' /\ NothingEarly'
    BY <1>6, <1>7
    DEF WorkerLock, Look, WorkerCheck, WorkerWait, WorkerSpurious, WorkerRecheck
  <2> QED
    BY <1>7, <2>1, MovesKeepOwn
    DEF WorkerLock, WorkerCheck, WorkerWait, WorkerSpurious, WorkerRecheck
<1>8. ASSUME NEW w \in Workers, WorkerRun(w) PROVE OwnInv'
  <2>1. HandedOn' /\ NothingEarly'
    BY <1>6, <1>8 DEF WorkerRun
  <2> QED
    BY <1>8, <2>1 DEF WorkerRun, OwnInv, HeldOnce, HeldIsLive, InQueue, InWork, InNode
<1>9. ASSUME Create \/ \E w \in Workers : Spawn(w) PROVE OwnInv'
  <2>1. HandedOn' /\ NothingEarly'
    BY <1>6, <1>9 DEF Create, Spawn, Exit
  <2> QED
    BY <1>9, <2>1, MovesKeepOwn DEF Create, Spawn, Exit
<1>10. ASSUME NEW t \in Adders, AddLock(t) PROVE OwnInv'
  <2>1. HandedOn' /\ NothingEarly'
    BY <1>6, <1>10 DEF AddLock
  <2> QED
    BY <1>10, <2>1, MovesKeepOwn DEF AddLock
<1>11. ASSUME NEW d \in Destroyers,
              \/ DestroyCall(d) \/ DestroyCheck(d) \/ DestroySet(d) \/ DestroyLock(d)
              \/ DestroyBroadcast(d) \/ DestroyJoin(d) \/ DestroyFree(d)
       PROVE  OwnInv'
  <2>1. HandedOn' /\ NothingEarly'
    BY <1>6, <1>11
    DEF DestroyCall, DestroyCheck, DestroySet, DestroyLock, DestroyBroadcast, DestroyJoin,
        DestroyFree, Broadcast, Asleep
  <2> QED
    BY <1>11, <2>1, MovesKeepOwn
    DEF DestroyCall, DestroyCheck, DestroySet, DestroyLock, DestroyBroadcast, DestroyJoin,
        DestroyFree
<1>12. CASE UNCHANGED vars
  <2>1. HandedOn' /\ NothingEarly'
    BY <1>6, <1>12 DEF vars
  <2> QED
    BY <1>12, <2>1, MovesKeepOwn DEF vars
<1> QED
  BY <1>1, <1>2, <1>3, <1>4, <1>5, <1>7, <1>8, <1>9, <1>10, <1>11, <1>12
  DEF Next, WorkerStep, AddStep, DestroyStep, Finished

LEMMA OwnInvariant == SafeSpec => []OwnInv
  BY InitOwn, NextOwn, Invariant, PTL DEF SafeSpec

\* Each list node that malloc returned and nobody freed is held in one place,
\* and one that was freed, or never handed out, in none.
THEOREM NodesAreOwned == SafeSpec => []Ownership
<1>1. ASSUME IInv, OwnInv, NEW n \in Works
      PROVE  Cardinality(Holders(n)) = IF heap[n] = "live" THEN 1 ELSE 0
  <2> DEFINE places == {<<"queue", i>> : i \in {j \in DOMAIN queue : queue[j] = n}}
             workers == {<<"work", w>> : w \in {v \in Workers : work[v] = n}}
             adders == {<<"node", t>> : t \in {u \in Adders : node[u] = n}}
  <2>1. Holders(n) = places \cup workers \cup adders
    BY DEF Holders
  <2>2. n # None
    BY ThreadsAssumption
  <2>3. CASE heap[n] # "live"
    <3>1. ~ InQueue(n) /\ ~ InWork(n) /\ ~ InNode(n)
      BY <1>1, <2>3 DEF OwnInv, HeldIsLive
    <3>2. Holders(n) = {}
      BY <2>1, <3>1 DEF InQueue, InWork, InNode
    <3> QED
      BY <2>3, <3>2, FS_EmptySet
  <2>4. CASE heap[n] = "live"
    <3>1. \E p : Holders(n) = {p}
      <4>1. CASE InQueue(n)
        <5>1. PICK i \in DOMAIN queue : queue[i] = n
          BY <4>1 DEF InQueue
        <5>2. {j \in DOMAIN queue : queue[j] = n} = {i}
          BY <1>1, <5>1 DEF OwnInv, HeldOnce
        <5>3. workers = {} /\ adders = {}
          BY <1>1, <4>1 DEF OwnInv, HeldOnce, InWork, InNode
        <5>4. Holders(n) = {<<"queue", i>>}
          BY <2>1, <5>2, <5>3
        <5> QED
          BY <5>4
      <4>2. CASE InWork(n)
        <5>1. PICK w \in Workers : work[w] = n
          BY <4>2 DEF InWork
        <5>2. {v \in Workers : work[v] = n} = {w}
          BY <1>1, <2>2, <5>1 DEF OwnInv, HeldOnce
        <5>3. places = {} /\ adders = {}
          BY <1>1, <4>2 DEF OwnInv, HeldOnce, InQueue, InNode
        <5>4. Holders(n) = {<<"work", w>>}
          BY <2>1, <5>2, <5>3
        <5> QED
          BY <5>4
      <4>3. CASE InNode(n)
        <5>1. PICK t \in Adders : node[t] = n
          BY <4>3 DEF InNode
        <5>2. {u \in Adders : node[u] = n} = {t}
          BY <1>1, <2>2, <5>1 DEF OwnInv, HeldOnce
        <5>3. places = {} /\ workers = {}
          BY <1>1, <4>3 DEF OwnInv, HeldOnce, InQueue, InWork
        <5>4. Holders(n) = {<<"node", t>>}
          BY <2>1, <5>2, <5>3
        <5> QED
          BY <5>4
      <4> QED
        BY <1>1, <2>4, <4>1, <4>2, <4>3 DEF OwnInv, HeldIsLive
    <3> QED
      BY <2>4, <3>1, FS_Singleton
  <2> QED
    BY <2>3, <2>4
<1>2. IInv /\ OwnInv => Ownership
  BY <1>1 DEF Ownership
<1> QED
  BY <1>2, Invariant, OwnInvariant, PTL

-----------------------------------------------------------------------------
(* The pool implements WorkPool *)

LEMMA InitRan == Init => RanInv /\ SealInv
  BY ThreadsAssumption DEF Init, RanInv, SealInv, Sealed, Threads

LEMMA NextRan == IInv /\ OwnInv /\ RanInv /\ [Next]_vars => RanInv'
<1> SUFFICES ASSUME IInv, OwnInv, RanInv, [Next]_vars PROVE RanInv'
  OBVIOUS
<1> USE ThreadsAssumption DEF Threads, Adders, Goto, GotoAndWake, jobVars
<1>1. /\ pc \in [Threads -> WorkerLabels \cup ClientLabels \cup DestroyerLabels]
      /\ heap \in [Works -> {"fresh", "live", "refused", "freed"}]
      /\ work \in [Workers -> Works \cup {None}]
      /\ ran \subseteq Works
  BY DEF IInv, TypeOK
<1>2. ASSUME NEW w \in Workers, WorkerRun(w) PROVE RanInv'
  BY <1>1, <1>2 DEF WorkerRun, RanInv
<1>3. ASSUME NEW w \in Workers, WorkerFree(w) PROVE RanInv'
  BY <1>1, <1>3 DEF WorkerFree, RanInv, OwnInv, HeldOnce, IInv, NodeInv
<1>4. ASSUME NEW w \in Workers, WorkerTake(w) PROVE RanInv'
  BY <1>1, <1>4 DEF WorkerTake, RanInv
<1>5. ASSUME NEW w \in Workers,
             \/ WorkerLock(w) \/ WorkerCheck(w) \/ WorkerWait(w) \/ WorkerSpurious(w)
             \/ WorkerRecheck(w)
      PROVE  RanInv'
  BY <1>1, <1>5 DEF WorkerLock, Look, WorkerCheck, WorkerWait, WorkerSpurious, WorkerRecheck, RanInv
<1>6. ASSUME Create \/ \E w \in Workers : Spawn(w) PROVE RanInv'
  <2>1. CASE Exit
    <3>1. ran = {}
      <4>1. pool = "absent" \/ \E w \in Workers : pc[w] = "unborn"
        BY <1>6, <2>1 DEF Create, Spawn
      <4>2. \E w \in Workers : pc[w] = "unborn"
        BY <4>1 DEF IInv, TypeOK, PoolInv, WorkerLabels, AddLabels
      <4> QED
        BY <1>1, <4>2 DEF RanInv, OwnInv, NothingEarly, HeldIsLive, InWork
    <3> QED
      BY <2>1, <3>1 DEF Exit, RanInv
  <2>2. CASE ~ Exit
    BY <1>1, <1>6, <2>2 DEF Create, Spawn, RanInv
  <2> QED
    BY <2>1, <2>2
<1>7. ASSUME NEW t \in Adders, AddLock(t) \/ AddLink(t) PROVE RanInv'
  BY <1>1, <1>7 DEF AddLock, AddLink, Signal, Asleep, RanInv
<1>8. ASSUME NEW t \in Adders, NEW n \in Works, AddCall(t, n) \/ AddRefuse(t, n) PROVE RanInv'
  BY <1>1, <1>8 DEF AddCall, AddRefuse, MayAdd, RanInv
<1>9. ASSUME NEW d \in Destroyers, DestroyCall(d) \/ DestroyStep(d) PROVE RanInv'
  BY <1>1, <1>9
  DEF DestroyStep, DestroyCall, DestroyCheck, DestroySet, DestroyLock, DestroyBroadcast,
      DestroyJoin, DestroyDrain, DestroyFree, Broadcast, Asleep, RanInv
<1>10. CASE UNCHANGED vars
  BY <1>10 DEF vars, RanInv
<1> QED
  BY <1>2, <1>3, <1>4, <1>5, <1>6, <1>7, <1>8, <1>9, <1>10
  DEF Next, WorkerStep, AddStep, Finished

LEMMA NextSeal == IInv /\ SealInv /\ [Next]_vars => SealInv'
<1> SUFFICES ASSUME IInv, SealInv, [Next]_vars PROVE SealInv'
  OBVIOUS
<1> USE ThreadsAssumption DEF Threads, Adders, Goto, GotoAndWake, jobVars, SealInv, Sealed
<1>1. /\ pc \in [Threads -> WorkerLabels \cup ClientLabels \cup DestroyerLabels]
      /\ \A w \in Workers : pc[w] \in WorkerLabels \cup AddLabels
      /\ \A d \in Destroyers : pc[d] \in DestroyerLabels
  BY DEF IInv, TypeOK
<1>2. ASSUME Create \/ \E w \in Workers : Spawn(w) PROVE SealInv'
  <2>1. CASE Exit
    <3>1. (\E w \in Workers : pc[w] = "unborn") /\ pool # "freed"
      <4>1. \/ pool = "absent"
            \/ pool = "live" /\ \E w \in Workers : pc[w] = "unborn"
        BY <1>2, <2>1 DEF Create, Spawn
      <4> QED
        BY <4>1 DEF IInv, TypeOK, PoolInv, WorkerLabels, AddLabels
    <3>2. \A d \in Destroyers : pc[d] \in {"idle", "gone"}
      BY <3>1 DEF IInv, PoolInv
    <3>3. ~ shutdown
      BY <3>1, <3>2
    <3> QED
      BY <1>1, <2>1, <3>3 DEF Exit
  <2>2. CASE ~ Exit
    BY <1>1, <1>2, <2>2 DEF Create, Spawn, IInv, PoolInv
  <2> QED
    BY <2>1, <2>2
<1>3. ASSUME NEW w \in Workers, WorkerRecheck(w) PROVE SealInv'
  <2>1. Sealed => shutdown
    BY DEF IInv, DestroyerInv, PoolOutlivesThreads, WorkerInv
  <2> QED
    BY <1>1, <1>3, <2>1 DEF WorkerRecheck
<1>4. ASSUME NEW w \in Workers,
             \/ WorkerLock(w) \/ WorkerCheck(w) \/ WorkerWait(w) \/ WorkerSpurious(w)
             \/ WorkerTake(w) \/ WorkerRun(w) \/ WorkerFree(w)
      PROVE  SealInv'
  BY <1>1, <1>4
  DEF WorkerLock, Look, WorkerCheck, WorkerWait, WorkerSpurious, WorkerTake, WorkerRun, WorkerFree
<1>5. ASSUME NEW t \in Adders, AddStep(t) PROVE SealInv'
  BY <1>1, <1>5 DEF AddStep, AddLock, AddLink, Signal, Asleep
<1>6. ASSUME NEW t \in Adders, NEW n \in Works, AddCall(t, n) \/ AddRefuse(t, n) PROVE SealInv'
  BY <1>1, <1>6 DEF AddCall, AddRefuse, MayAdd
<1>7. ASSUME NEW d \in Destroyers, DestroyCall(d) PROVE SealInv'
  BY <1>1, <1>7 DEF DestroyCall
<1>8. ASSUME NEW d \in Destroyers, DestroyCheck(d) PROVE SealInv'
  \* No other call is in progress, so shutdown is not set yet.
  <2>1. ~ shutdown
    BY <1>8 DEF DestroyCheck, IInv, DestroyerInv
  <2> QED
    BY <1>1, <1>8, <2>1 DEF DestroyCheck
<1>9. ASSUME NEW d \in Destroyers, DestroySet(d) PROVE SealInv'
  BY <1>1, <1>9 DEF DestroySet
<1>10. ASSUME NEW d \in Destroyers, DestroyLock(d) PROVE SealInv'
  <2>1. \A w \in Workers : pc[w] # "take"
    BY <1>10 DEF DestroyLock, Acquire, IInv, LockInv, Holding
  <2> QED
    BY <1>1, <1>10, <2>1 DEF DestroyLock
<1>11. ASSUME NEW d \in Destroyers, DestroyBroadcast(d) PROVE SealInv'
  BY <1>1, <1>11 DEF DestroyBroadcast, Broadcast, Asleep
<1>12. ASSUME NEW d \in Destroyers, DestroyJoin(d) \/ DestroyDrain(d) PROVE SealInv'
  BY <1>1, <1>12 DEF DestroyJoin, DestroyDrain
<1>13. ASSUME NEW d \in Destroyers, DestroyFree(d) PROVE SealInv'
  BY <1>1, <1>13 DEF DestroyFree
<1>14. CASE UNCHANGED vars
  BY <1>14 DEF vars
<1> QED
  BY <1>2, <1>3, <1>4, <1>5, <1>6, <1>7, <1>8, <1>9, <1>10, <1>11, <1>12, <1>13, <1>14
  DEF Next, WorkerStep, DestroyStep, Finished

\* The jobs that were thrown away, as the refinement has them.
Dropped == {n \in Works : heap[n] = "freed"} \ ran

\* A step of WorkPool, or none, in terms of what implements it.
PoolStep ==
  \/ UNCHANGED <<queue, Active, ran, Dropped, Sealed>>
  \/ \E n \in Works :
       /\ ~ InQueue(n) /\ n \notin Active \cup ran \cup Dropped
       /\ queue' = Append(queue, n)
       /\ UNCHANGED <<Active, ran, Dropped, Sealed>>
  \/ \E n \in Works :
       /\ n \in Active
       /\ Active' = Active \ {n} /\ ran' = ran \cup {n}
       /\ UNCHANGED <<queue, Dropped, Sealed>>
  \/ /\ ~ Sealed /\ queue # <<>>
     /\ queue' = Tail(queue) /\ Active' = Active \cup {Head(queue)}
     /\ UNCHANGED <<ran, Dropped, Sealed>>
  \/ /\ ~ Sealed /\ Sealed'
     /\ UNCHANGED <<queue, Active, ran, Dropped>>
  \/ /\ Sealed /\ Active = {} /\ queue # <<>>
     /\ queue' = Tail(queue) /\ Dropped' = Dropped \cup {Head(queue)}
     /\ UNCHANGED <<Active, ran, Sealed>>

LEMMA PoolStepIsStep == PoolStep => [WP!Next]_(WP!wpVars)
  BY DEF PoolStep, Dropped, InQueue, WP!Next, WP!wpVars, WP!Submit, WP!Finish, WP!Start, WP!Seal,
         WP!Drop, WP!Pending

\* A step that leaves the list and the nodes alone, and nobody starts or ends a job.
LEMMA QuietSteps ==
  ASSUME UNCHANGED jobVars, Sealed' = Sealed,
         \A w \in Workers : pc'[w] \in {"run"} \cup AddLabels <=> pc[w] \in {"run"} \cup AddLabels
  PROVE  PoolStep
  BY DEF PoolStep, Active, Dropped, jobVars

LEMMA WorkerPoolStep ==
  ASSUME IInv, OwnInv, RanInv, SealInv, NEW w \in Workers, WorkerStep(w) \/ WorkerSpurious(w)
  PROVE  PoolStep
<1> USE ThreadsAssumption DEF Threads, Adders, Goto, jobVars
<1>1. /\ pc \in [Threads -> WorkerLabels \cup ClientLabels \cup DestroyerLabels]
      /\ heap \in [Works -> {"fresh", "live", "refused", "freed"}]
      /\ work \in [Workers -> Works \cup {None}]
      /\ ran \subseteq Works
      /\ queue \in Seq(Works)
  BY DEF IInv, TypeOK
<1>2. UNCHANGED Sealed
  BY <1>1
  DEF Sealed, WorkerStep, WorkerLock, WorkerCheck, WorkerWait, WorkerSpurious, WorkerRecheck,
      WorkerTake, WorkerRun, WorkerFree
<1>3. CASE \/ WorkerLock(w) \/ WorkerCheck(w) \/ WorkerWait(w) \/ WorkerSpurious(w)
           \/ WorkerRecheck(w)
  <2>1. /\ UNCHANGED jobVars
        /\ \A v \in Workers :
             pc'[v] \in {"run"} \cup AddLabels <=> pc[v] \in {"run"} \cup AddLabels
    BY <1>1, <1>3
    DEF WorkerLock, Look, WorkerCheck, WorkerWait, WorkerSpurious, WorkerRecheck, AddLabels
  <2> QED
    BY <1>2, <2>1, QuietSteps
<1>4. CASE WorkerTake(w)
  <2>1. /\ pc[w] = "take" /\ pc' = [pc EXCEPT ![w] = "run"]
        /\ work' = [work EXCEPT ![w] = Head(queue)]
        /\ queue # <<>> /\ queue' = Tail(queue)
        /\ UNCHANGED <<ran, heap>>
    BY <1>4 DEF WorkerTake, Rest
  <2>2. ~ Sealed
    BY <2>1 DEF SealInv
  <2>3. Active' = Active \cup {Head(queue)}
    BY <1>1, <2>1 DEF Active, AddLabels
  <2> QED
    BY <1>2, <2>1, <2>2, <2>3 DEF PoolStep, Dropped
<1>5. CASE WorkerRun(w)
  <2>1. /\ pc[w] = "run" /\ pc' = [pc EXCEPT ![w] = "free"] /\ work[w] \in Works
        /\ ran' = ran \cup {work[w]}
        /\ UNCHANGED <<queue, work, heap>>
    BY <1>5 DEF WorkerRun, IInv, NodeInv
  <2>2. work[w] \in Active
    BY <2>1 DEF Active
  <2>3. Active' = Active \ {work[w]}
    <3>1. \A v \in Workers : v # w /\ pc[v] \in {"run"} \cup AddLabels => work[v] # work[w]
      BY <2>1 DEF IInv, NodeInv, OwnInv, HeldOnce
    <3>2. \A v \in Workers : v # w => pc'[v] = pc[v]
      BY <1>1, <2>1
    <3>3. pc'[w] = "free"
      BY <1>1, <2>1
    <3> QED
      BY <2>1, <3>1, <3>2, <3>3 DEF Active, AddLabels
  <2>4. UNCHANGED Dropped
    <3>1. heap[work[w]] = "live"
      BY <2>1 DEF OwnInv, HeldIsLive, InWork
    <3> QED
      BY <2>1, <3>1 DEF Dropped
  <2> QED
    BY <1>2, <2>1, <2>2, <2>3, <2>4 DEF PoolStep
<1>6. CASE WorkerFree(w)
  <2>1. /\ pc[w] = "free" /\ pc' = [pc EXCEPT ![w] = "lock"] /\ work[w] \in ran
        /\ heap' = [heap EXCEPT ![work[w]] = "freed"]
        /\ work' = [work EXCEPT ![w] = None]
        /\ UNCHANGED <<queue, ran>>
    BY <1>6 DEF WorkerFree, RanInv
  <2>2. UNCHANGED Active
    BY <1>1, <2>1 DEF Active, AddLabels
  <2>3. UNCHANGED Dropped
    BY <1>1, <2>1 DEF Dropped
  <2> QED
    BY <1>2, <2>1, <2>2, <2>3 DEF PoolStep
<1> QED
  BY <1>3, <1>4, <1>5, <1>6 DEF WorkerStep

LEMMA AdderPoolStep ==
  ASSUME IInv, OwnInv, RanInv, NEW t \in Adders,
         AddStep(t) \/ \E n \in Works : AddCall(t, n) \/ AddRefuse(t, n)
  PROVE  PoolStep
<1> USE ThreadsAssumption DEF Threads, Adders, Goto, jobVars
<1>1. /\ pc \in [Threads -> WorkerLabels \cup ClientLabels \cup DestroyerLabels]
      /\ heap \in [Works -> {"fresh", "live", "refused", "freed"}]
      /\ node \in [Adders -> Works \cup {None}]
  BY DEF IInv, TypeOK
<1>2. CASE AddLock(t)
  <2>1. /\ UNCHANGED jobVars /\ UNCHANGED Sealed
        /\ \A v \in Workers :
             pc'[v] \in {"run"} \cup AddLabels <=> pc[v] \in {"run"} \cup AddLabels
    BY <1>1, <1>2 DEF AddLock, AddLabels, Sealed
  <2> QED
    BY <2>1, QuietSteps
<1>3. ASSUME NEW n \in Works, AddCall(t, n) \/ AddRefuse(t, n) PROVE PoolStep
  <2>1. /\ UNCHANGED <<queue, work, ran, Dropped, Sealed>>
        /\ \A v \in Workers :
             pc'[v] \in {"run"} \cup AddLabels <=> pc[v] \in {"run"} \cup AddLabels
    BY <1>1, <1>3 DEF AddCall, AddRefuse, MayAdd, AddLabels, Sealed, Dropped
  <2>2. UNCHANGED Active
    BY <2>1 DEF Active
  <2> QED
    BY <2>1, <2>2 DEF PoolStep
<1>4. CASE AddLink(t)
  <2>1. /\ node[t] \in Works /\ InNode(node[t])
        /\ queue' = Append(queue, node[t])
        /\ UNCHANGED <<work, heap, ran>>
    BY <1>4 DEF AddLink, Linked, IInv, NodeInv, AddLabels, InNode
  <2>2. /\ \A u \in Threads : u # t => \/ pc'[u] = pc[u]
                                       \/ u \in Workers /\ pc[u] = "asleep" /\ pc'[u] = "woken"
        /\ pc[t] = "add_link" /\ (t \in Workers => pc'[t] = "run")
    BY <1>4 DEF AddLink, Signal, GotoAndWake, Asleep
  <2>3. UNCHANGED Active
    BY <2>1, <2>2 DEF Active, AddLabels
  <2>4. UNCHANGED Sealed
    <3>1. \A d \in Destroyers : pc'[d] = pc[d]
      BY <2>2
    <3> QED
      BY <3>1 DEF Sealed
  <2>5. ~ InQueue(node[t]) /\ ~ InWork(node[t]) /\ heap[node[t]] = "live"
    BY <2>1 DEF OwnInv, HeldOnce, HeldIsLive
  <2>6. node[t] \notin Active \cup ran \cup Dropped
    BY <2>5 DEF Active, InWork, RanInv, Dropped
  <2> QED
    BY <2>1, <2>3, <2>4, <2>5, <2>6 DEF PoolStep, Dropped
<1> QED
  BY <1>2, <1>3, <1>4 DEF AddStep

LEMMA DestroyerPoolStep ==
  ASSUME IInv, OwnInv, RanInv, SealInv, NEW d \in Destroyers, DestroyCall(d) \/ DestroyStep(d)
  PROVE  PoolStep
<1> USE ThreadsAssumption DEF Threads, Adders, Goto, GotoAndWake, jobVars
<1>1. /\ pc \in [Threads -> WorkerLabels \cup ClientLabels \cup DestroyerLabels]
      /\ heap \in [Works -> {"fresh", "live", "refused", "freed"}]
      /\ queue \in Seq(Works)
  BY DEF IInv, TypeOK
<1>2. \A v \in Workers : pc'[v] \in {"run"} \cup AddLabels <=> pc[v] \in {"run"} \cup AddLabels
  BY <1>1
  DEF DestroyStep, DestroyCall, DestroyCheck, DestroySet, DestroyLock, DestroyBroadcast, Broadcast,
      Asleep, DestroyJoin, DestroyDrain, DestroyFree, AddLabels
<1>3. CASE \/ DestroyCall(d) \/ DestroySet(d) \/ DestroyBroadcast(d)
           \/ DestroyJoin(d) \/ DestroyFree(d)
  <2>1. UNCHANGED Sealed /\ UNCHANGED jobVars
    BY <1>1, <1>3
    DEF DestroyCall, DestroySet, DestroyBroadcast, Broadcast, Asleep, DestroyJoin, DestroyFree,
        Sealed
  <2> QED
    BY <1>2, <2>1, QuietSteps
<1>4. CASE DestroyCheck(d)
  <2>1. ~ shutdown
    BY <1>4 DEF DestroyCheck, IInv, DestroyerInv, SealInv
  <2>2. UNCHANGED Sealed /\ UNCHANGED jobVars
    BY <1>1, <1>4, <2>1 DEF DestroyCheck, Sealed
  <2> QED
    BY <1>2, <2>2, QuietSteps
<1>5. CASE DestroyLock(d)
  <2>1. ~ Sealed
    BY <1>5 DEF DestroyLock, IInv, DestroyerInv, SealInv, Sealed
  <2>2. Sealed' /\ UNCHANGED jobVars
    BY <1>1, <1>5 DEF DestroyLock, Sealed
  <2>3. UNCHANGED <<Active, Dropped>>
    BY <1>2, <2>2 DEF Active, Dropped
  <2> QED
    BY <2>1, <2>2, <2>3 DEF PoolStep
<1>6. CASE DestroyDrain(d)
  <2>1. /\ pc[d] = "d_drain" /\ queue # <<>> /\ queue' = Tail(queue)
        /\ heap' = [heap EXCEPT ![Head(queue)] = "freed"]
        /\ UNCHANGED <<pc, work, ran>>
    BY <1>6 DEF DestroyDrain
  <2>2. Sealed /\ UNCHANGED Sealed
    BY <2>1 DEF Sealed
  <2>3. \A w \in Workers : pc[w] = "exited"
    BY <2>1 DEF IInv, DestroyerInv, AllJoined
  <2>4. Active = {} /\ UNCHANGED Active
    BY <2>1, <2>3 DEF Active, AddLabels
  <2>5. Head(queue) \in Works /\ Head(queue) \notin ran
    <3>1. Head(queue) \in Works /\ InQueue(Head(queue))
      BY <1>1, <2>1, TailFacts DEF InQueue
    <3> QED
      BY <2>3, <3>1 DEF OwnInv, HeldIsLive, RanInv
  <2>6. Dropped' = Dropped \cup {Head(queue)}
    BY <1>1, <2>1, <2>5 DEF Dropped
  <2> QED
    BY <2>1, <2>2, <2>4, <2>6 DEF PoolStep
<1> QED
  BY <1>3, <1>4, <1>5, <1>6 DEF DestroyStep

LEMMA CreatePoolStep ==
  ASSUME IInv, OwnInv, SealInv, Create \/ \E w \in Workers : Spawn(w)
  PROVE  PoolStep
<1> USE ThreadsAssumption DEF Threads, Adders, Goto, jobVars
<1>1. /\ pc \in [Threads -> WorkerLabels \cup ClientLabels \cup DestroyerLabels]
      /\ \E w \in Workers : pc[w] = "unborn"
  <2>1. pool = "absent" \/ \E w \in Workers : pc[w] = "unborn"
    BY DEF Create, Spawn
  <2> QED
    BY <2>1 DEF IInv, TypeOK, PoolInv, WorkerLabels, AddLabels
<1>2. \A v \in Workers : pc[v] \notin {"run"} \cup AddLabels
  BY <1>1 DEF IInv, NodeInv, OwnInv, NothingEarly, HeldIsLive, InWork
<1>3. \A v \in Workers : pc'[v] \notin {"run"} \cup AddLabels
  BY <1>1, <1>2 DEF Create, Spawn, Exit, AddLabels
<1>4. UNCHANGED Sealed /\ UNCHANGED jobVars
  <2>1. \A d \in Destroyers : pc[d] \in {"idle", "gone"}
    BY <1>1 DEF IInv, PoolInv
  <2>2. \A d \in Destroyers : pc'[d] \in {"idle", "gone"}
    BY <1>1, <2>1 DEF Create, Spawn, Exit
  <2> QED
    BY <2>1, <2>2 DEF Sealed, Create, Spawn, Exit
<1> QED
  BY <1>2, <1>3, <1>4, QuietSteps

LEMMA NextPoolStep == IInv /\ OwnInv /\ RanInv /\ SealInv /\ [Next]_vars => PoolStep
<1> SUFFICES ASSUME IInv, OwnInv, RanInv, SealInv, [Next]_vars PROVE PoolStep
  OBVIOUS
<1>1. CASE UNCHANGED vars
  BY <1>1 DEF vars, jobVars, PoolStep, Active, Dropped, Sealed
<1> QED
  BY <1>1, CreatePoolStep, WorkerPoolStep, AdderPoolStep, DestroyerPoolStep
  DEF Next, Finished

\* The threads, the mutex and the condition variable implement WorkPool, the
\* promise of the pool: jobs start in order and once, none after the seal.
THEOREM Implements == Spec => ImplementsWorkPool
<1>1. Init => WP!Init
  BY DEF Init, WP!Init, Active, Sealed, Threads, AddLabels
<1>2. IInv /\ OwnInv /\ RanInv /\ SealInv /\ [Next]_vars => [WP!Next]_(WP!wpVars)
  BY NextPoolStep, PoolStepIsStep
<1> QED
  BY <1>1, <1>2, InitRan, NextRan, NextSeal, Invariant, OwnInvariant, PTL
  DEF Spec, SafeSpec, ImplementsWorkPool, WP!Spec
=============================================================================
