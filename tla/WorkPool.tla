------------------------------ MODULE WorkPool ------------------------------
(***************************************************************************)
(* What the thread pool of src/test/sgx_thread_pool.c promises its users,  *)
(* with no threads, lock or condition variable in sight.  A job that is    *)
(* submitted waits in order; jobs start in the order they were submitted,  *)
(* each at most once; destroying the pool seals it, after which no job     *)
(* starts, the running ones finish, and the waiting ones are then dropped. *)
(***************************************************************************)
EXTENDS Sequences

CONSTANT Jobs

VARIABLES pending,  \* the jobs submitted and not yet started, in order
          active,   \* the jobs whose routine is running
          done,     \* the jobs whose routine has returned
          dropped,  \* the jobs thrown away by the destruction of the pool
          sealed    \* no job starts any more

wpVars == <<pending, active, done, dropped, sealed>>

Pending == {pending[i] : i \in DOMAIN pending}

Init ==
  /\ pending = <<>>
  /\ active = {}
  /\ done = {}
  /\ dropped = {}
  /\ sealed = FALSE

Submit(j) ==
  /\ j \notin Pending \cup active \cup done \cup dropped
  /\ pending' = Append(pending, j)
  /\ UNCHANGED <<active, done, dropped, sealed>>

Start ==
  /\ ~ sealed
  /\ pending # <<>>
  /\ pending' = Tail(pending)
  /\ active' = active \cup {Head(pending)}
  /\ UNCHANGED <<done, dropped, sealed>>

Finish(j) ==
  /\ j \in active
  /\ active' = active \ {j}
  /\ done' = done \cup {j}
  /\ UNCHANGED <<pending, dropped, sealed>>

Seal ==
  /\ ~ sealed
  /\ sealed' = TRUE
  /\ UNCHANGED <<pending, active, done, dropped>>

Drop ==
  /\ sealed
  /\ active = {}
  /\ pending # <<>>
  /\ pending' = Tail(pending)
  /\ dropped' = dropped \cup {Head(pending)}
  /\ UNCHANGED <<active, done, sealed>>

Next ==
  \/ \E j \in Jobs : Submit(j) \/ Finish(j)
  \/ Start
  \/ Seal
  \/ Drop

Spec == Init /\ [][Next]_wpVars
=============================================================================
