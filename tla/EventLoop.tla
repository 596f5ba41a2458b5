------------------------------ MODULE EventLoop ------------------------------
(***************************************************************************)
(* The event loop of main in src/core/sgx_rush.c, with the timers of       *)
(* EventTimer.  The only descriptor that is ever in the epoll set is the   *)
(* listening socket, edge-triggered: line 126 passes the new request for   *)
(* the epoll descriptor, which fails and is only logged, so an accepted    *)
(* connection is never heard of again and stays open.  Line 127 arms the   *)
(* timer of an accepted connection on the request of the listening socket, *)
(* whose handler closes that socket and frees that request: the second of  *)
(* them is given a freed request, the phase "wild" of EventTimer.          *)
(***************************************************************************)
EXTENDS EventTimer

CONSTANTS listener,            \* the request of the listening socket
          SGX_TIMEOUT_DEFAULT,
          MaxArrivals,         \* bound: so many connections come
          MaxOpen,             \* so many can be open
          ReturnKept           \* whether sgx_epool_wait returns num, having no return

ASSUME LoopAssumption ==
  /\ listener \in Requests
  /\ SGX_TIMEOUT_DEFAULT \in Nat
  /\ MaxArrivals \in Nat /\ MaxOpen \in Nat
  /\ ReturnKept \subseteq BOOLEAN

VARIABLES
  backlog,  \* how many connections wait to be accepted
  edge,     \* epoll has an event of the listening socket to report
  arrived,  \* how many connections came
  open,     \* how many were accepted
  stuck     \* history: none came since an error of accept, or since an event was lost

loopVars == <<backlog, edge, arrived, open, stuck>>
allVars == <<vars, loopVars>>

LoopInit ==
  /\ Init
  /\ backlog = 0 /\ arrived = 0 /\ open = 0
  /\ edge = FALSE /\ stuck = FALSE

\* A peer connects: whatever waits already, this is an edge.
Arrive ==
  /\ alive[listener]
  /\ arrived < MaxArrivals
  /\ arrived' = arrived + 1
  /\ backlog' = backlog + 1
  /\ edge' = TRUE
  /\ stuck' = FALSE
  /\ UNCHANGED <<vars, open>>

-----------------------------------------------------------------------------
TimerStep(step) == step /\ UNCHANGED loopVars

Timeout == ~ edge /\ TimerStep(WaitTimeout)

\* sgx_epool_wait has no return statement: what its caller takes for the
\* number of events is num, or nothing.
Wait ==
  /\ edge
  /\ edge' = FALSE
  /\ \E kept \in ReturnKept : EndWait(kept) /\ stuck' = (stuck \/ ~ kept)
  /\ UNCHANGED <<backlog, arrived, open>>

\* The handler closes the listening socket; those who wait there are reset.
CloseListener ==
  /\ ExpireCall
  /\ backlog' = 0
  /\ edge' = FALSE
  /\ UNCHANGED <<arrived, open, stuck>>

\* A second timer: its handler closes and frees what is freed.
CloseFreed == TimerStep(ExpireFreed)

-----------------------------------------------------------------------------
(* The events *)

\* The event was returned before the timers were handled.
ReadFreed == pc = "events" /\ ready /\ ~ alive[listener] /\ TimerStep(Wild /\ UNCHANGED fires)

LoopTo(next) ==
  pc' = next /\ ready' = FALSE /\ UNCHANGED <<now, del, alive, until, fires>>

StartAccepting ==
  /\ pc = "events" /\ ready /\ alive[listener]
  /\ LoopTo("accept")
  /\ UNCHANGED <<queue, nodeVars, loopVars>>

\* An event that came meanwhile is reported only if somebody waits.
StillWaiting == edge /\ backlog' > 0

AcceptThen(next) ==
  /\ pc = "accept"
  /\ backlog > 0 /\ open < MaxOpen
  /\ backlog' = backlog - 1
  /\ open' = open + 1
  /\ edge' = StillWaiting
  /\ TimerAdd(listener, SGX_TIMEOUT_DEFAULT)
  /\ LoopTo(next)
  /\ UNCHANGED <<arrived, stuck>>

\* Bug: one connection is accepted for each event.
AcceptOne == AcceptThen("events")

Accept == AcceptThen("accept")

AcceptAgain ==
  /\ pc = "accept"
  /\ backlog = 0
  /\ LoopTo("events")
  /\ UNCHANGED <<queue, nodeVars, loopVars>>

\* Bug: `continue' where line 112 has `break'.
AcceptRetries ==
  /\ pc = "accept"
  /\ backlog > 0 /\ open = MaxOpen
  /\ UNCHANGED allVars

\* No descriptor is left, or the connection that waited first has failed.
AcceptFails ==
  /\ pc = "accept"
  /\ backlog > 0
  /\ backlog' = IF open = MaxOpen THEN backlog ELSE backlog - 1
  /\ edge' = StillWaiting
  /\ stuck' = TRUE
  /\ LoopTo("events")
  /\ UNCHANGED <<queue, nodeVars, arrived, open>>

Handled == ~ ready /\ TimerStep(EventsDone)

Turn ==
  \/ TimerStep(FindStep)
  \/ Timeout \/ Wait
  \/ TimerStep(ExpireDeleted \/ ExpireDone \/ ExpirePop)
  \/ CloseListener \/ CloseFreed
  \/ ReadFreed \/ StartAccepting
  \/ Accept \/ AcceptAgain \/ AcceptFails
  \/ Handled

LoopNext == Arrive \/ TimerStep(Tick) \/ Turn

(***************************************************************************)
(* Fairness: time passes and the loop goes on; nobody need connect.        *)
(***************************************************************************)
LoopSpec ==
  LoopInit /\ [][LoopNext]_allVars /\ WF_allVars(TimerStep(Tick)) /\ WF_allVars(Turn)

-----------------------------------------------------------------------------
(* Properties *)

\* While a connection waits, the loop still has an edge to see or is on its way to
\* accept, unless accept failed or the event was lost after the last one came: the
\* edge-triggered socket is drained at every event.
Announced ==
  alive[listener] /\ backlog > 0 => edge \/ ready \/ pc = "accept" \/ stuck

\* Who waits is accepted in the end, or the socket is closed, except after an
\* error of accept, which a loop that is not told again does not get over.
ConnectionsAccepted == backlog > 0 ~> backlog = 0 \/ stuck \/ pc = "aborted"

\* Closing a socket takes it out of all epoll sets (http_request.c:85), so that no
\* event is handled whose request was freed with it.
EventsOfLiveRequests == pc = "events" /\ ready => alive[listener]
=============================================================================
