---------------------------- MODULE MCEventLoop -----------------------------
(* A small instance of the event loop for TLC. *)
EXTENDS EventLoop

CONSTANTS t1, t2, t3

Listener == {listener}
ThreeTimers == {t1, t2, t3}
OneTimeout == {SGX_TIMEOUT_DEFAULT}
=============================================================================
