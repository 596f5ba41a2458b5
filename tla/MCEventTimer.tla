---------------------------- MODULE MCEventTimer ----------------------------
(* Small instances of the timers for TLC. *)
EXTENDS EventTimer, TLC

CONSTANTS r1, r2, t1, t2, t3

TwoRequests == {r1, r2}
ThreeTimers == {t1, t2, t3}
TwoTimeouts == {1, 3}
BothOutcomes == {"abort", "ignore"}
=============================================================================
