---------------------------- MODULE MCThreadPool ----------------------------
(* Small instances of the thread pool for TLC. *)
EXTENDS ThreadPool, TLC

CONSTANTS w1, w2, w3, c1, c2, d1, n1, n2, n3

ThreeWorkers == {w1, w2, w3}
TwoClients == {c1, c2}
OneDestroyer == {d1}
ThreeWorks == {n1, n2, n3}
=============================================================================
