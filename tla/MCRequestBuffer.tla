-------------------------- MODULE MCRequestBuffer ---------------------------
(* A small request buffer for TLC. *)
EXTENDS RequestBuffer, TLC

TwoBytes == {"a", "b"}
=============================================================================
