------------------------------ MODULE ByteFifo ------------------------------
(***************************************************************************)
(* What the request buffer of src/http/http.c promises the parser: bytes   *)
(* come out in the order they came in, none is lost, repeated or changed,  *)
(* and at most Capacity of them are waiting.                               *)
(***************************************************************************)
EXTENDS Naturals, Sequences

CONSTANTS Bytes, Capacity

VARIABLE unread

Init == unread = <<>>

Put ==
  \E n \in 1..(Capacity - Len(unread)) : \E data \in [1..n -> Bytes] :
    unread' = unread \o data

Take ==
  \E n \in 0..Len(unread) : unread' = SubSeq(unread, n + 1, Len(unread))

Next == Put \/ Take

Spec == Init /\ [][Next]_unread
=============================================================================
