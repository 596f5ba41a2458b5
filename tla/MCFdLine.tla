------------------------------ MODULE MCFdLine -------------------------------
(* Requests of a request line and up to two headers, for a buffer of seven. *)
EXTENDS FdLine

Xs(n) == [k \in 1..n |-> "x"]

\* The size less one is six: lines shorter, as long, cut once, and cut to nothing.
FirstLines == {<<>>, <<"LF">>, Xs(6), Xs(7), Append(Xs(6), "LF")}
Headers ==
  {Xs(1), Xs(5), Xs(6), Xs(8), Xs(12), <<"LF">>, Append(Xs(6), "LF"),
   <<"C", ":">>, <<"C", ":", "1">>, <<"C", ":", "SP", "1">>, <<"C", ":", "SP", "0", "1">>,
   <<"C", ":", "0", "1", "1">>}

SomeRequests ==
  [lines : {<<l>> \o hs : l \in FirstLines, hs \in {<<>>} \cup {<<h>> : h \in Headers}
                                                    \cup {<<g, h>> : g, h \in Headers}},
   body : {<<"x", "CR">>}]

AllBytes == {"x", "C", ":", "0", "1", "SP", "CR", "LF", "NUL"}

LengthName == <<"C", ":">>
=============================================================================
