----------------------------- MODULE MCHttpConn -----------------------------
(* Requests for TLC: one that is plain, and those that differ from it in at  *)
(* most two pieces.                                                          *)
EXTENDS HttpConn

CONSTANTS Differing  \* in how many pieces

Crlf == <<"CR", "LF">>
Plain == [key |-> <<"x">>, colon |-> <<":">>, value |-> <<"x">>, end |-> Crlf]

Saying(name, value) == [Plain EXCEPT !.key = name, !.value = value]

Pieces ==
  [blank   |-> {<<>>, Crlf} \cup {[i \in 1..n |-> "LF"] : n \in {9, 16, 18}},
   method  |-> {<<"G", "E", "T">>, <<"P", "O", "S", "T">>, <<"G", "E", "x">>, <<"G", "~", "T", "_">>,
               <<"_">>, <<"G", "0">>},
   gap     |-> {<<"SP">>, <<"SP", "SP">>},
   uri     |-> {<<"/">>, <<"/", "x", "/">>, <<"x">>},
   proto   |-> {<<"H", "T", "T", "P", "/">>, <<"H", "T", "P", "/">>},
   major   |-> {<<"1">>, <<"1", "1">>, <<"0">>},
   minor   |-> {<<"0">>, <<"1", "0">>, <<>>},
   end     |-> {Crlf, <<"LF">>, <<"SP", "CR", "LF">>, <<"CR", "x">>},
   headers |-> {<<Plain>>, <<>>, <<Plain, Plain>>}
                 \cup {<<[Plain EXCEPT !.colon = <<"SP", ":", "SP">>]>>,
                       <<[Plain EXCEPT !.colon = <<"SP", "x", ":">>]>>,
                       <<[Plain EXCEPT !.end = <<"LF">>], Plain>>,
                       <<[Plain EXCEPT !.end = <<"CR", "x">>]>>,
                       <<[Plain EXCEPT !.key = <<"H", "x">>], Plain>>}
                 \cup {<<Saying(Connection, KeepAlive), Plain>>,
                       <<Saying(IfModifiedSince, <<"D">>), Saying(Host, KeepAlive)>>,
                       <<Saying(<<"O">>, <<"A", "x">>)>>}]

Base ==
  [blank |-> <<>>, method |-> <<"G", "E", "T">>, gap |-> <<"SP">>, uri |-> <<"/">>,
   proto |-> <<"H", "T", "T", "P", "/">>, major |-> <<"1">>, minor |-> <<"0">>,
   end |-> Crlf, headers |-> <<Plain>>]

\* The requests that differ from a in at most n pieces.
RECURSIVE Near(_, _)
Near(a, n) ==
  IF n = 0 THEN {a}
  ELSE UNION {Near([a EXCEPT ![f] = v], n - 1) : <<f, v>> \in
                UNION {{f} \X Pieces[f] : f \in DOMAIN Pieces}}

SomeRequests == Near(Base, Differing)
Garbage == {None, 0}
AnyMethod == {None, "SGX_HTTP_GET"}

\* Short stand-ins for the strings of http_request.c.
HostText == <<"H", "O">>
ConnectionText == <<"O", "E">>
IfModifiedText == <<"S">>
KeepAliveText == <<"A", "E">>
DateTexts == {<<"D">>, <<"A", "D">>}
=============================================================================
