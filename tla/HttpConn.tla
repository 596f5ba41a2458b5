------------------------------ MODULE HttpConn ------------------------------
(***************************************************************************)
(* A connection: the peer sends one request, sgx_request_run reads it into *)
(* the ring of RequestBuffer in whatever pieces it comes, and the parsers  *)
(* of HttpParse are called on what is there, the request line first and,   *)
(* once it has returned SGX_OK, the headers.  After SGX_AGAIN the same     *)
(* parser is called again when more has been read.  The source does not    *)
(* have this caller yet: these rules are what the names and return codes   *)
(* of the parsers ask of it.  When the headers are complete their handlers *)
(* are called, one header a step.                                          *)
(***************************************************************************)
EXTENDS RequestBuffer, HttpRequests, HttpHandlers

CONSTANTS Requests,       \* the requests peers send
          ShiftOutcomes,  \* what c >> 'Z' can be
          MethodsLeft,    \* what malloc can leave in request->method
          RequestEnds,    \* and in request->request_end
          FreedNext       \* whether pos->next can be read when pos was freed

ASSUME ConnAssumption ==
  /\ ShiftOutcomes \subseteq BOOLEAN
  /\ FreedNext \subseteq BOOLEAN
  /\ ByteClasses \subseteq Bytes
  /\ Requests \subseteq RequestType
  /\ \A a \in Requests : Len(Text(a)) <= MaxBytes

\* The names and values of http_request.c are strings, and `Connection' is not the
\* beginning of the name that sgx_http_headers_in has before it.
ASSUME NamesAssumption ==
  /\ {Host, Connection, IfModifiedSince, KeepAlive} \cup Dates \subseteq Seq(Bytes)
  /\ ~ IsPrefix(Connection, Host)

VARIABLES
  request,  \* the fields of the request the parsers write
  phase,    \* which parser is next, or how parsing and handling have ended
  out,      \* what the handlers of the headers set
  asked,    \* the request the peer sends
  shifted   \* whether c >> 'Z' is not zero in this build

connVars == <<vars, request, phase, out, asked, shifted>>

ConnInit ==
  /\ Init
  /\ request \in {NewRequest(method, end) : method \in MethodsLeft, end \in RequestEnds}
  /\ phase = "line"
  /\ out = NewOut
  /\ asked \in Requests
  /\ shifted \in ShiftOutcomes

-----------------------------------------------------------------------------
ReadStep(step) == step /\ UNCHANGED <<request, phase, out, asked, shifted>>

Readable == phase \in {"line", "headers"} /\ ReadStep(Run)

Receive(n) == ReadStep(Read(SubSeq(Text(asked), last + 1, last + n)))

Received == ReadStep(ReadAgain)

ReadStops == ReadStep(ReadNothing \/ ReadEnd \/ ReadFails)

\* A call of a parser has left the request as r; next is what SGX_OK leads to.
Parsed(r, next) ==
  /\ pc = "idle"
  /\ pos' = r.pos
  /\ request' = r
  /\ phase' = CASE r.rc = "SGX_AGAIN" -> phase
                [] r.rc = "SGX_OK" -> next
                [] OTHER -> "refused"
  /\ UNCHANGED <<buf, last, pc, finish, sent, out, asked, shifted>>

ParseLine ==
  /\ phase = "line"
  /\ Parsed(sgx_http_parse_request_line(request, buf, pos, last, shifted), "headers")

ParseHeaders ==
  /\ phase = "headers"
  /\ Parsed(sgx_http_parse_request_body(request, buf, pos, last), "done")

(***************************************************************************)
(* One turn of the loop of sgx_http_handle_header.  It reads pos->next in  *)
(* the header it has just freed: what it finds is the next header as long  *)
(* as free leaves that part of it alone, and otherwise anything.           *)
(***************************************************************************)
HandleHeader ==
  /\ phase \in {"done", "handling"}
  /\ request.list # <<>>
  /\ \E readable \in FreedNext : phase' = IF readable THEN "handling" ELSE "wild"
  /\ out' \in Handled(buf, Head(request.list), out)
  /\ request' = [request EXCEPT !.list = Tail(@)]
  /\ UNCHANGED <<vars, asked, shifted>>

ConnNext ==
  \/ Readable
  \/ \E n \in 1..(Len(Text(asked)) - last) : Receive(n)
  \/ Received
  \/ ReadStops
  \/ ParseLine
  \/ ParseHeaders
  \/ HandleHeader

ConnSpec == ConnInit /\ [][ConnNext]_connVars

-----------------------------------------------------------------------------
(* Properties *)

\* The phases of a request whose headers have ended.
Complete == {"done", "handling", "wild"}

\* However the bytes were cut into reads, and wherever in the ring they came to
\* lie, the URI, the minor version and the kept headers are those that were sent.
ParsedAsSent ==
  /\ phase \in {"headers", "done"} =>
       /\ request.uri_start = Place(UriAt(asked))
       /\ request.uri_end = Place(UriAt(asked) + Len(asked.uri))
       /\ Len(asked.major) = 1 => request.http_major = Digit(asked.major[1])
       /\ Len(asked.minor) = 1 => request.http_minor = Digit(asked.minor[1])
  /\ phase = "done" => request.list = Saved(asked)

Names == [SGX_HTTP_GET  |-> <<"G", "E", "T">>,
          SGX_HTTP_POST |-> <<"P", "O", "S", "T">>,
          SGX_HTTP_HEAD |-> <<"H", "E", "A", "D">>]

\* The bytes of the method do not go round the end of the ring.
MethodInOnePiece ==
  Place(MethodAt(asked)) + Len(asked.method) < SGX_MAX_BUF

\* A method that lies in one piece, and in the part of the ring that was not
\* overwritten, is taken for GET, POST or HEAD if it is that.  If it is not, it is
\* unknown, except that another word of three or four bytes is taken for what malloc
\* left in request->method, be it GET.
MethodRecognised ==
  phase \in {"headers", "done"} /\ MethodInOnePiece /\ last <= MethodAt(asked) + SGX_MAX_BUF =>
    /\ \A m \in DOMAIN Names : asked.method = Names[m] => request.method = m
    /\ Len(asked.method) \notin {3, 4} => request.method = "SGX_HTTP_UNKNOWN"
    /\ Len(asked.method) \in {3, 4} /\ (\A m \in DOMAIN Names : asked.method # Names[m]) =>
         request.method \in MethodsLeft

\* No well-formed request is refused, except by a build whose shift is not zero, and
\* there only if its method has another byte than underscores.  The bytes that were
\* taken for a request line are one, whose method has no byte less than `A' in any
\* build and only underscores in such a one; and the headers are complete only when
\* an empty line has come, one that ends with CR LF.
AcceptsWellFormed ==
  /\ phase = "refused" => ~ WellFormed(asked) \/ (shifted /\ BytesOf(asked.method) # {"_"})
  /\ phase \in {"headers"} \cup Complete => \E n \in 0..pos : LineTo(Text(asked), n, shifted)
  /\ phase \in Complete => pos >= 3 /\ SubSeq(Text(asked), pos - 2, pos) = <<"LF", "CR", "LF">>

\* When all that was sent has been parsed, the request is complete, unless it has
\* no headers, whose end the parser takes for blank lines before the first one.
EndsWithTheText ==
  pos = Len(Text(asked)) => phase \in Complete \/ asked.headers = <<>> \/ ~ WellFormed(asked)

\* A kept header whose key and value lie in one piece each, and were not
\* overwritten.
InPlace(i) ==
  LET h == Places(asked, i)
  IN  /\ i \in Kept(asked)
      /\ h.key_start < h.key_end /\ h.value_start < h.value_end
      /\ last <= HeaderAt(asked, i) + SGX_MAX_BUF

AsksToKeepAlive(i) ==
  InPlace(i) /\ asked.headers[i].key = Connection /\ asked.headers[i].value = KeepAlive

\* A date of the format is at the beginning of the value.
Dated(i) ==
  \E text \in Dates : Agrees(buf, Place(ValueAt(asked, i)), Len(text), text)

\* When all headers have been handled, a `Connection: keep-alive' that is still in its
\* place in the ring has been found, whatever else was on the list; and if all are in
\* theirs, keep_alive is set only if one begins as that does, and modified is reset
\* only if one has a beginning of `If-Modified-Since' and a date.
HandledAsSent ==
  phase = "handling" /\ request.list = <<>> =>
    /\ (\E i \in DOMAIN asked.headers : AsksToKeepAlive(i)) => out.keep_alive = 1
    /\ (\A i \in Kept(asked) : InPlace(i)) /\ out.keep_alive = 1 =>
         \E i \in Kept(asked) :
           IsPrefix(asked.headers[i].key, Connection) /\ IsPrefix(asked.headers[i].value, KeepAlive)
    /\ (\A i \in Kept(asked) : InPlace(i)) /\ out.modified = 0 =>
         \E i \in Kept(asked) : IsPrefix(asked.headers[i].key, IfModifiedSince) /\ Dated(i)
=============================================================================
