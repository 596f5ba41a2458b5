----------------------------- MODULE HttpParse ------------------------------
(***************************************************************************)
(* The two parsers of src/http/http_parse.c as operators.  A parser is an  *)
(* automaton that looks at one byte at a time; what it has learnt is in    *)
(* the request, here a record r of the fields of sgx_http_request that it  *)
(* writes.  Pointers into the buffer are places in it, and None is what a  *)
(* pointer holds that nobody has set.  The enumerators of the request line *)
(* are taken as distinct, `request->start' as request_start, `CF' as LF    *)
(* and the `i' of line 247 as pos.                                         *)
(*                                                                         *)
(* A byte is one of those the parsers compare with, "0" or "1" for the     *)
(* digits, "_", "x" for the other letters, or "~" for what else is not     *)
(* less than `A'; SP is the blank.                                         *)
(***************************************************************************)
EXTENDS Ring, Integers, Sequences

Digits == {"0", "1"}
Ends == {"CR", "LF"}
Letters == {"G", "E", "T", "P", "O", "S", "H", "A", "D", "x"}

\* The bytes that are less than `A'.
Below == Digits \cup Ends \cup {"SP", "/", ":", "."}

ByteClasses == Below \cup Letters \cup {"_", "~"}

Digit(c) == IF c = "1" THEN 1 ELSE 0

Goto(r, state) == [r EXCEPT !.state = state]
Return(r, code) == [r EXCEPT !.rc = code]

-----------------------------------------------------------------------------
(* sgx_http_parse_request_line *)

\* Bug: c is compared with `Z', as is meant, and the underscore forgotten.
NotALetter(c, shifted) == c \notin Letters

(***************************************************************************)
(* Lines 55 and 91 shift c by 'Z' where they mean to compare with it.  The *)
(* shift is wider than an int, which is undefined: shifted says whether    *)
(* the build makes it nonzero.  The usual machines make it zero, and then  *)
(* every byte from 'A' on passes, letter or not.                           *)
(***************************************************************************)
NotInMethod(c, shifted) == (c \in Below \/ shifted) /\ c # "_"

LineStart(r, p, c, shifted) ==
  LET q == [r EXCEPT !.request_start = p]
  IN  IF c \in Ends THEN q
      ELSE IF NotInMethod(c, shifted) THEN Return(q, "SGX_HTTP_PARSE_INVALID_METHOD")
      ELSE Goto(q, "sw_method")

\* Bug: the macros put the bytes together in the other order (http.h:12 depends
\* on the machine's).
WordReversed(b, p) == [k \in 1..4 |-> b[p + 4 - k]]

\* The four bytes a comparison of sgx_str3_cmp and the like reads.
Word(b, p) == [k \in 1..4 |-> b[p + k - 1]]

\* For a word of three or four bytes that is not known, method is not set at all.
Method(r, b, p) ==
  LET start == r.request_start
  IN  CASE p - start = 3 -> IF Word(b, start) = <<"G", "E", "T", "SP">>
                            THEN "SGX_HTTP_GET" ELSE r.method
        [] p - start = 4 -> IF Word(b, start) = <<"P", "O", "S", "T">> THEN "SGX_HTTP_POST"
                            ELSE IF Word(b, start) = <<"H", "E", "A", "D">> THEN "SGX_HTTP_HEAD"
                            ELSE r.method
        [] OTHER -> "SGX_HTTP_UNKNOWN"

LineMethod(r, b, p, c, shifted) ==
  IF c = "SP"
  THEN [r EXCEPT !.method_end = p,
                 !.method = Method(r, b, p),
                 !.state = "sw_spaces_before_uri"]
  ELSE IF NotInMethod(c, shifted) THEN Return(r, "SGX_HTTP_PARSE_INVALID_METHOD")
  ELSE r

BeforeUri(r, p, c) ==
  CASE c = "/" -> [r EXCEPT !.uri_start = p, !.state = "sw_after_slash_in_uri"]
    [] c = "SP" -> r
    [] OTHER -> Return(r, "SGX_HTTP_PARSE_INVALID_REQUEST")

InUri(r, p, c) ==
  IF c = "SP" THEN [r EXCEPT !.uri_end = p, !.state = "sw_http"] ELSE r

\* In the states that wait for a byte of HTTP/, which one, and the next state.
HttpTable ==
  [sw_http      |-> <<"H", "sw_http_H">>,
   sw_http_H    |-> <<"T", "sw_http_HT">>,
   sw_http_HT   |-> <<"T", "sw_http_HTT">>,
   sw_http_HTT  |-> <<"P", "sw_http_HTTP">>,
   sw_http_HTTP |-> <<"/", "sw_first_major_digit">>]

LineProtocol(r, c) ==
  CASE c = HttpTable[r.state][1] -> Goto(r, HttpTable[r.state][2])
    [] r.state = "sw_http" /\ c = "SP" -> r
    [] OTHER -> Return(r, "SGX_HTTP_PARSE_INVALID_REQUEST")

\* Line 189 adds the character constant 'c', which is 99, for every further digit.
MoreMajor(major) == major * 10 + 99

LineVersion(r, c) ==
  CASE r.state = "sw_first_major_digit" /\ c \in Digits \ {"0"} ->
         [r EXCEPT !.http_major = Digit(c), !.state = "sw_major_digit"]
    [] r.state = "sw_major_digit" /\ c = "." -> Goto(r, "sw_first_minor_digit")
    [] r.state = "sw_major_digit" /\ c \in Digits ->
         [r EXCEPT !.http_major = MoreMajor(@)]
    [] r.state = "sw_first_minor_digit" /\ c \in Digits ->
         [r EXCEPT !.http_minor = Digit(c), !.state = "sw_minor_digit"]
    [] r.state = "sw_minor_digit" /\ c \in Digits ->
         [r EXCEPT !.http_minor = @ * 10 + Digit(c)]
    [] r.state \in {"sw_minor_digit", "sw_spaces_after_digit"} /\ c = "LF" ->
         Return(r, "SGX_OK")
    [] r.state \in {"sw_minor_digit", "sw_spaces_after_digit"} /\ c = "CR" ->
         Goto(r, "sw_almost_done")
    [] r.state \in {"sw_minor_digit", "sw_spaces_after_digit"} /\ c = "SP" ->
         Goto(r, "sw_spaces_after_digit")
    [] OTHER -> Return(r, "SGX_HTTP_PARSE_INVALID_REQUEST")

LineAlmostDone(r, p, c) ==
  Return([r EXCEPT !.request_end = p - 1],
         IF c = "LF" THEN "SGX_OK" ELSE "SGX_HTTP_PARSE_INVALID_REQUEST")

\* One turn of the loop of the request line, on the byte with index i.
LineByte(r, b, i, shifted) ==
  LET p == Place(i)
      c == b[p]
  IN  CASE r.state = "sw_start" -> LineStart(r, p, c, shifted)
        [] r.state = "sw_method" -> LineMethod(r, b, p, c, shifted)
        [] r.state = "sw_spaces_before_uri" -> BeforeUri(r, p, c)
        [] r.state = "sw_after_slash_in_uri" -> InUri(r, p, c)
        [] r.state \in DOMAIN HttpTable -> LineProtocol(r, c)
        [] r.state = "sw_almost_done" -> LineAlmostDone(r, p, c)
        [] OTHER -> LineVersion(r, c)

-----------------------------------------------------------------------------
(* sgx_http_parse_request_body, which parses the headers *)

HeaderOf(r) ==
  [key_start   |-> r.key_start,
   key_end     |-> r.key_end,
   value_start |-> r.value_start,
   value_end   |-> r.value_end]

\* Bug: list_add_tail.
SaveAtTail(r) == [r EXCEPT !.list = Append(@, HeaderOf(r))]

\* Lines 337-342: the header goes to the head of the list.
Save(r) == [r EXCEPT !.list = <<HeaderOf(r)>> \o @]

\* One turn of the loop of the headers; a value that begins with the end of the
\* line is taken as begun, and a line that ends without CR is not saved.
BodyByte(r, b, i) ==
  LET p == Place(i)
      c == b[p]
      Invalid == Return(r, "SGX_HTTP_PARSE_INVALID_HEADER")
  IN  CASE r.state = "sw_start" ->
             IF c \in Ends THEN r ELSE [r EXCEPT !.key_start = p, !.state = "sw_key"]
        [] r.state = "sw_key" ->
             IF c = "SP" THEN [r EXCEPT !.key_end = p, !.state = "sw_spaces_before_colon"]
             ELSE IF c = ":" THEN [r EXCEPT !.key_end = p, !.state = "sw_spaces_after_colon"]
             ELSE r
        [] r.state = "sw_spaces_before_colon" ->
             IF c = "SP" THEN r ELSE IF c = ":" THEN Goto(r, "sw_spaces_after_colon") ELSE Invalid
        [] r.state = "sw_spaces_after_colon" ->
             IF c = "SP" THEN r ELSE [r EXCEPT !.value_start = p, !.state = "sw_value"]
        [] r.state = "sw_value" ->
             IF c = "CR" THEN [r EXCEPT !.value_end = p, !.state = "sw_cr"]
             ELSE IF c = "LF" THEN [r EXCEPT !.value_end = p, !.state = "sw_crlf"]
             ELSE r
        [] r.state = "sw_cr" ->
             IF c = "LF" THEN Goto(Save(r), "sw_crlf") ELSE Invalid
        [] r.state = "sw_crlf" ->
             IF c = "CR" THEN Goto(r, "sw_crlfcr")
                         ELSE [r EXCEPT !.key_start = p, !.state = "sw_key"]
        [] r.state = "sw_crlfcr" ->
             IF c = "LF" THEN Return(r, "SGX_OK") ELSE Invalid

-----------------------------------------------------------------------------
(* Calls *)

\* The loop of a parser: Turn on each byte from pos, until one returns.
Loop(Turn(_, _), r, pos, last) ==
  LET loop[n \in 0..(last - pos)] ==
        IF n = 0 THEN [r EXCEPT !.rc = "SGX_AGAIN", !.pos = pos]
        ELSE LET q == loop[n - 1]
             IN  IF q.rc = "SGX_AGAIN" THEN [Turn(q, pos + n - 1) EXCEPT !.pos = pos + n]
                                       ELSE q
  IN  loop[last - pos]

\* Bug: request->state is not stored when the bytes run out (line 242 or 372).
StateForgotten(r, q, pos) ==
  CASE q.rc = "SGX_AGAIN" -> [q EXCEPT !.state = r.state]
    [] q.rc = "SGX_OK" -> [q EXCEPT !.state = "sw_start"]
    [] OTHER -> [q EXCEPT !.state = r.state, !.pos = pos]

\* What the end of a call leaves in the request: state and pos are locals,
\* which an error does not store; sw_start is for the next parser.
Stored(r, q, pos) ==
  CASE q.rc = "SGX_AGAIN" -> q
    [] q.rc = "SGX_OK" -> [q EXCEPT !.state = "sw_start"]
    [] OTHER -> [q EXCEPT !.state = r.state, !.pos = pos]

sgx_http_parse_request_line(r, b, pos, last, shifted) ==
  LET Turn(q, i) == LineByte(q, b, i, shifted)
      q == Loop(Turn, r, pos, last)
      \* Lines 248-250.
      end == IF q.rc = "SGX_OK" /\ q.request_end = None THEN Place(q.pos - 1) ELSE q.request_end
  IN  Stored(r, [q EXCEPT !.request_end = end], pos)

sgx_http_parse_request_body(r, b, pos, last) ==
  LET Turn(q, i) == BodyByte(q, b, i)
  IN  Stored(r, Loop(Turn, r, pos, last), pos)

\* A request as sgx_init_request leaves it, with what malloc left in method and
\* request_end, which are read, and none of what it left in the other fields.
NewRequest(method, request_end) ==
  [state |-> "sw_start", rc |-> "SGX_AGAIN", pos |-> 0,
   request_start |-> None, method_end |-> None, method |-> method,
   uri_start |-> None, uri_end |-> None,
   http_major |-> 0, http_minor |-> 0, request_end |-> request_end,
   key_start |-> None, key_end |-> None, value_start |-> None, value_end |-> None,
   list |-> <<>>]
=============================================================================
