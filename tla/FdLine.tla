-------------------------------- MODULE FdLine --------------------------------
(***************************************************************************)
(* How a thread of MiniServer reads a request: sgx_get_fd_line of          *)
(* src/test/sgx_mini.c takes the bytes one at a time from a blocking       *)
(* socket, and looks ahead by one after a CR; it is called for the request *)
(* line, and then in the loop of sgx_request_cgi for the headers of a      *)
(* POST, of which Content-Length is kept.  The other three loops over      *)
(* headers differ only in keeping nothing.  Meanwhile the peer sends, a    *)
(* byte or more at a time, or closes.                                      *)
(*                                                                         *)
(* The characters of `Content-Length:' are few here: Name, and ValueAt is  *)
(* one more than its length, as 16 is for the real one.                    *)
(***************************************************************************)
EXTENDS Integers, Sequences, SequencesExt, FiniteSetsExt

CONSTANTS Bytes,      \* the values of a byte
          Requests,   \* records of lines, each a sequence of bytes, and the body
          sgx_size,   \* the size of the buffer
          Name,       \* the bytes of `Content-Length:'
          Garbage,    \* what can be in every byte of the buffer before it is written
          None

Digits == {"0", "1"}
Crlf == <<"CR", "LF">>

\* An empty line is the end of the headers, and no line has a CR or a NUL in it.
ASSUME LineAssumption ==
  /\ Digits \cup {"CR", "LF", "SP", "NUL"} \cup Garbage \subseteq Bytes
  /\ Name \in Seq(Bytes \ {"NUL"})
  /\ sgx_size \in Nat /\ Len(Name) + 1 < sgx_size
  /\ \A a \in Requests :
       /\ a.lines \in Seq(Seq(Bytes \ {"CR", "NUL"})) /\ a.lines # <<>>
       /\ a.body \in Seq(Bytes)
       /\ \A i \in 2..Len(a.lines) : a.lines[i] # <<>>

VARIABLES
  request,  \* what the peer sends
  arrived,  \* how many bytes of it are there
  closed,   \* the peer has closed
  taken,    \* how many bytes were read
  buf,      \* the buffer, from 0 on
  tail,     \* sgx_tail - sgx_buf
  pc,       \* where the thread is
  first,    \* the line that is read is the request line
  contlen   \* the digits atoi has taken for sgx_contlen, None for -1

vars == <<request, arrived, closed, taken, buf, tail, pc, first, contlen>>

HeadOf(a) == FlattenSeq([i \in DOMAIN a.lines |-> a.lines[i] \o Crlf]) \o Crlf

Text == HeadOf(request) \o request.body

Uninitialised == {[k \in 0..(sgx_size - 1) |-> g] : g \in Garbage}

Init ==
  /\ request \in Requests
  /\ arrived = 0 /\ taken = 0 /\ tail = 0
  /\ closed = FALSE
  /\ buf \in Uninitialised
  /\ pc = "read"
  /\ first = TRUE
  /\ contlen = None

Send ==
  /\ ~ closed
  /\ arrived' \in (arrived + 1)..Len(Text)
  /\ UNCHANGED <<request, closed, taken, buf, tail, pc, first, contlen>>

CloseConn ==
  /\ ~ closed
  /\ closed' = TRUE
  /\ UNCHANGED <<request, arrived, taken, buf, tail, pc, first, contlen>>

-----------------------------------------------------------------------------
(* sgx_get_fd_line *)

Ready == taken < arrived
AtEnd == closed /\ taken = arrived
NextByte == Text[taken + 1]

Take == taken' = taken + 1
Store(c) == buf' = [buf EXCEPT ![tail] = c] /\ tail' = tail + 1

Read ==
  /\ pc = "read"
  /\ tail < sgx_size - 1
  /\ Ready
  /\ Take
  /\ IF NextByte = "CR" THEN pc' = "peek" /\ UNCHANGED <<buf, tail>>
                        ELSE Store(NextByte) /\ UNCHANGED pc
  /\ UNCHANGED <<request, arrived, closed, first, contlen>>

ReadStops ==
  /\ pc = "read"
  /\ tail = sgx_size - 1 \/ AtEnd
  /\ pc' = "line"
  /\ UNCHANGED <<request, arrived, closed, taken, buf, tail, first, contlen>>

\* Bug: line 99 is left out.
LeavesLf == UNCHANGED taken

TakesLf == Take

\* recv with MSG_PEEK waits too.
Peek ==
  /\ pc = "peek"
  /\ Ready \/ AtEnd
  /\ IF Ready /\ NextByte = "LF" THEN TakesLf /\ UNCHANGED <<buf, tail>>
                                 ELSE Store("LF") /\ UNCHANGED taken
  /\ pc' = "line"
  /\ UNCHANGED <<request, arrived, closed, first, contlen>>

-----------------------------------------------------------------------------
(* Its callers *)

\* The buffer when sgx_get_fd_line has returned.
Line == [buf EXCEPT ![tail] = "NUL"]

\* The request line goes to another buffer than the headers.
FirstLine ==
  /\ pc = "line" /\ first
  /\ first' = FALSE
  /\ tail' = 0
  /\ buf' \in Uninitialised
  /\ pc' = IF tail = 0 THEN "refused" ELSE "read"
  /\ UNCHANGED <<request, arrived, closed, taken, contlen>>

\* Bug: `>= 0' in the conditions of the loops.
GoesOnEmpty == ~ (tail = 1 /\ buf[0] = "LF")

GoesOn == tail > 0 /\ ~ (tail = 1 /\ buf[0] = "LF")

\* Bug: sgx_buf + 17.
OneFurther == Len(Name) + 2

ValueAt == Len(Name) + 1

\* atoi: the digits from p on, after blanks.
Number(line, p) ==
  LET cells == p..(sgx_size - 1)
      from == Min({k \in cells : line[k] # "SP"} \cup {sgx_size})
      to == Min({k \in cells : k >= from /\ line[k] \notin Digits} \cup {sgx_size})
  IN  [i \in 1..(to - from) |-> line[from + i - 1]]

Header ==
  /\ pc = "line" /\ ~ first /\ GoesOn
  /\ LET line == [Line EXCEPT ![Len(Name)] = "NUL"]
         named == \A k \in DOMAIN Name : line[k - 1] = Name[k]
     IN  /\ buf' = line
         /\ contlen' = IF named THEN Number(line, ValueAt) ELSE contlen
  /\ tail' = 0
  /\ pc' = "read"
  /\ UNCHANGED <<request, arrived, closed, taken, first>>

HeadersDone ==
  /\ pc = "line" /\ ~ first /\ ~ GoesOn
  /\ buf' = Line
  /\ pc' = "body"
  /\ UNCHANGED <<request, arrived, closed, taken, tail, first, contlen>>

Thread == Read \/ ReadStops \/ Peek \/ FirstLine \/ Header \/ HeadersDone

Next == Send \/ CloseConn \/ Thread

(***************************************************************************)
(* Fairness: the thread reads what it can; the peer need not send.         *)
(***************************************************************************)
Spec == Init /\ [][Next]_vars /\ WF_vars(Thread)

-----------------------------------------------------------------------------
(* Properties *)

Sent == arrived = Len(Text)

\* What the buffer leaves of a line ends the headers: nothing, if the line fills it
\* exactly, once or more, as its CR LF is then taken for the empty line; or a lone LF,
\* which is what line 288 compares with.  The request line is not compared.
EndsHeaders(i) ==
  LET line == request.lines[i]
      rest == Len(line) % (sgx_size - 1)
  IN  /\ line # <<>>
      /\ \/ rest = 0
         \/ rest = 1 /\ Last(line) = "LF" /\ (i = 1 => Len(line) > 1)

\* What is read next after the headers of a request is its body, unless one of its
\* lines ends them; then it never is.
BodyFollows ==
  pc = "body" /\ (Sent \/ ~ closed) =>
    (taken = Len(HeadOf(request)) <=> \A i \in DOMAIN request.lines : ~ EndsHeaders(i))

\* The headers whose name is Content-Length.
Lengths == {i \in 2..Len(request.lines) : IsPrefix(Name, request.lines[i])}

\* One blank and a number come after the name, as line 291 has it.
Usual(line) ==
  /\ Len(line) > Len(Name) + 1 /\ line[Len(Name) + 1] = "SP"
  /\ ToSet(SubSeq(line, Len(Name) + 2, Len(line))) \subseteq Digits

\* If no line is longer than the buffer or a lone LF, and every Content-Length is as
\* usual, the length of the body is the one the last of them gives, however the
\* request came.
LengthAsSent ==
  /\ pc = "body" /\ (Sent \/ ~ closed)
  /\ \A i \in DOMAIN request.lines : Len(request.lines[i]) < sgx_size - 1 /\ ~ EndsHeaders(i)
  /\ \A i \in Lengths : Usual(request.lines[i])
  => contlen = IF Lengths = {} THEN None
               ELSE LET line == request.lines[Max(Lengths)]
                    IN  SubSeq(line, Len(Name) + 2, Len(line))

\* A request that was sent is read through: the look ahead never waits for a byte
\* that the peer, who waits for the answer, will not send.
HeadersEnd == Sent ~> pc \in {"body", "refused"}
=============================================================================
