--------------------------- MODULE RequestBuffer ----------------------------
(***************************************************************************)
(* The ring buffer of a request (src/http/http_request.h) between the read *)
(* loop of sgx_request_run (src/http/http.c), which writes it at last, and *)
(* the two parsers (src/http/http_parse.c), which read it from pos.  Both  *)
(* indices only grow; a byte's place is its index modulo SGX_MAX_BUF.  A   *)
(* step is one turn of the read loop, or one call of a parser.  The source *)
(* calls the parsers nowhere; here they may be called whenever the read    *)
(* loop has ended with EAGAIN, and may consume any part of what is there.  *)
(***************************************************************************)
EXTENDS Ring, Sequences

CONSTANTS Bytes,        \* what a byte can be
          MaxBytes      \* bound: the peer sends no more

ASSUME BufferAssumption ==
  /\ SGX_MAX_BUF \in Nat \ {0}
  /\ MaxBytes \in Nat
  /\ None \notin Bytes

VARIABLES
  buf,     \* request->buf, from 0
  pos,     \* request->pos: the first byte not parsed
  last,    \* request->last: the first byte not read
  pc,      \* "idle" between two calls, "read" in the loop, "err" at its label
  finish,  \* why the loop went to err: read returned 0 or failed
  sent     \* history: what the peer sent and read has returned

vars == <<buf, pos, last, pc, finish, sent>>

Init ==
  /\ buf = [i \in 0..(SGX_MAX_BUF - 1) |-> None]
  /\ pos = 0
  /\ last = 0
  /\ pc = "idle"
  /\ finish = "none"
  /\ sent = <<>>

SGX_MIN(a, b) == IF a < b THEN a ELSE b

\* Bug: line 53 without the - 1, which lets pos and last meet on one place.
FillsUp ==
  SGX_MIN(SGX_MAX_BUF - (last - pos), SGX_MAX_BUF - Place(last))

\* Bug: the second half of line 53 is left out.
IgnoresEnd == SGX_MAX_BUF - (last - pos) - 1

\* Bug: what is in use is not counted.
IgnoresUnread == SGX_MAX_BUF - Place(last)

\* Bug: both halves of line 53 keep a place free.
StopsBeforeEnd ==
  SGX_MIN(SGX_MAX_BUF - (last - pos) - 1, SGX_MAX_BUF - 1 - Place(last))

\* Line 53: one place stays free, and a read never runs past the end of buf.
remain_size ==
  SGX_MIN(SGX_MAX_BUF - (last - pos) - 1, SGX_MAX_BUF - Place(last))

\* What read(fd, plast, ...) leaves in memory when it returns data.
Filled(data) ==
  LET plast == Place(last)
      written == plast..(plast + Len(data) - 1)
  IN  [i \in DOMAIN buf \cup written |->
         IF i \in written THEN data[i - plast + 1] ELSE buf[i]]

\* The socket is readable, and sgx_request_run is called.
Run ==
  /\ pc = "idle"
  /\ pc' = "read"
  /\ UNCHANGED <<buf, pos, last, finish, sent>>

Read(data) ==
  /\ pc = "read"
  /\ Len(data) \in 1..remain_size
  /\ buf' = Filled(data)
  /\ last' = last + Len(data)
  /\ sent' = sent \o data
  /\ UNCHANGED <<pos, pc, finish>>

ReadAgain ==
  /\ pc = "read"
  /\ pc' = "idle"
  /\ UNCHANGED <<buf, pos, last, finish, sent>>

Err(why) ==
  /\ pc = "read"
  /\ pc' = "err"
  /\ finish' = why
  /\ UNCHANGED <<buf, pos, last, sent>>

\* read returns 0 when the peer has closed the connection, and also when it is
\* asked for no byte; the code does not tell the two apart.
ReadNothing == remain_size = 0 /\ Err("full")

ReadEnd == remain_size > 0 /\ Err("closed")

ReadFails == Err("failed")

\* A parser returns with request->pos n further on.
Parse(n) ==
  /\ pc = "idle"
  /\ n \in 0..(last - pos)
  /\ pos' = pos + n
  /\ UNCHANGED <<buf, last, pc, finish, sent>>

Next ==
  \/ Run
  \/ \E n \in 1..(MaxBytes - last) : \E data \in [1..n -> Bytes] : Read(data)
  \/ ReadAgain
  \/ ReadNothing
  \/ ReadEnd
  \/ ReadFails
  \/ \E n \in 0..(last - pos) : Parse(n)

Spec == Init /\ [][Next]_vars

-----------------------------------------------------------------------------
(* Properties *)

\* Every variable has its type.
TypeOK ==
  /\ buf \in [0..(SGX_MAX_BUF - 1) -> Bytes \cup {None}]
  /\ pos \in Nat
  /\ last \in Nat
  /\ pc \in {"idle", "read", "err"}
  /\ finish \in {"none", "full", "closed", "failed"}
  /\ sent \in Seq(Bytes)

\* What lines 55 and 70 look for, and log as an overflow, never happens; nor
\* does the parser get ahead of the reader.
NoOverflow == pos <= last /\ last - pos < SGX_MAX_BUF

\* The last SGX_MAX_BUF bytes that came are in their places, whether they have
\* been parsed or not: what a header points to is lost only when SGX_MAX_BUF
\* more bytes have come, and no unread byte ever is.
WindowIntact ==
  /\ Len(sent) = last
  /\ \A i \in 0..(last - 1) :
       i + SGX_MAX_BUF >= last => buf[Place(i)] = sent[i + 1]

\* The loop takes a live connection for a closed one when all but one of the
\* places hold unread bytes, and never earlier: not where the ring wraps.
FullOnlyWhenFull == finish = "full" => last - pos = SGX_MAX_BUF - 1

\* The bytes the parser has still to see, as it sees them.
Unread == [i \in 1..(last - pos) |-> buf[Place(pos + i - 1)]]

BF == INSTANCE ByteFifo WITH unread <- Unread, Capacity <- SGX_MAX_BUF - 1

\* The ring is a queue of at most SGX_MAX_BUF - 1 bytes.
ImplementsByteFifo == BF!Spec
=============================================================================
