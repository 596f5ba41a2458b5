---------------------------- MODULE HttpHandlers -----------------------------
(***************************************************************************)
(* What sgx_http_handle_header of src/http/http_request.c does with one    *)
(* header of a request: the first name of sgx_http_headers_in that agrees  *)
(* with its key has its handler called.  Names and values are compared in  *)
(* the ring b itself, where the parser found them.  The strings of the     *)
(* source are constants, short sequences of bytes in the models.           *)
(***************************************************************************)
EXTENDS HttpParse

CONSTANTS Host, Connection, IfModifiedSince,  \* the names of sgx_http_headers_in
          KeepAlive,                          \* "keep-alive"
          Dates                               \* the texts the format of line 120 takes

\* sgx_init_out
NewOut == [keep_alive |-> 0, modified |-> 1]

\* text agrees with the n bytes from start on, as far as the ring goes.
Agrees(b, start, n, text) ==
  n <= Len(text) /\ \A k \in 1..n : start + k - 1 < SGX_MAX_BUF => b[start + k - 1] = text[k]

(***************************************************************************)
(* What strncmp(start, text, end - start) == 0 can be.  Only the part of   *)
(* text that the bytes give is compared.  When they go round the end of    *)
(* the ring the length is negative, so huge: the comparison goes on to the *)
(* end of text, in what lies behind the ring.                              *)
(***************************************************************************)
Compared(b, start, end, text) ==
  IF start <= end THEN {Agrees(b, start, end - start, text)}
  ELSE {FALSE} \cup {Agrees(b, start, SGX_MAX_BUF - start, text)}

\* Whether strptime can take what is at start, however long the value is, and
\* with what lies behind the ring.
Scanned(b, start) ==
  {taken \in BOOLEAN :
     IF taken THEN \E text \in Dates : Agrees(b, start, Len(text), text)
     ELSE \A text \in Dates :
            start + Len(text) <= SGX_MAX_BUF => ~ Agrees(b, start, Len(text), text)}

\* Bug: the length of the value is computed from the key.
LengthOfKey(h) == h.value_start + (h.key_end - h.key_start)

ValueEnd(h) == h.value_end

process_connection(b, h, out) ==
  {IF same THEN [out EXCEPT !.keep_alive = 1] ELSE out :
     same \in Compared(b, h.value_start, ValueEnd(h), KeepAlive)}

(***************************************************************************)
(* The time that was read is made one of this machine's time zone, by the  *)
(* tm_isdst that happened to be on the stack, and compared with            *)
(* out->mtime, which nothing sets: the two may be the same or not.  Line   *)
(* 127 has no effect.                                                      *)
(***************************************************************************)
process_if_modified_since(b, h, out) ==
  {IF taken /\ same THEN [out EXCEPT !.modified = 0] ELSE out :
     taken \in Scanned(b, h.value_start), same \in BOOLEAN}

\* What one turn of the loop of sgx_http_handle_header can make of out.
Handled(b, h, out) ==
  LET Key(name) == Compared(b, h.key_start, h.key_end, name)
      Passed(names) == \A name \in names : FALSE \in Key(name)
  IN  {o \in {out} : TRUE \in Key(Host) \/ Passed({Host, Connection, IfModifiedSince})}
      \cup {o \in process_connection(b, h, out) : Passed({Host}) /\ TRUE \in Key(Connection)}
      \cup {o \in process_if_modified_since(b, h, out) :
              Passed({Host, Connection}) /\ TRUE \in Key(IfModifiedSince)}
=============================================================================
