---------------------------- MODULE MCMiniServer ----------------------------
(* Calls for TLC: of two bytes at most, with programs of up to three steps. *)
EXTENDS MiniServer, TLC

CONSTANTS t1, t2

TwoThreads == {t1, t2}
OneThread == {t1}

Get ==
  [valid |-> TRUE, method |-> "GET", query |-> TRUE, found |-> TRUE, executable |-> TRUE,
   body |-> [length |-> -1, supply |-> 0], hangs |-> FALSE, program |-> <<"write", "write">>]

Post(length, supply, program) ==
  [Get EXCEPT !.method = "POST", !.query = FALSE, !.program = program,
              !.body = [length |-> length, supply |-> supply]]

Behaved ==
  {Get, Post(2, 1, <<"read", "read", "write">>), Post(2, 2, <<"write", "read", "write">>)}

Others ==
  {[Get EXCEPT !.found = FALSE],
   [Get EXCEPT !.query = FALSE, !.executable = FALSE],
   [Get EXCEPT !.hangs = TRUE],
   Post(-1, 0, <<>>),
   Post(1, 1, <<>>),
   Post(2, 2, <<"write", "write">>),
   Post(2, 2, <<"drain", "write">>)}

MixedCalls == Behaved \cup Others
=============================================================================
