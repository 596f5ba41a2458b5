----------------------------- MODULE MiniServer -----------------------------
(***************************************************************************)
(* The server of src/test/sgx_mini.c: main starts a detached thread for    *)
(* each connection (sgx_request_accept), and a request for a program runs  *)
(* it in a child with its standard streams on two pipes (sgx_request_cgi). *)
(* A step of a thread ends where another thread's fork could tell it from  *)
(* the next one: a child gets every descriptor the server has open then,   *)
(* those of other requests too, and keeps them until it exits.             *)
(*                                                                         *)
(* Line 205 is taken as the line above it has it, sgx_cfd = (int)sgx_arg:  *)
(* as it stands it reads memory at the address that the descriptor is.     *)
(* The calls rsp_400 to rsp_501, which are defined nowhere, only write.    *)
(*                                                                         *)
(* A call says what the client asks for and what the program it names      *)
(* does, a sequence of "read" (a byte), "write" (a byte) and "drain" (all  *)
(* there is, until the end of file); it is empty when execl fails.  What   *)
(* the child does instead of the program, or after it, is in ChildStart.   *)
(***************************************************************************)
EXTENDS Integers, Sequences, FiniteSets

CONSTANTS Threads,   \* the connections, each with its thread and its child
          Server,    \* the server, among those who hold a descriptor
          Calls,     \* what can be asked for
          PipeSize   \* how many bytes a pipe holds

Bodies == [length : Int, supply : Nat]

ASSUME ServerAssumption ==
  /\ Server \notin Threads
  /\ PipeSize \in Nat \ {0}
  /\ Calls \subseteq
       [valid : BOOLEAN, method : {"GET", "POST"}, query : BOOLEAN, found : BOOLEAN,
        executable : BOOLEAN, body : Bodies, hangs : BOOLEAN,
        program : Seq({"read", "drain", "write"})]

Descriptors == {"cfd", "pocgi0", "pocgi1", "picgi0", "picgi1"}

VARIABLES
  server,   \* whether the server's process is up, or how it ended
  call,     \* what the client of each thread asks for
  pc,       \* where each thread is
  holders,  \* the processes that have a descriptor open; a child is its thread
  in, out,  \* the bytes in the two pipes
  sent,     \* i in the loop of line 351
  child,    \* what became of the child
  todo,     \* what its program has still to do
  got,      \* history: what the program has read
  wrote,    \* history: how many bytes it has written, which are 1, 2, ...
  reply     \* history: what line 358 has written to the client

requestVars == <<call, got, wrote>>
vars == <<server, pc, holders, in, out, sent, child, todo, reply, requestVars>>

Init ==
  /\ server = "up"
  /\ call \in [Threads -> Calls]
  /\ pc = [t \in Threads |-> "none"]
  /\ holders = [d \in Threads \X Descriptors |-> {}]
  /\ in = [t \in Threads |-> <<>>]
  /\ out = [t \in Threads |-> <<>>]
  /\ sent = [t \in Threads |-> 0]
  /\ child = [t \in Threads |-> "none"]
  /\ todo = [t \in Threads |-> <<>>]
  /\ got = [t \in Threads |-> <<>>]
  /\ wrote = [t \in Threads |-> 0]
  /\ reply = [t \in Threads |-> <<>>]

Goto(t, label) == pc' = [pc EXCEPT ![t] = label]

At(t, label) == server = "up" /\ pc[t] = label

Holders(t, descriptor) == holders[<<t, descriptor>>]

\* The server opens, or closes, the descriptors ds of thread t.
Opened(t, ds) ==
  [d \in DOMAIN holders |-> IF d \in {t} \X ds THEN {Server} ELSE holders[d]]

Closed(t, ds) ==
  [d \in DOMAIN holders |-> IF d \in {t} \X ds THEN holders[d] \ {Server} ELSE holders[d]]

\* SIGPIPE, or a null FILE: the process of the server ends, threads and all.
Killed == server' = "killed" /\ UNCHANGED <<pc, holders, in, out, sent, child, todo, reply, requestVars>>

\* A write to a client who has gone may still succeed.
WriteFails(t) == call[t].hangs /\ Killed

-----------------------------------------------------------------------------
(* main and sgx_request_accept *)

\* pthread_create returns an error that is positive, which line 76 does not see:
\* then nobody has the connection, and it stays open.
Accept(t) ==
  /\ At(t, "none")
  /\ Goto(t, "request") \/ Goto(t, "unstarted")
  /\ holders' = Opened(t, {"cfd"})
  /\ UNCHANGED <<server, in, out, sent, child, todo, reply, requestVars>>

\* After any error of accept main returns, which ends every thread.
AcceptFails ==
  /\ server = "up"
  /\ server' = "returned"
  /\ UNCHANGED <<pc, holders, in, out, sent, child, todo, reply, requestVars>>

\* The flag sgx_iscgi is 0 for the requests that run a program.
RunsProgram(a) == a.method = "POST" \/ a.query \/ a.executable

\* The length -1 stands for a missing Content-Length, too.
NoLength(a) == a.method = "POST" /\ a.body.length = -1

\* Responses 501, 404 and 400.
Refuse(t) ==
  /\ At(t, "request")
  /\ ~ call[t].valid \/ ~ call[t].found \/ NoLength(call[t])
  /\ \/ Goto(t, "close")
        /\ UNCHANGED <<server, holders, in, out, sent, child, todo, reply, requestVars>>
     \/ WriteFails(t)

\* sgx_send_file; when fopen fails, fclose is given a null pointer.
SendFile(t) ==
  /\ At(t, "request")
  /\ call[t].valid /\ call[t].found /\ ~ RunsProgram(call[t])
  /\ \/ Goto(t, "close")
        /\ UNCHANGED <<server, holders, in, out, sent, child, todo, reply, requestVars>>
     \/ Killed

Close(t) ==
  /\ At(t, "close")
  /\ Goto(t, "done")
  /\ holders' = Closed(t, {"cfd"})
  /\ UNCHANGED <<server, in, out, sent, child, todo, reply, requestVars>>

-----------------------------------------------------------------------------
(* sgx_request_cgi *)

\* The descriptors of before are closed, and the response is 500.
Fails(t, before) ==
  \/ /\ Goto(t, "close")
     /\ holders' = Closed(t, before)
     /\ UNCHANGED <<server, in, out, sent, child, todo, reply, requestVars>>
  \/ WriteFails(t)

\* A system call of t succeeds and opens descriptors, or fails.
Opens(t, from, to, ds, before) ==
  /\ At(t, from)
  /\ \/ /\ Goto(t, to)
        /\ holders' = Opened(t, ds)
        /\ UNCHANGED <<server, in, out, sent, child, todo, reply, requestVars>>
     \/ Fails(t, before)

PipeOut(t) ==
  /\ call[t].valid /\ call[t].found /\ RunsProgram(call[t]) /\ ~ NoLength(call[t])
  /\ Opens(t, "request", "pipe", {"pocgi0", "pocgi1"}, {})

PipeIn(t) == Opens(t, "pipe", "fork", {"picgi0", "picgi1"}, {"pocgi0", "pocgi1"})

Pipes == {"pocgi0", "pocgi1", "picgi0", "picgi1"}

\* Bug: the second pipe is not closed when fork fails.
HalfTheEnds == {"pocgi0", "pocgi1"}

\* What lines 319-322 close.
AllTheEnds == Pipes

ForkFails(t) == At(t, "fork") /\ Fails(t, AllTheEnds)

Fork(t) ==
  /\ At(t, "fork")
  /\ Goto(t, "status")
  /\ child' = [child EXCEPT ![t] = "forked"]
  /\ holders' = [d \in DOMAIN holders |->
                   IF Server \in holders[d] THEN holders[d] \cup {t} ELSE holders[d]]
  /\ UNCHANGED <<server, in, out, sent, todo, reply, requestVars>>

\* Bug: line 348 is left out.
KeepsOut == {}

\* The end line 348 closes.
ClosesOut == {"pocgi1"}

\* The first line of the response, and one end of the one pipe.
Status(t) ==
  /\ At(t, "status")
  /\ \/ /\ Goto(t, "close_in")
        /\ holders' = Closed(t, ClosesOut)
        /\ UNCHANGED <<server, in, out, sent, child, todo, reply, requestVars>>
     \/ WriteFails(t)

CloseIn(t) ==
  /\ At(t, "close_in")
  /\ Goto(t, "body")
  /\ holders' = Closed(t, {"picgi0"})
  /\ UNCHANGED <<server, in, out, sent, child, todo, reply, requestVars>>

\* A byte of the body: when the client has closed, read fails and the variable
\* keeps its last value, or what it held before the first (0).
BodyByte(t) == IF sent[t] < call[t].body.supply THEN sent[t] + 1 ELSE call[t].body.supply

\* Bug: the loop of line 351 runs once more.
OneMore(t) == call[t].method = "POST" /\ sent[t] <= call[t].body.length

MoreBody(t) == call[t].method = "POST" /\ sent[t] < call[t].body.length

HasRoom(bytes) == Len(bytes) < PipeSize

\* One turn of the loop of line 351.
Body(t) ==
  /\ At(t, "body") /\ MoreBody(t)
  /\ Holders(t, "picgi0") # {}
  /\ HasRoom(in[t])
  /\ in' = [in EXCEPT ![t] = Append(@, BodyByte(t))]
  /\ sent' = [sent EXCEPT ![t] = @ + 1]
  /\ UNCHANGED <<server, pc, holders, out, child, todo, reply, requestVars>>

\* Nothing ignores SIGPIPE here, as sgx_rush.c does.
BodyFails(t) ==
  /\ At(t, "body") /\ MoreBody(t)
  /\ Holders(t, "picgi0") = {}
  /\ Killed

BodyEnds(t) ==
  /\ At(t, "body") /\ ~ MoreBody(t)
  /\ Goto(t, "output")
  /\ UNCHANGED <<server, holders, in, out, sent, child, todo, reply, requestVars>>

\* One turn of the loop of line 357.
Output(t) ==
  /\ At(t, "output")
  /\ out[t] # <<>>
  /\ \/ /\ out' = [out EXCEPT ![t] = Tail(@)]
        /\ reply' = [reply EXCEPT ![t] = Append(@, Head(out[t]))]
        /\ UNCHANGED <<server, pc, holders, in, sent, child, todo, requestVars>>
     \/ WriteFails(t)

\* Bug: read does not wait, as if the descriptor did not block.
NothingNow(t) == out[t] = <<>>

\* read returns 0 only when nobody has the other end open.
EndOfOutput(t) == out[t] = <<>> /\ Holders(t, "pocgi1") = {}

OutputEnds(t) ==
  /\ At(t, "output")
  /\ EndOfOutput(t)
  /\ Goto(t, "close_in1")
  /\ holders' = Closed(t, {"pocgi0"})
  /\ UNCHANGED <<server, in, out, sent, child, todo, reply, requestVars>>

CloseIn1(t) ==
  /\ At(t, "close_in1")
  /\ Goto(t, "waitpid")
  /\ holders' = Closed(t, {"picgi1"})
  /\ UNCHANGED <<server, in, out, sent, child, todo, reply, requestVars>>

WaitPid(t) ==
  /\ At(t, "waitpid")
  /\ child[t] = "exited"
  /\ Goto(t, "close")
  /\ child' = [child EXCEPT ![t] = "reaped"]
  /\ UNCHANGED <<server, holders, in, out, sent, todo, reply, requestVars>>

-----------------------------------------------------------------------------
(* The child *)

\* Bug: the child closes the end it should read from.
WrongEnds == {"pocgi0", "picgi1", "picgi0"}

\* The ends lines 331-332 close; the child keeps the others twice.
ChildCloses == {"pocgi0", "picgi1"}

\* What the child does after line 332: it runs the program; for a POST it may crash
\* before, as line 339 reads a pointer that nothing has set (line 335 compares what
\* line 333 wrote there, and never sees "POST"); and when execl fails, exit writes
\* what the server's standard output still had in its buffer, if anything.
Runnable(a) ==
  {a.program} \cup (IF a.method = "POST" THEN {<<>>} ELSE {})
              \cup (IF a.program = <<>> THEN {<<"write">>} ELSE {})

\* Lines 328-345, up to the program's first step.
ChildStart(t) ==
  /\ server = "up" /\ child[t] = "forked"
  /\ child' = [child EXCEPT ![t] = "running"]
  /\ \E steps \in Runnable(call[t]) : todo' = [todo EXCEPT ![t] = steps]
  /\ holders' = [d \in DOMAIN holders |->
                   IF d \in {t} \X ChildCloses THEN holders[d] \ {t} ELSE holders[d]]
  /\ UNCHANGED <<server, pc, in, out, sent, reply, requestVars>>

Runs(t, op) == server = "up" /\ child[t] = "running" /\ todo[t] # <<>> /\ Head(todo[t]) = op

NextOp(t) == todo' = [todo EXCEPT ![t] = Tail(@)]

Taken(t) ==
  /\ in[t] # <<>>
  /\ in' = [in EXCEPT ![t] = Tail(@)]
  /\ got' = [got EXCEPT ![t] = Append(@, Head(in[t]))]

\* A read of an empty pipe waits: it has no end of file before CloseIn1, which
\* comes when the child has ended.
ProgramReads(t) ==
  /\ \/ Runs(t, "read") /\ NextOp(t) /\ Taken(t)
     \/ Runs(t, "drain") /\ Taken(t) /\ UNCHANGED todo
  /\ UNCHANGED <<server, pc, holders, out, sent, child, reply, call, wrote>>

ProgramWrites(t) ==
  /\ Runs(t, "write")
  /\ HasRoom(out[t])
  /\ NextOp(t)
  /\ out' = [out EXCEPT ![t] = Append(@, wrote[t] + 1)]
  /\ wrote' = [wrote EXCEPT ![t] = @ + 1]
  /\ UNCHANGED <<server, pc, holders, in, sent, child, reply, call, got>>

ProgramExits(t) ==
  /\ server = "up" /\ child[t] = "running" /\ todo[t] = <<>>
  /\ child' = [child EXCEPT ![t] = "exited"]
  /\ holders' = [d \in DOMAIN holders |-> holders[d] \ {t}]
  /\ UNCHANGED <<server, pc, in, out, sent, todo, reply, requestVars>>

-----------------------------------------------------------------------------
ThreadStep(t) ==
  \/ Refuse(t) \/ SendFile(t) \/ Close(t)
  \/ PipeOut(t) \/ PipeIn(t) \/ Fork(t) \/ ForkFails(t)
  \/ Status(t) \/ CloseIn(t)
  \/ Body(t) \/ BodyFails(t) \/ BodyEnds(t)
  \/ Output(t) \/ OutputEnds(t) \/ CloseIn1(t) \/ WaitPid(t)

ChildStep(t) ==
  \/ ChildStart(t)
  \/ ProgramReads(t) \/ ProgramWrites(t) \/ ProgramExits(t)

Next == AcceptFails \/ \E t \in Threads : Accept(t) \/ ThreadStep(t) \/ ChildStep(t)

SafeSpec == Init /\ [][Next]_vars

(***************************************************************************)
(* Fairness: threads and children that can take a step take one.  Clients  *)
(* need not connect, but send the body they announce, or close.            *)
(***************************************************************************)
Spec ==
  SafeSpec /\ \A t \in Threads : WF_vars(ThreadStep(t)) /\ WF_vars(ChildStep(t))

-----------------------------------------------------------------------------
(* Properties *)

\* Counting from 1 to n.
Count(n) == [k \in 1..n |-> k]

\* When a thread has returned, by whatever way, the server has nothing of its
\* request open, and no child of it is left to be waited for.
NothingLeft ==
  \A t \in Threads : pc[t] = "done" =>
    /\ \A d \in Descriptors : Server \notin Holders(t, d)
    /\ child[t] \in {"none", "reaped"}

\* The client gets what the program writes, in order, and all of it before the
\* connection is closed, though other children may hold the ends of the pipe.
ReplyIsOutput ==
  \A t \in Threads :
    /\ reply[t] \o out[t] = Count(wrote[t])
    /\ child[t] = "reaped" => reply[t] = Count(wrote[t]) /\ todo[t] = <<>>

\* A program reads the body the client has sent; one that reads on when the client
\* has closed gets the last byte again, and never a byte too many.
InputIsBody ==
  \A t \in Threads : \A k \in DOMAIN got[t] :
    /\ k <= call[t].body.length
    /\ got[t][k] = IF k <= call[t].body.supply THEN k ELSE call[t].body.supply

\* The server is killed only by a client who goes, a file that cannot be opened,
\* or a child that has ended without having read what was announced for it.
KilledFor(t) ==
  \/ call[t].hangs
  \/ pc[t] = "request" /\ ~ RunsProgram(call[t])
  \/ child[t] = "exited" /\ Len(got[t]) < call[t].body.length

KilledForAReason == server = "killed" => \E t \in Threads : KilledFor(t)

\* How many bytes line 353 has for a program.
Input(a) == IF a.method = "POST" /\ a.body.length > 0 THEN a.body.length ELSE 0

\* How often a program does op in its first n steps.
Often(a, op, n) == Cardinality({k \in 1..n : a.program[k] = op})

\* A program that reads no more than is sent for it, and that reads, before it writes
\* more than its pipe holds, so much that the other pipe holds the rest: until all
\* its input is in the pipe, nobody takes what it writes.
WellBehaved(a) ==
  /\ \A k \in DOMAIN a.program :
       /\ a.program[k] # "drain"
       /\ a.program[k] = "write" /\ Often(a, "write", k) > PipeSize =>
            Input(a) <= Often(a, "read", k) + PipeSize
  /\ Often(a, "read", Len(a.program)) <= Input(a)

\* If all programs are such, every connection whose thread was started is closed in
\* the end, in every process that has it.
ConnectionsEnd ==
  (\A t \in Threads : WellBehaved(call[t])) =>
    \A t \in Threads : pc[t] = "request" ~> Holders(t, "cfd") = {} \/ server # "up"

\* sgx_mini.c:50 says that sgx_request_cgi handles the client's request: its
\* thread comes back from it.
RequestsHandled ==
  \A t \in Threads : pc[t] = "request" ~> pc[t] = "done" \/ server # "up"
=============================================================================
