-------------------------- MODULE MiniServerProofs --------------------------
(***************************************************************************)
(* Proofs about the mini server, for any number of connections, any size   *)
(* of pipe and any programs.                                               *)
(***************************************************************************)
EXTENDS MiniServer, SequenceTheorems, TLAPS

-----------------------------------------------------------------------------
(* The inductive invariant *)

Labels == {"none", "unstarted", "request", "pipe", "fork", "status", "close_in", "body", "output",
           "close_in1", "waitpid", "close", "done"}

Ops == {"read", "drain", "write"}

\* Every variable has its type.
TypeOK ==
  /\ server \in {"up", "killed", "returned"}
  /\ call \in [Threads -> Calls]
  /\ pc \in [Threads -> Labels]
  /\ holders \in [Threads \X Descriptors -> SUBSET (Threads \cup {Server})]
  /\ in \in [Threads -> Seq(Int)] /\ out \in [Threads -> Seq(Int)]
  /\ sent \in [Threads -> Nat] /\ wrote \in [Threads -> Nat]
  /\ child \in [Threads -> {"none", "forked", "running", "exited", "reaped"}]
  /\ todo \in [Threads -> Seq(Ops)]
  /\ got \in [Threads -> Seq(Int)] /\ reply \in [Threads -> Seq(Int)]

\* What the server has open of a request whose thread is at a label.
OpenAt(label) ==
  {d \in Descriptors :
     \/ d = "cfd" /\ label \notin {"none", "done"}
     \/ d = "pocgi1" /\ label \in {"pipe", "fork", "status"}
     \/ d = "pocgi0" /\ label \in {"pipe", "fork", "status", "close_in", "body", "output"}
     \/ d = "picgi0" /\ label \in {"fork", "status", "close_in"}
     \/ d = "picgi1" /\ label \in {"fork", "status", "close_in", "body", "output", "close_in1"}}

ServerHas ==
  \A t \in Threads, d \in Descriptors : Server \in Holders(t, d) <=> d \in OpenAt(pc[t])

\* A child that has not ended has the two ends its program uses.
ChildHas ==
  \A t \in Threads : child[t] \in {"forked", "running"} =>
    t \in Holders(t, "pocgi1") /\ t \in Holders(t, "picgi0")

\* A thread forks once, waits for its child once, and hears of its end before.
ChildInv ==
  \A t \in Threads :
    /\ pc[t] \in {"none", "unstarted", "request", "pipe", "fork"} => child[t] = "none"
    /\ pc[t] \in {"status", "close_in", "body", "output"} =>
         child[t] \in {"forked", "running", "exited"}
    /\ pc[t] \in {"close_in1", "waitpid"} => child[t] = "exited" /\ out[t] = <<>>
    /\ pc[t] \in {"close", "done"} => child[t] \in {"none", "reaped"}
    /\ child[t] \in {"exited", "reaped"} => todo[t] = <<>>
    /\ child[t] = "reaped" => out[t] = <<>>

\* What was written is what came through the pipe and what is still in it.
OutputInv == \A t \in Threads : reply[t] \o out[t] = Count(wrote[t])

\* The k-th byte of a body that is read in full, as BodyByte has it.
Byte(t, k) == IF k <= call[t].body.supply THEN k ELSE call[t].body.supply

\* What was sent to the program is what it has read and what is still in the pipe.
InputInv ==
  \A t \in Threads :
    /\ got[t] \o in[t] = [k \in 1..sent[t] |-> Byte(t, k)]
    /\ sent[t] > 0 => sent[t] <= call[t].body.length

IInv ==
  /\ TypeOK
  /\ ServerHas
  /\ ChildHas
  /\ ChildInv
  /\ OutputInv
  /\ InputInv
  /\ KilledForAReason

-----------------------------------------------------------------------------
(* Sequences *)

\* Moving the head of one sequence to the end of another.
LEMMA HeadMoves ==
  ASSUME NEW S, NEW r \in Seq(S), NEW o \in Seq(S), o # <<>>
  PROVE  /\ Append(r, Head(o)) \in Seq(S)
         /\ Tail(o) \in Seq(S)
         /\ Append(r, Head(o)) \o Tail(o) = r \o o
<1>1. Head(o) \in S /\ Tail(o) \in Seq(S) /\ Len(Tail(o)) = Len(o) - 1 /\ Len(o) > 0
  OBVIOUS
<1>2. Append(r, Head(o)) \in Seq(S) /\ Len(Append(r, Head(o))) = Len(r) + 1
  BY <1>1
<1>3. \A k \in 1..Len(Tail(o)) : Tail(o)[k] = o[k + 1]
  OBVIOUS
<1>4. /\ Append(r, Head(o)) \o Tail(o) \in Seq(S)
      /\ Len(Append(r, Head(o)) \o Tail(o)) = Len(r) + Len(o)
      /\ r \o o \in Seq(S) /\ Len(r \o o) = Len(r) + Len(o)
  BY <1>1, <1>2
<1>5. ASSUME NEW k \in 1..(Len(r) + Len(o))
      PROVE  (Append(r, Head(o)) \o Tail(o))[k] = (r \o o)[k]
  BY <1>1, <1>2, <1>3
<1> QED
  BY <1>1, <1>2, <1>4, <1>5, SeqEqual

\* An element at the end of the second of two sequences is at the end of both.
LEMMA LastMoves ==
  ASSUME NEW S, NEW r \in Seq(S), NEW o \in Seq(S), NEW x \in S
  PROVE  r \o Append(o, x) = Append(r \o o, x)
  OBVIOUS

\* A sequence without its last element, and then with it.
LEMMA OneMoreValue ==
  ASSUME NEW n \in Nat, NEW g \in [1..(n + 1) -> Int]
  PROVE  /\ [k \in 1..n |-> g[k]] \in Seq(Int)
         /\ Len([k \in 1..n |-> g[k]]) = n
         /\ Append([k \in 1..n |-> g[k]], g[n + 1]) = g
  OBVIOUS

\* What the first of two sequences has is at the beginning of both.
LEMMA FirstPart ==
  ASSUME NEW S, NEW r \in Seq(S), NEW o \in Seq(S), NEW n \in Nat,
         DOMAIN (r \o o) = 1..n
  PROVE  /\ Len(r) \in Nat /\ Len(r) <= n
         /\ \A k \in 1..Len(r) : k \in 1..n /\ r[k] = (r \o o)[k]
<1>1. r \o o \in Seq(S) /\ Len(r \o o) = Len(r) + Len(o) /\ Len(r) \in Nat /\ Len(o) \in Nat
  BY ConcatProperties
<1>2. Len(r \o o) = n
  BY <1>1
<1>3. DOMAIN r = 1..Len(r) /\ \A k \in 1..Len(r) : (r \o o)[k] = r[k]
  BY <1>1, ConcatProperties
<1> QED
  BY <1>1, <1>2, <1>3

-----------------------------------------------------------------------------
(* Types *)

\* What the assumption says of a call.
LEMMA CallType ==
  ASSUME TypeOK, NEW t \in Threads
  PROVE  /\ call[t].body.length \in Int
         /\ call[t].body.supply \in Nat
         /\ call[t].program \in Seq(Ops)
         /\ Server # t
  BY ServerAssumption DEF TypeOK, Bodies, Ops

\* Descriptors that the server opens, or closes, are still held by processes.
LEMMA HoldersType ==
  ASSUME TypeOK, NEW t \in Threads, NEW ds
  PROVE  /\ Opened(t, ds) \in [Threads \X Descriptors -> SUBSET (Threads \cup {Server})]
         /\ Closed(t, ds) \in [Threads \X Descriptors -> SUBSET (Threads \cup {Server})]
  BY DEF TypeOK, Opened, Closed

\* What is left of a program after an operation.
LEMMA TodoType ==
  ASSUME TypeOK, NEW t \in Threads, todo[t] # <<>>, NextOp(t)
  PROVE  todo' \in [Threads -> Seq(Ops)]
<1>1. todo[t] \in Seq(Ops) /\ Tail(todo[t]) \in Seq(Ops)
  BY DEF TypeOK
<1> QED
  BY <1>1 DEF TypeOK, NextOp

LEMMA InitType == Init => TypeOK
  BY DEF Init, TypeOK, Labels

LEMMA ThreadType ==
  ASSUME TypeOK, NEW t \in Threads, Accept(t) \/ ThreadStep(t)
  PROVE  TypeOK'
<1>1. CASE Accept(t)
  BY <1>1, HoldersType DEF TypeOK, Accept, Goto, Labels, requestVars
<1>2. CASE Refuse(t) \/ SendFile(t)
  BY <1>2 DEF TypeOK, Refuse, SendFile, WriteFails, Killed, Goto, Labels, requestVars
<1>3. CASE Close(t)
  BY <1>3, HoldersType DEF TypeOK, Close, Goto, Labels, requestVars
<1>4. CASE PipeOut(t) \/ PipeIn(t) \/ ForkFails(t)
  <2>1. \/ Killed
        \/ /\ \E ds : holders' = Opened(t, ds) \/ holders' = Closed(t, ds)
           /\ \E label \in {"pipe", "fork", "close"} : Goto(t, label)
           /\ UNCHANGED <<server, in, out, sent, child, todo, reply, requestVars>>
    <3>1. CASE PipeOut(t)
      BY <3>1 DEF PipeOut, Opens, Fails, WriteFails
    <3>2. CASE PipeIn(t)
      BY <3>2 DEF PipeIn, Opens, Fails, WriteFails
    <3>3. CASE ForkFails(t)
      BY <3>3 DEF ForkFails, Fails, WriteFails
    <3> QED
      BY <1>4, <3>1, <3>2, <3>3
  <2>2. CASE Killed
    BY <2>2 DEF TypeOK, Killed, requestVars
  <2>3. CASE ~ Killed
    <3>1. holders' \in [Threads \X Descriptors -> SUBSET (Threads \cup {Server})]
      <4>1. PICK ds : holders' = Opened(t, ds) \/ holders' = Closed(t, ds)
        BY <2>1, <2>3
      <4>2. /\ Opened(t, ds) \in [Threads \X Descriptors -> SUBSET (Threads \cup {Server})]
            /\ Closed(t, ds) \in [Threads \X Descriptors -> SUBSET (Threads \cup {Server})]
        BY HoldersType
      <4> QED
        BY <4>1, <4>2
    <3>2. pc' \in [Threads -> Labels]
      BY <2>1, <2>3 DEF TypeOK, Goto, Labels
    <3> QED
      BY <2>1, <2>3, <3>1, <3>2 DEF TypeOK, requestVars
  <2> QED
    BY <2>2, <2>3
<1>5. CASE Fork(t)
  <2>1. holders' \in [Threads \X Descriptors -> SUBSET (Threads \cup {Server})]
    BY <1>5 DEF TypeOK, Fork
  <2> QED
    BY <1>5, <2>1 DEF TypeOK, Fork, Goto, Labels, requestVars
<1>7. CASE Status(t) \/ CloseIn(t)
  <2>1. CASE Status(t)
    <3>1. CASE WriteFails(t)
      BY <3>1 DEF TypeOK, WriteFails, Killed, requestVars
    <3>2. CASE Goto(t, "close_in") /\ holders' = Closed(t, ClosesOut)
               /\ UNCHANGED <<server, in, out, sent, child, todo, reply, requestVars>>
      BY <3>2, HoldersType DEF TypeOK, Goto, Labels, requestVars
    <3> QED
      BY <2>1, <3>1, <3>2 DEF Status
  <2>2. CASE CloseIn(t)
    BY <2>2, HoldersType DEF TypeOK, CloseIn, Goto, Labels, requestVars
  <2> QED
    BY <1>7, <2>1, <2>2
<1>8. CASE Body(t)
  <2>1. BodyByte(t) \in Int
    BY CallType DEF BodyByte, TypeOK
  <2> QED
    BY <1>8, <2>1 DEF TypeOK, Body, requestVars
<1>9. CASE BodyFails(t) \/ BodyEnds(t)
  BY <1>9 DEF TypeOK, BodyFails, BodyEnds, Killed, Goto, Labels, requestVars
<1>10. CASE Output(t)
  <2>1. CASE out[t] # <<>> /\ UNCHANGED <<server, pc, holders, in, sent, child, todo, requestVars>>
             /\ out' = [out EXCEPT ![t] = Tail(@)]
             /\ reply' = [reply EXCEPT ![t] = Append(@, Head(out[t]))]
    <3>1. Append(reply[t], Head(out[t])) \in Seq(Int) /\ Tail(out[t]) \in Seq(Int)
      BY <2>1, HeadMoves DEF TypeOK
    <3> QED
      BY <2>1, <3>1 DEF TypeOK, requestVars
  <2>2. CASE WriteFails(t)
    BY <2>2 DEF TypeOK, WriteFails, Killed, requestVars
  <2> QED
    BY <1>10, <2>1, <2>2 DEF Output
<1>11. CASE OutputEnds(t) \/ CloseIn1(t)
  <2>1. CASE OutputEnds(t)
    BY <2>1, HoldersType DEF TypeOK, OutputEnds, Goto, Labels, requestVars
  <2>2. CASE CloseIn1(t)
    BY <2>2, HoldersType DEF TypeOK, CloseIn1, Goto, Labels, requestVars
  <2> QED
    BY <1>11, <2>1, <2>2
<1>12. CASE WaitPid(t)
  BY <1>12 DEF TypeOK, WaitPid, Goto, Labels, requestVars
<1> QED
  BY <1>1, <1>2, <1>3, <1>4, <1>5, <1>7, <1>8, <1>9, <1>10, <1>11, <1>12 DEF ThreadStep

LEMMA ChildType ==
  ASSUME TypeOK, NEW t \in Threads, ChildStep(t)
  PROVE  TypeOK'
<1>1. CASE ChildStart(t)
  <2>1. holders' \in [Threads \X Descriptors -> SUBSET (Threads \cup {Server})]
    BY <1>1 DEF TypeOK, ChildStart
  <2>2. \A steps \in Runnable(call[t]) : steps \in Seq(Ops)
    <3>1. <<>> \in Seq(Ops) /\ <<"write">> \in Seq(Ops)
      BY DEF Ops
    <3> QED
      BY <3>1, CallType DEF Runnable
  <2> QED
    BY <1>1, <2>1, <2>2 DEF TypeOK, ChildStart, requestVars
<1>2. CASE ProgramReads(t)
  <2>1. in[t] # <<>> /\ in[t] \in Seq(Int) /\ got[t] \in Seq(Int)
    BY <1>2 DEF ProgramReads, Taken, TypeOK
  <2>2. Append(got[t], Head(in[t])) \in Seq(Int) /\ Tail(in[t]) \in Seq(Int)
    BY <2>1, HeadMoves
  <2>3. in' \in [Threads -> Seq(Int)] /\ got' \in [Threads -> Seq(Int)]
    <3>1. /\ in' = [in EXCEPT ![t] = Tail(in[t])]
          /\ got' = [got EXCEPT ![t] = Append(got[t], Head(in[t]))]
      BY <1>2 DEF ProgramReads, Taken
    <3>2. in \in [Threads -> Seq(Int)] /\ got \in [Threads -> Seq(Int)]
      BY DEF TypeOK
    <3>3. in' \in [Threads -> Seq(Int)]
      BY <2>2, <3>1, <3>2
    <3>4. got' \in [Threads -> Seq(Int)]
      BY <2>2, <3>1, <3>2
    <3> QED
      BY <3>3, <3>4
  <2>4. todo' \in [Threads -> Seq(Ops)]
    BY <1>2, TodoType DEF ProgramReads, Runs, TypeOK
  <2> QED
    BY <1>2, <2>3, <2>4 DEF TypeOK, ProgramReads
<1>3. CASE ProgramWrites(t)
  <2>1. todo' \in [Threads -> Seq(Ops)]
    BY <1>3, TodoType DEF ProgramWrites, Runs, TypeOK
  <2>2. Append(out[t], wrote[t] + 1) \in Seq(Int)
    BY DEF TypeOK
  <2>3. out' \in [Threads -> Seq(Int)]
    BY <1>3, <2>2 DEF TypeOK, ProgramWrites
  <2>4. wrote' \in [Threads -> Nat]
    BY <1>3 DEF TypeOK, ProgramWrites
  <2> QED
    BY <1>3, <2>1, <2>3, <2>4 DEF TypeOK, ProgramWrites
<1>4. CASE ProgramExits(t)
  <2>1. holders' \in [Threads \X Descriptors -> SUBSET (Threads \cup {Server})]
    BY <1>4 DEF TypeOK, ProgramExits
  <2> QED
    BY <1>4, <2>1 DEF TypeOK, ProgramExits, requestVars
<1> QED
  BY <1>1, <1>2, <1>3, <1>4 DEF ChildStep

LEMMA NextType ==
  ASSUME TypeOK, [Next]_vars
  PROVE  TypeOK'
<1>1. CASE AcceptFails \/ UNCHANGED vars
  BY <1>1 DEF TypeOK, AcceptFails, vars, requestVars
<1> QED
  BY <1>1, ThreadType, ChildType DEF Next

-----------------------------------------------------------------------------
(* What the server has open *)

\* The descriptors of a thread that moves from one label to another, having
\* opened ds, or closed ds, or neither.
LEMMA ServerOpens ==
  ASSUME TypeOK, ServerHas, NEW t \in Threads, NEW label \in Labels, NEW ds,
         Goto(t, label), holders' = Opened(t, ds),
         OpenAt(label) = OpenAt(pc[t]) \cup ds
  PROVE  ServerHas'
<1>1. ASSUME NEW u \in Threads, NEW d \in Descriptors
      PROVE  (Server \in Holders(u, d) <=> d \in OpenAt(pc[u]))'
  <2>1. holders'[<<u, d>>] = IF u = t /\ d \in ds THEN {Server} ELSE holders[<<u, d>>]
    BY DEF TypeOK, Opened
  <2>2. pc'[u] = IF u = t THEN label ELSE pc[u]
    BY DEF TypeOK, Goto
  <2>3. Server \in holders[<<u, d>>] <=> d \in OpenAt(pc[u])
    BY DEF ServerHas, Holders
  <2>4. d \in OpenAt(pc'[u]) <=> d \in OpenAt(pc[u]) \/ (u = t /\ d \in ds)
    BY <2>2
  <2>5. (d \in OpenAt(pc[u]))' <=> d \in OpenAt(pc'[u])
    BY DEF OpenAt
  <2> QED
    BY <2>1, <2>3, <2>4, <2>5 DEF Holders
<1> QED
  BY <1>1 DEF ServerHas

LEMMA ServerCloses ==
  ASSUME TypeOK, ServerHas, NEW t \in Threads, NEW label \in Labels, NEW ds,
         Goto(t, label), holders' = Closed(t, ds),
         OpenAt(label) = OpenAt(pc[t]) \ ds
  PROVE  ServerHas'
<1>1. ASSUME NEW u \in Threads, NEW d \in Descriptors
      PROVE  (Server \in Holders(u, d) <=> d \in OpenAt(pc[u]))'
  <2>1. holders'[<<u, d>>] =
          IF u = t /\ d \in ds THEN holders[<<u, d>>] \ {Server} ELSE holders[<<u, d>>]
    BY DEF TypeOK, Closed
  <2>2. pc'[u] = IF u = t THEN label ELSE pc[u]
    BY DEF TypeOK, Goto
  <2>3. Server \in holders[<<u, d>>] <=> d \in OpenAt(pc[u])
    BY DEF ServerHas, Holders
  <2>4. d \in OpenAt(pc'[u]) <=> d \in OpenAt(pc[u]) /\ ~ (u = t /\ d \in ds)
    BY <2>2
  <2>5. (d \in OpenAt(pc[u]))' <=> d \in OpenAt(pc'[u])
    BY DEF OpenAt
  <2> QED
    BY <2>1, <2>3, <2>4, <2>5 DEF Holders
<1> QED
  BY <1>1 DEF ServerHas

LEMMA ServerKeeps ==
  ASSUME TypeOK, ServerHas, NEW t \in Threads, NEW label \in Labels,
         Goto(t, label) \/ (UNCHANGED pc /\ label = pc[t]),
         \A u \in Threads, d \in Descriptors :
           Server \in holders'[<<u, d>>] <=> Server \in holders[<<u, d>>],
         OpenAt(label) = OpenAt(pc[t])
  PROVE  ServerHas'
<1>1. ASSUME NEW u \in Threads, NEW d \in Descriptors
      PROVE  (Server \in Holders(u, d) <=> d \in OpenAt(pc[u]))'
  <2>2. pc'[u] = IF u = t THEN label ELSE pc[u]
    BY DEF TypeOK, Goto
  <2>3. Server \in holders[<<u, d>>] <=> d \in OpenAt(pc[u])
    BY DEF ServerHas, Holders
  <2>4. d \in OpenAt(pc'[u]) <=> d \in OpenAt(pc[u])
    BY <2>2
  <2>5. (d \in OpenAt(pc[u]))' <=> d \in OpenAt(pc'[u])
    BY DEF OpenAt
  <2> QED
    BY <2>3, <2>4, <2>5 DEF Holders
<1> QED
  BY <1>1 DEF ServerHas

LEMMA WhenKilled ==
  ASSUME ServerHas, Killed
  PROVE  ServerHas'
  BY DEF ServerHas, Killed, Holders, OpenAt

LEMMA ThreadServerHas ==
  ASSUME TypeOK, ServerHas, NEW t \in Threads, Accept(t) \/ ThreadStep(t)
  PROVE  ServerHas'
<1>1. CASE Accept(t)
  <2>1. PICK label \in {"request", "unstarted"} : Goto(t, label)
    BY <1>1 DEF Accept
  <2>2. OpenAt(label) = OpenAt(pc[t]) \cup {"cfd"}
    BY <1>1 DEF Accept, At, OpenAt, Descriptors
  <2> QED
    BY <1>1, <2>1, <2>2, ServerOpens DEF Accept, Labels
<1>2. CASE Refuse(t) \/ SendFile(t)
  <2>1. UNCHANGED holders /\ (Goto(t, "close") \/ UNCHANGED pc) /\ pc[t] = "request"
    BY <1>2 DEF Refuse, SendFile, WriteFails, Killed, At
  <2>2. OpenAt("close") = OpenAt("request")
    BY DEF OpenAt
  <2> QED
    BY <2>1, <2>2, ServerKeeps DEF Labels
<1>3. CASE Close(t)
  <2>1. OpenAt("done") = OpenAt(pc[t]) \ {"cfd"}
    BY <1>3 DEF Close, At, OpenAt
  <2> QED
    BY <1>3, <2>1, ServerCloses DEF Close, Labels
<1>4. CASE PipeOut(t)
  <2>1. /\ OpenAt("pipe") = OpenAt(pc[t]) \cup {"pocgi0", "pocgi1"}
        /\ OpenAt("close") = OpenAt(pc[t]) \ {}
    BY <1>4 DEF PipeOut, Opens, At, OpenAt, Descriptors
  <2> QED
    BY <1>4, <2>1, ServerOpens, ServerCloses, WhenKilled
    DEF PipeOut, Opens, Fails, WriteFails, Labels
<1>5. CASE PipeIn(t)
  <2>1. /\ OpenAt("fork") = OpenAt(pc[t]) \cup {"picgi0", "picgi1"}
        /\ OpenAt("close") = OpenAt(pc[t]) \ {"pocgi0", "pocgi1"}
    BY <1>5 DEF PipeIn, Opens, At, OpenAt, Descriptors
  <2> QED
    BY <1>5, <2>1, ServerOpens, ServerCloses, WhenKilled
    DEF PipeIn, Opens, Fails, WriteFails, Labels
<1>6. CASE Fork(t)
  <2>1. OpenAt("status") = OpenAt(pc[t])
    BY <1>6 DEF Fork, At, OpenAt
  <2>2. \A u \in Threads, d \in Descriptors :
          Server \in holders'[<<u, d>>] <=> Server \in holders[<<u, d>>]
    BY <1>6, CallType DEF Fork, TypeOK
  <2> QED
    BY <1>6, <2>1, <2>2, ServerKeeps DEF Fork, Labels
<1>7. CASE ForkFails(t)
  <2>1. OpenAt("close") = OpenAt(pc[t]) \ AllTheEnds
    BY <1>7 DEF ForkFails, At, OpenAt, AllTheEnds, Pipes, Descriptors
  <2> QED
    BY <1>7, <2>1, ServerCloses, WhenKilled DEF ForkFails, Fails, WriteFails, Labels
<1>8. CASE Status(t)
  <2>1. CASE WriteFails(t)
    BY <2>1, WhenKilled DEF WriteFails
  <2>2. CASE pc[t] = "status" /\ Goto(t, "close_in") /\ holders' = Closed(t, ClosesOut)
    <3>1. OpenAt("close_in") = OpenAt(pc[t]) \ ClosesOut
      BY <2>2 DEF OpenAt, ClosesOut
    <3> QED
      BY <2>2, <3>1, ServerCloses DEF Labels
  <2> QED
    BY <1>8, <2>1, <2>2 DEF Status, At
<1>9. CASE CloseIn(t)
  <2>1. OpenAt("body") = OpenAt(pc[t]) \ {"picgi0"}
    BY <1>9 DEF CloseIn, At, OpenAt
  <2> QED
    BY <1>9, <2>1, ServerCloses DEF CloseIn, Labels
<1>10. CASE Body(t) \/ BodyFails(t) \/ Output(t)
  <2>1. UNCHANGED <<pc, holders>>
    BY <1>10 DEF Body, BodyFails, Output, WriteFails, Killed
  <2> QED
    BY <2>1, ServerKeeps DEF TypeOK
<1>11. CASE BodyEnds(t)
  <2>1. OpenAt("output") = OpenAt(pc[t])
    BY <1>11 DEF BodyEnds, At, OpenAt
  <2> QED
    BY <1>11, <2>1, ServerKeeps DEF BodyEnds, Labels
<1>12. CASE OutputEnds(t)
  <2>1. OpenAt("close_in1") = OpenAt(pc[t]) \ {"pocgi0"}
    BY <1>12 DEF OutputEnds, At, OpenAt
  <2> QED
    BY <1>12, <2>1, ServerCloses DEF OutputEnds, Labels
<1>13. CASE CloseIn1(t)
  <2>1. OpenAt("waitpid") = OpenAt(pc[t]) \ {"picgi1"}
    BY <1>13 DEF CloseIn1, At, OpenAt
  <2> QED
    BY <1>13, <2>1, ServerCloses DEF CloseIn1, Labels
<1>14. CASE WaitPid(t)
  <2>1. OpenAt("close") = OpenAt(pc[t])
    BY <1>14 DEF WaitPid, At, OpenAt
  <2> QED
    BY <1>14, <2>1, ServerKeeps DEF WaitPid, Labels
<1> QED
  BY <1>1, <1>2, <1>3, <1>4, <1>5, <1>6, <1>7, <1>8, <1>9, <1>10, <1>11, <1>12, <1>13, <1>14
  DEF ThreadStep

\* A child opens and closes nothing for the server.
LEMMA ChildServerHas ==
  ASSUME TypeOK, ServerHas, NEW t \in Threads, ChildStep(t)
  PROVE  ServerHas'
<1>1. \A u \in Threads, d \in Descriptors :
        Server \in holders'[<<u, d>>] <=> Server \in holders[<<u, d>>]
  <2>1. Server # t /\ DOMAIN holders = Threads \X Descriptors
    BY CallType DEF TypeOK
  <2>2. CASE ChildStart(t)
    BY <2>1, <2>2 DEF ChildStart
  <2>3. CASE ProgramExits(t)
    BY <2>1, <2>3 DEF ProgramExits
  <2>4. CASE ProgramReads(t) \/ ProgramWrites(t)
    <3>1. holders' = holders
      BY <2>4 DEF ProgramReads, ProgramWrites
    <3> QED
      BY <3>1
  <2> QED
    BY <2>2, <2>3, <2>4 DEF ChildStep
<1>2. UNCHANGED pc /\ pc[t] \in Labels
  BY DEF ChildStep, ChildStart, ProgramReads, ProgramWrites, ProgramExits, TypeOK
<1> QED
  BY <1>1, <1>2, ServerKeeps

LEMMA NextServerHas ==
  ASSUME TypeOK, ServerHas, [Next]_vars
  PROVE  ServerHas'
<1>1. CASE AcceptFails \/ UNCHANGED vars
  <2>1. holders' = holders /\ pc' = pc
    BY <1>1 DEF AcceptFails, vars
  <2> QED
    BY <2>1 DEF ServerHas, Holders
<1> QED
  BY <1>1, ThreadServerHas, ChildServerHas DEF Next

-----------------------------------------------------------------------------
(* The child *)

\* A child has no end of its pipes before the fork, so that opening them again
\* takes nothing from it; the server's closing an end leaves the child's.
LEMMA ThreadChildHas ==
  ASSUME TypeOK, ServerHas, ChildHas, ChildInv,
         NEW t \in Threads, Accept(t) \/ ThreadStep(t)
  PROVE  ChildHas'
<1>1. CASE Accept(t)
  BY <1>1 DEF Accept, At, Opened, ChildHas, ChildInv, Holders, TypeOK, requestVars, Descriptors
<1>2. CASE UNCHANGED <<child, holders>>
  BY <1>2 DEF ChildHas, Holders
<1>3. ASSUME NEW ds, holders' = Closed(t, ds), UNCHANGED child
      PROVE  ChildHas'
  BY <1>3, CallType DEF Closed, ChildHas, Holders, TypeOK, Descriptors
<1>4. CASE PipeOut(t)
  <2>1. CASE holders' = Opened(t, {"pocgi0", "pocgi1"})
    BY <1>4, <2>1
    DEF PipeOut, Opens, Fails, WriteFails, Killed, At, Opened, ChildHas, ChildInv, Holders, TypeOK,
        requestVars, Descriptors
  <2> QED
    BY <1>2, <1>3, <1>4, <2>1 DEF PipeOut, Opens, Fails, WriteFails, Killed
<1>5. CASE PipeIn(t)
  <2>1. CASE holders' = Opened(t, {"picgi0", "picgi1"})
    BY <1>5, <2>1
    DEF PipeIn, Opens, Fails, WriteFails, Killed, At, Opened, ChildHas, ChildInv, Holders, TypeOK,
        requestVars, Descriptors
  <2> QED
    BY <1>2, <1>3, <1>5, <2>1 DEF PipeIn, Opens, Fails, WriteFails, Killed
<1>6. CASE Fork(t)
  <2>1. ASSUME NEW u \in Threads, NEW d \in {"pocgi1", "picgi0"},
               child'[u] \in {"forked", "running"}
        PROVE  u \in holders'[<<u, d>>]
    <3>1. d \in Descriptors /\ holders[<<u, d>>] \subseteq holders'[<<u, d>>]
      BY <1>6 DEF Fork, TypeOK, Descriptors
    <3>2. CASE u = t
      <4>1. Server \in holders[<<t, d>>]
        BY <1>6, <3>1 DEF Fork, At, ServerHas, Holders, OpenAt
      <4> QED
        BY <1>6, <3>1, <3>2, <4>1 DEF Fork, TypeOK
    <3>3. CASE u # t
      BY <1>6, <2>1, <3>1, <3>3 DEF Fork, TypeOK, ChildHas, Holders
    <3> QED
      BY <3>2, <3>3
  <2> QED
    BY <2>1 DEF ChildHas, Holders
<1>7. CASE WaitPid(t)
  BY <1>7 DEF WaitPid, ChildHas, Holders, TypeOK
<1>8. CASE Close(t) \/ ForkFails(t) \/ Status(t) \/ CloseIn(t) \/ OutputEnds(t) \/ CloseIn1(t)
  BY <1>2, <1>3, <1>8
  DEF Close, ForkFails, Fails, Status, CloseIn, OutputEnds, CloseIn1, WriteFails, Killed
<1>9. CASE Refuse(t) \/ SendFile(t) \/ Body(t) \/ BodyFails(t) \/ BodyEnds(t) \/ Output(t)
  BY <1>2, <1>9 DEF Refuse, SendFile, Body, BodyFails, BodyEnds, Output, WriteFails, Killed
<1> QED
  BY <1>1, <1>4, <1>5, <1>6, <1>7, <1>8, <1>9 DEF ThreadStep

LEMMA ChildChildHas ==
  ASSUME TypeOK, ChildHas, NEW t \in Threads, ChildStep(t)
  PROVE  ChildHas'
<1>1. CASE ChildStart(t)
  BY <1>1 DEF ChildStart, ChildCloses, ChildHas, Holders, TypeOK, Descriptors
<1>2. CASE ProgramReads(t) \/ ProgramWrites(t)
  BY <1>2 DEF ProgramReads, ProgramWrites, ChildHas, Holders
<1>3. CASE ProgramExits(t)
  BY <1>3 DEF ProgramExits, ChildHas, Holders, TypeOK, Descriptors
<1> QED
  BY <1>1, <1>2, <1>3 DEF ChildStep

LEMMA NextChildHas ==
  ASSUME TypeOK, ServerHas, ChildHas, ChildInv, [Next]_vars
  PROVE  ChildHas'
<1>1. CASE AcceptFails \/ UNCHANGED vars
  BY <1>1 DEF ChildHas, Holders, AcceptFails, vars
<1> QED
  BY <1>1, ThreadChildHas, ChildChildHas DEF Next

\* What ChildInv says of one thread.
ChildOf(t) ==
  /\ pc[t] \in {"none", "unstarted", "request", "pipe", "fork"} => child[t] = "none"
  /\ pc[t] \in {"status", "close_in", "body", "output"} =>
       child[t] \in {"forked", "running", "exited"}
  /\ pc[t] \in {"close_in1", "waitpid"} => child[t] = "exited" /\ out[t] = <<>>
  /\ pc[t] \in {"close", "done"} => child[t] \in {"none", "reaped"}
  /\ child[t] \in {"exited", "reaped"} => todo[t] = <<>>
  /\ child[t] = "reaped" => out[t] = <<>>

LEMMA ChildOfAll == ChildInv <=> \A t \in Threads : ChildOf(t)
  BY DEF ChildInv, ChildOf

\* Two threads have nothing of this in common.
LEMMA OtherChildren ==
  ASSUME TypeOK, ChildInv, NEW t \in Threads,
         Accept(t) \/ ThreadStep(t) \/ ChildStep(t),
         NEW u \in Threads, u # t
  PROVE  /\ pc'[u] = pc[u] /\ child'[u] = child[u]
         /\ out'[u] = out[u] /\ todo'[u] = todo[u]
         /\ ChildOf(u)'
<1>1. pc'[u] = pc[u] /\ child'[u] = child[u]
  BY DEF Accept, ThreadStep, ChildStep, Refuse, SendFile, Close, PipeOut, PipeIn, Opens, Fails, Fork,
         ForkFails, Status, CloseIn, Body, BodyFails, BodyEnds, Output, OutputEnds, CloseIn1,
         WaitPid, ChildStart, ProgramReads, ProgramWrites, ProgramExits, WriteFails, Killed,
         Goto, TypeOK
<1>2. out'[u] = out[u] /\ todo'[u] = todo[u]
  BY DEF Accept, ThreadStep, ChildStep, Refuse, SendFile, Close, PipeOut, PipeIn, Opens, Fails, Fork,
         ForkFails, Status, CloseIn, Body, BodyFails, BodyEnds, Output, OutputEnds, CloseIn1,
         WaitPid, ChildStart, ProgramReads, ProgramWrites, ProgramExits, WriteFails, Killed,
         NextOp, TypeOK
<1> QED
  BY <1>1, <1>2, ChildOfAll DEF ChildOf

\* Only a child that has ended leaves no writer of its pipe.
LEMMA EndOfOutputMeansExit ==
  ASSUME TypeOK, ChildHas, ChildInv, NEW t \in Threads, pc[t] = "output", EndOfOutput(t)
  PROVE  child[t] = "exited" /\ out[t] = <<>>
  BY DEF EndOfOutput, ChildHas, ChildInv

LEMMA ThreadChildInv ==
  ASSUME TypeOK, ChildHas, ChildInv, NEW t \in Threads, Accept(t) \/ ThreadStep(t)
  PROVE  ChildInv'
<1> SUFFICES ChildOf(t)'
  BY OtherChildren DEF ChildInv, ChildOf
<1>1. ChildOf(t)
  BY ChildOfAll
<1>2. CASE Accept(t)
  BY <1>1, <1>2 DEF Accept, At, Goto, TypeOK, ChildOf
<1>3. CASE Refuse(t) \/ SendFile(t)
  BY <1>1, <1>3 DEF Refuse, SendFile, WriteFails, Killed, At, Goto, TypeOK, ChildOf
<1>4. CASE Close(t)
  BY <1>1, <1>4 DEF Close, At, Goto, TypeOK, ChildOf
<1>5. CASE PipeOut(t) \/ PipeIn(t) \/ ForkFails(t)
  BY <1>1, <1>5
  DEF PipeOut, PipeIn, ForkFails, Opens, Fails, WriteFails, Killed, At, Goto, TypeOK, ChildOf
<1>6. CASE Fork(t)
  BY <1>1, <1>6 DEF Fork, At, Goto, TypeOK, ChildOf
<1>7. CASE Status(t) \/ CloseIn(t)
  BY <1>1, <1>7 DEF Status, CloseIn, WriteFails, Killed, At, Goto, TypeOK, ChildOf
<1>8. CASE Body(t) \/ BodyFails(t) \/ BodyEnds(t)
  BY <1>1, <1>8 DEF Body, BodyFails, BodyEnds, Killed, At, Goto, TypeOK, ChildOf
<1>9. CASE Output(t)
  BY <1>1, <1>9 DEF Output, WriteFails, Killed, At, TypeOK, ChildOf
<1>10. CASE OutputEnds(t)
  BY <1>1, <1>10, EndOfOutputMeansExit DEF OutputEnds, At, Goto, TypeOK, ChildOf
<1>11. CASE CloseIn1(t) \/ WaitPid(t)
  BY <1>1, <1>11 DEF CloseIn1, WaitPid, At, Goto, TypeOK, ChildOf
<1> QED
  BY <1>2, <1>3, <1>4, <1>5, <1>6, <1>7, <1>8, <1>9, <1>10, <1>11 DEF ThreadStep

LEMMA ChildChildInv ==
  ASSUME TypeOK, ChildInv, NEW t \in Threads, ChildStep(t)
  PROVE  ChildInv'
<1> SUFFICES ChildOf(t)'
  BY OtherChildren DEF ChildInv, ChildOf
<1>1. ChildOf(t) /\ pc[t] \in Labels
  BY ChildOfAll DEF TypeOK
<1>2. CASE ChildStart(t)
  BY <1>1, <1>2 DEF ChildStart, TypeOK, ChildOf, Labels
<1>3. CASE ProgramReads(t) \/ ProgramWrites(t)
  BY <1>1, <1>3 DEF ProgramReads, ProgramWrites, Runs, TypeOK, ChildOf, Labels
<1>4. CASE ProgramExits(t)
  BY <1>1, <1>4 DEF ProgramExits, TypeOK, ChildOf, Labels
<1> QED
  BY <1>2, <1>3, <1>4 DEF ChildStep

LEMMA NextChildInv ==
  ASSUME TypeOK, ChildHas, ChildInv, [Next]_vars
  PROVE  ChildInv'
<1>1. CASE AcceptFails \/ UNCHANGED vars
  BY <1>1 DEF ChildInv, AcceptFails, vars, requestVars
<1> QED
  BY <1>1, ThreadChildInv, ChildChildInv DEF Next

-----------------------------------------------------------------------------
(* The two pipes *)

\* Counting one further.
LEMMA CountOn ==
  ASSUME NEW n \in Nat
  PROVE  Append(Count(n), n + 1) = Count(n + 1)
<1>1. Count(n + 1) \in [1..(n + 1) -> Int] /\ Count(n + 1)[n + 1] = n + 1
  BY DEF Count
<1>2. [k \in 1..n |-> Count(n + 1)[k]] = Count(n)
  BY DEF Count
<1> QED
  BY <1>1, <1>2, OneMoreValue

LEMMA OutputOutputInv ==
  ASSUME TypeOK, OutputInv, NEW t \in Threads, Output(t)
  PROVE  OutputInv'
<1>1. CASE /\ out[t] # <<>>
           /\ out' = [out EXCEPT ![t] = Tail(@)]
           /\ reply' = [reply EXCEPT ![t] = Append(@, Head(out[t]))]
           /\ UNCHANGED wrote
  <2>1. Append(reply[t], Head(out[t])) \o Tail(out[t]) = reply[t] \o out[t]
    <3>1. reply[t] \in Seq(Int) /\ out[t] \in Seq(Int)
      BY DEF TypeOK
    <3> QED
      BY <1>1, <3>1, HeadMoves
  <2> QED
    BY <1>1, <2>1 DEF OutputInv, TypeOK
<1>2. CASE Killed
  BY <1>2 DEF Killed, OutputInv, requestVars
<1> QED
  BY <1>1, <1>2 DEF Output, WriteFails, requestVars

LEMMA WriteOutputInv ==
  ASSUME TypeOK, OutputInv, NEW t \in Threads, ProgramWrites(t)
  PROVE  OutputInv'
<1>1. reply[t] \o Append(out[t], wrote[t] + 1) = Append(reply[t] \o out[t], wrote[t] + 1)
  <2>1. reply[t] \in Seq(Int) /\ out[t] \in Seq(Int) /\ wrote[t] + 1 \in Int
    BY DEF TypeOK
  <2>2. PICK r \in Seq(Int), o \in Seq(Int), x \in Int : r = reply[t] /\ o = out[t] /\ x = wrote[t] + 1
    BY <2>1
  <2>3. r \o Append(o, x) = Append(r \o o, x)
    BY LastMoves
  <2> QED
    BY <2>2, <2>3
<1>2. reply[t] \o Append(out[t], wrote[t] + 1) = Count(wrote[t] + 1)
  BY <1>1, CountOn DEF OutputInv, TypeOK
<1> QED
  BY <1>2 DEF ProgramWrites, OutputInv, TypeOK

LEMMA NextOutputInv ==
  ASSUME TypeOK, OutputInv, [Next]_vars
  PROVE  OutputInv'
<1>1. CASE UNCHANGED <<reply, out, wrote>>
  BY <1>1 DEF OutputInv
<1>2. CASE AcceptFails \/ UNCHANGED vars
  BY <1>1, <1>2 DEF AcceptFails, vars, requestVars
<1>3. ASSUME NEW t \in Threads, Accept(t) \/ ThreadStep(t) \/ ChildStep(t)
      PROVE  OutputInv'
  <2>1. CASE Output(t)
    BY <2>1, OutputOutputInv
  <2>2. CASE ProgramWrites(t)
    BY <2>2, WriteOutputInv
  <2>3. CASE ~ Output(t) /\ ~ ProgramWrites(t)
    BY <1>1, <1>3, <2>3
    DEF Accept, ThreadStep, ChildStep, Refuse, SendFile, Close, PipeOut, PipeIn, Opens, Fails, Fork,
        ForkFails, Status, CloseIn, Body, BodyFails, BodyEnds, OutputEnds, CloseIn1,
        WaitPid, ChildStart, ProgramReads, ProgramExits, WriteFails, Killed, requestVars
  <2> QED
    BY <2>1, <2>2, <2>3
<1> QED
  BY <1>2, <1>3 DEF Next

\* The bytes of the body that t has sent.
SentOf(t, n) == [k \in 1..n |-> Byte(t, k)]

LEMMA SentOn ==
  ASSUME TypeOK, NEW t \in Threads
  PROVE  BodyByte(t) \in Int /\ Append(SentOf(t, sent[t]), BodyByte(t)) = SentOf(t, sent[t] + 1)
<1>1. sent[t] \in Nat /\ call[t].body.supply \in Nat
  BY CallType DEF TypeOK
<1>2. BodyByte(t) = Byte(t, sent[t] + 1)
  BY <1>1 DEF BodyByte, Byte
<1>3. /\ SentOf(t, sent[t] + 1) \in [1..(sent[t] + 1) -> Int]
      /\ SentOf(t, sent[t] + 1)[sent[t] + 1] = Byte(t, sent[t] + 1)
  BY <1>1 DEF SentOf, Byte
<1>4. [k \in 1..sent[t] |-> SentOf(t, sent[t] + 1)[k]] = SentOf(t, sent[t])
  BY <1>1 DEF SentOf
<1> QED
  BY <1>1, <1>2, <1>3, <1>4, OneMoreValue DEF Byte

LEMMA BodyInputInv ==
  ASSUME TypeOK, InputInv, NEW t \in Threads, Body(t)
  PROVE  InputInv'
<1>1. got[t] \o Append(in[t], BodyByte(t)) = SentOf(t, sent[t] + 1)
  <2>1. got[t] \o in[t] = SentOf(t, sent[t])
    BY DEF InputInv, SentOf
  <2>2. got[t] \o Append(in[t], BodyByte(t)) = Append(got[t] \o in[t], BodyByte(t))
    <3>1. PICK g \in Seq(Int), o \in Seq(Int), x \in Int : g = got[t] /\ o = in[t] /\ x = BodyByte(t)
      BY SentOn DEF TypeOK
    <3>2. g \o Append(o, x) = Append(g \o o, x)
      BY LastMoves
    <3> QED
      BY <3>1, <3>2
  <2> QED
    BY <2>1, <2>2, SentOn
<1>2. sent[t] \in Nat /\ call[t].body.length \in Int /\ sent[t] < call[t].body.length
  BY CallType DEF TypeOK, Body, MoreBody
<1>3. ASSUME NEW u \in Threads
      PROVE  /\ (got[u] \o in[u] = SentOf(u, sent[u]))'
             /\ (sent[u] > 0 => sent[u] <= call[u].body.length)'
  <2>1. UNCHANGED <<call, got>>
    BY DEF Body, requestVars
  <2>2. CASE u = t
    <3>1. in'[t] = Append(in[t], BodyByte(t)) /\ sent'[t] = sent[t] + 1
      BY DEF Body, TypeOK
    <3>2. (got[t] \o in[t] = SentOf(t, sent[t]))'
      BY <1>1, <2>1, <3>1 DEF SentOf, Byte
    <3>3. (sent[t] > 0 => sent[t] <= call[t].body.length)'
      BY <1>2, <2>1, <3>1
    <3> QED
      BY <2>2, <3>2, <3>3
  <2>3. CASE u # t
    BY <2>1, <2>3 DEF Body, TypeOK, SentOf, Byte, InputInv
  <2> QED
    BY <2>2, <2>3
<1> QED
  BY <1>3 DEF InputInv, SentOf

LEMMA ReadInputInv ==
  ASSUME TypeOK, InputInv, NEW t \in Threads, ProgramReads(t)
  PROVE  InputInv'
<1>1. /\ in[t] # <<>> /\ in' = [in EXCEPT ![t] = Tail(@)]
      /\ got' = [got EXCEPT ![t] = Append(@, Head(in[t]))]
      /\ UNCHANGED <<sent, call>>
  BY DEF ProgramReads, Taken
<1>2. Append(got[t], Head(in[t])) \o Tail(in[t]) = got[t] \o in[t]
  <2>1. got[t] \in Seq(Int) /\ in[t] \in Seq(Int)
    BY DEF TypeOK
  <2> QED
    BY <1>1, <2>1, HeadMoves
<1> QED
  BY <1>1, <1>2 DEF InputInv, TypeOK, Byte

LEMMA NextInputInv ==
  ASSUME TypeOK, InputInv, [Next]_vars
  PROVE  InputInv'
<1>1. CASE UNCHANGED <<got, in, sent, call>>
  BY <1>1 DEF InputInv, Byte
<1>2. CASE AcceptFails \/ UNCHANGED vars
  BY <1>1, <1>2 DEF AcceptFails, vars, requestVars
<1>3. ASSUME NEW t \in Threads, Accept(t) \/ ThreadStep(t) \/ ChildStep(t)
      PROVE  InputInv'
  <2>1. CASE Body(t)
    BY <2>1, BodyInputInv
  <2>2. CASE ProgramReads(t)
    BY <2>2, ReadInputInv
  <2>3. CASE ~ Body(t) /\ ~ ProgramReads(t)
    BY <1>1, <1>3, <2>3
    DEF Accept, ThreadStep, ChildStep, Refuse, SendFile, Close, PipeOut, PipeIn, Opens, Fails, Fork,
        ForkFails, Status, CloseIn, BodyFails, BodyEnds, Output, OutputEnds, CloseIn1,
        WaitPid, ChildStart, ProgramWrites, ProgramExits, WriteFails, Killed, requestVars
  <2> QED
    BY <2>1, <2>2, <2>3
<1> QED
  BY <1>2, <1>3 DEF Next

-----------------------------------------------------------------------------
(* Why the server is killed *)

\* Nobody has the end a program reads from only when its child has ended; what the
\* child has read by then was sent, and more was announced.
LEMMA EndedEarly ==
  ASSUME TypeOK, ChildHas, ChildInv, InputInv, NEW t \in Threads, BodyFails(t)
  PROVE  child[t] = "exited" /\ Len(got[t]) < call[t].body.length
<1>1. pc[t] = "body" /\ sent[t] < call[t].body.length /\ child[t] = "exited"
  BY DEF BodyFails, At, MoreBody, ChildHas, ChildInv
<1>2. /\ got[t] \in Seq(Int) /\ in[t] \in Seq(Int)
      /\ sent[t] \in Nat /\ call[t].body.length \in Int
  BY CallType DEF TypeOK
<1>3. Len(got[t]) <= sent[t]
  <2>1. DOMAIN (got[t] \o in[t]) = 1..sent[t]
    BY DEF InputInv
  <2>2. PICK g \in Seq(Int), o \in Seq(Int), n \in Nat : g = got[t] /\ o = in[t] /\ n = sent[t]
    BY <1>2
  <2>3. DOMAIN (g \o o) = 1..n
    BY <2>1, <2>2, Zenon
  <2>4. Len(g) <= n
    BY ONLY g \in Seq(Int), o \in Seq(Int), n \in Nat, <2>3, FirstPart
  <2> QED
    BY <2>2, <2>4
<1> QED
  BY <1>1, <1>2, <1>3

LEMMA NextKilled ==
  ASSUME IInv, [Next]_vars
  PROVE  KilledForAReason'
<1> USE DEF IInv
<1>1. CASE UNCHANGED <<server, call, pc, child, got>>
  BY <1>1 DEF KilledForAReason, KilledFor
<1>2. CASE AcceptFails
  BY <1>2 DEF AcceptFails, KilledForAReason
<1>3. ASSUME NEW t \in Threads, Accept(t) \/ ThreadStep(t) \/ ChildStep(t)
      PROVE  KilledForAReason'
  <2>1. CASE server' = "up"
    BY <2>1 DEF KilledForAReason
  <2>2. CASE Killed /\ call[t].hangs
    BY <2>2 DEF Killed, KilledForAReason, KilledFor, requestVars
  <2>3. CASE SendFile(t) /\ Killed
    BY <2>3 DEF SendFile, At, Killed, KilledForAReason, KilledFor, requestVars
  <2>4. CASE BodyFails(t)
    BY <2>4, EndedEarly DEF BodyFails, Killed, KilledForAReason, KilledFor, requestVars
  <2>5. CASE \/ Refuse(t) \/ SendFile(t) \/ Status(t) \/ Output(t)
             \/ PipeOut(t) \/ PipeIn(t) \/ ForkFails(t)
    BY <2>1, <2>2, <2>3, <2>5
    DEF Refuse, SendFile, Status, Output, PipeOut, PipeIn, ForkFails, Opens, Fails, WriteFails, At
  <2>6. CASE \/ Accept(t) \/ Close(t) \/ Fork(t)
             \/ CloseIn(t) \/ Body(t) \/ BodyEnds(t) \/ OutputEnds(t) \/ CloseIn1(t)
             \/ WaitPid(t) \/ ChildStep(t)
    BY <2>1, <2>6
    DEF Accept, Close, Fork, CloseIn, Body, BodyEnds,
        OutputEnds, CloseIn1, WaitPid, ChildStep, ChildStart, ProgramReads, ProgramWrites,
        ProgramExits, Runs, At
  <2> QED
    BY <1>3, <2>4, <2>5, <2>6 DEF ThreadStep
<1> QED
  BY <1>1, <1>2, <1>3 DEF Next, vars, requestVars

-----------------------------------------------------------------------------
(* The theorems *)

LEMMA InitInv == Init => IInv
<1> SUFFICES ASSUME Init PROVE IInv
  OBVIOUS
<1>1. TypeOK
  BY InitType
<1>2. ServerHas
  BY DEF Init, ServerHas, OpenAt, Holders, Descriptors
<1>3. ChildHas /\ ChildInv
  BY DEF Init, ChildHas, ChildInv
<1>4. OutputInv
  BY DEF Init, OutputInv, Count
<1>5. InputInv
  BY DEF Init, InputInv
<1>6. KilledForAReason
  BY DEF Init, KilledForAReason
<1> QED
  BY <1>1, <1>2, <1>3, <1>4, <1>5, <1>6 DEF IInv

LEMMA NextInv == IInv /\ [Next]_vars => IInv'
  BY NextType, NextServerHas, NextChildHas, NextChildInv, NextOutputInv, NextInputInv,
     NextKilled
  DEF IInv

LEMMA Invariance == SafeSpec => []IInv
  BY InitInv, NextInv, PTL DEF SafeSpec

\* A connection that is done with is closed, its pipes too, and its child was waited for.
LEMMA NothingLeftFollows == IInv => NothingLeft
  BY DEF IInv, ServerHas, ChildInv, NothingLeft, OpenAt

\* A child is waited for only after its pipe has been read to the end.
LEMMA ReplyFollows == IInv => ReplyIsOutput
<1> SUFFICES ASSUME IInv, NEW t \in Threads
             PROVE  /\ reply[t] \o out[t] = Count(wrote[t])
                    /\ child[t] = "reaped" => reply[t] = Count(wrote[t]) /\ todo[t] = <<>>
  BY DEF ReplyIsOutput
<1>1. reply[t] \o out[t] = Count(wrote[t]) /\ reply[t] \in Seq(Int)
  BY DEF IInv, OutputInv, TypeOK
<1>2. ASSUME child[t] = "reaped" PROVE reply[t] = Count(wrote[t]) /\ todo[t] = <<>>
  <2>1. out[t] = <<>> /\ todo[t] = <<>>
    BY <1>2 DEF IInv, ChildInv
  <2>2. reply[t] \o <<>> = reply[t]
    BY <1>1, ConcatEmptySeq
  <2> QED
    BY <1>1, <2>1, <2>2
<1> QED
  BY <1>1, <1>2

\* What the program has read is the beginning of what was sent.
LEMMA InputFollows == IInv => InputIsBody
<1> SUFFICES ASSUME IInv, NEW t \in Threads, NEW k \in DOMAIN got[t]
             PROVE  k <= call[t].body.length /\ got[t][k] = Byte(t, k)
  BY DEF InputIsBody, Byte
<1>1. /\ got[t] \in Seq(Int) /\ in[t] \in Seq(Int)
      /\ sent[t] \in Nat /\ call[t].body.length \in Int
  BY CallType DEF IInv, TypeOK
<1>2. got[t] \o in[t] = [j \in 1..sent[t] |-> Byte(t, j)]
  BY DEF IInv, InputInv
<1>3. DOMAIN (got[t] \o in[t]) = 1..sent[t]
  BY <1>2
<1>4. k \in 1..sent[t] /\ (got[t] \o in[t])[k] = got[t][k]
  <2>1. \A j \in 1..Len(got[t]) : j \in 1..sent[t] /\ got[t][j] = (got[t] \o in[t])[j]
    <3>1. PICK g \in Seq(Int), o \in Seq(Int), n \in Nat : g = got[t] /\ o = in[t] /\ n = sent[t]
      BY <1>1
    <3>2. DOMAIN (g \o o) = 1..n
      BY <1>3, <3>1
    <3>3. \A j \in 1..Len(g) : j \in 1..n /\ g[j] = (g \o o)[j]
      BY ONLY <3>2, FirstPart
    <3> QED
      BY <3>1, <3>3
  <2>2. k \in 1..Len(got[t])
    BY <1>1
  <2> QED
    BY <2>1, <2>2
<1>5. k \in Int /\ sent[t] > 0
  BY <1>1, <1>4
<1>6. sent[t] <= call[t].body.length
  BY <1>5 DEF IInv, InputInv
<1>7. k <= call[t].body.length
  BY <1>1, <1>4, <1>5, <1>6
<1> QED
  BY <1>2, <1>4, <1>7

\* Every variable of the mini server has its type in every reachable state.
THEOREM TypeCorrect == SafeSpec => []TypeOK
  BY Invariance, PTL DEF IInv

\* Whatever way a request takes through sgx_request_accept and sgx_request_cgi, when
\* its thread has returned the server has none of its descriptors open and no child
\* of it is a zombie, for any number of connections.
THEOREM NothingIsLeft == SafeSpec => []NothingLeft
  BY Invariance, NothingLeftFollows, PTL

\* The client gets what the program writes, in order, and everything before the
\* connection is closed, whatever the other children have inherited.
THEOREM RepliesAreOutput == SafeSpec => []ReplyIsOutput
  BY Invariance, ReplyFollows, PTL

\* A program reads the body in order, and never more than was announced.
THEOREM InputsAreBodies == SafeSpec => []InputIsBody
  BY Invariance, InputFollows, PTL

\* SIGPIPE or a null FILE end the server only as KilledFor has it: a child that has not
\* ended, or has read all that was announced for it, never does.
THEOREM NotKilledWithoutReason == SafeSpec => []KilledForAReason
  BY Invariance, PTL DEF IInv
=============================================================================
