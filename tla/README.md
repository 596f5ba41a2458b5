# Formal specifications of sginx

TLA+ specifications, TLC models and TLAPS proofs for sginx ("super goose X rush"),
a small event-driven HTTP server with a thread pool, a priority queue, timers, a
ring-buffer HTTP parser and two allocators modelled on nginx.

Module comments cite files relative to the repository root (`src/core/...`);
`PROJECT.json` cites the same files with the root's directory in front
(`src/src/core/...`).

## 1. Inventory of the system

The repository is work in progress: several files do not compile as they stand
(misspelt or undeclared identifiers, missing labels, a half-written call). The
specifications describe what the statements that are there do. Where an identifier is
misspelt or undeclared the reading is the only one the surrounding code leaves open:
`chesgx_checkck` is `sgx_check`, `MAX_BUF` is `SGX_MAX_BUF`, `struct epool_event` is
`struct epoll_event`, `request->start` is `request_start`, `CF` is `LF`, the `i` of
`http_parse.c:247` is `pos`, and the enumerators of the request line (whose list has a
missing comma and repeats values) are distinct. The `sgx_log_*` and `sgx_check` macros only print: the code goes
on after a failed check.

| component | files | state | operations | interacts with |
|---|---|---|---|---|
| thread pool | `test/sgx_thread_pool.c` | global `sgx_tpool`: job list, `shutdown`, mutex, condition variable, thread ids | create, add_work, destroy; the worker routine | its clients, through jobs that may themselves add jobs |
| priority queue | `core/sgx_priority_queue.c` | an array heap `node[1..size]`, `max_size` | init, push, pop, top, size, empty | a comparator given at init; used by the timers |
| timers | `event/event_timer.c` | the queue `sgx_timer_Q`, `sgx_current_msec`, nodes with `key`, `del`, `handler`, `request` | add, del, find, handle_expire_timers | a callback on the request; called by the event loop and by `http.c` |
| event loop | `core/sgx_rush.c`, `core/sgx_epool.c` | the listening socket, the epoll set, `events` | one turn: find, wait, expire, accept or read | kernel, timers, requests |
| request buffer and http parser | `http/http.c`, `http/http_parse.c` | `request->buf` used as a ring by `pos` and `last`; `state`; current header | `sgx_request_run`, parse of request line, of headers | event loop, header list, timers |
| http request | `http/http_request.c`, `core/sgx_list.h` | header list, out structure | init, handle_header, close_conn, header handlers | timers (`close_conn` is the timer handler) |
| memory pool | `core/sgx_palloc.c` | chain of blocks, list of large allocations, clean-up handlers | create, destroy, reset, palloc, pfree, clean-up | everything that allocates from a pool |
| slab allocator | `core/sgx_slab.c` | pages, slots by size class | init, alloc_locked (unfinished) | shared memory users |
| mini server | `test/sgx_mini.c` | sockets, one detached thread per connection, pipes to CGI children | start, accept, send_file, cgi | kernel, child processes |
| configuration, cycle | `core/sgx_cycle.c`, `core/sgx_util.c` | a cycle structure, configuration strings | init_cycle (unfinished), read_conf | start-up |
| declarations | `core/sgx_common.h`, `sgx_config.h`, ... , `core/ma.c` | - | macros; `ma.c` is an older, commented-out priority queue | - |

What is hard in each, and what makes it correct:

* **Thread pool.** Workers, clients and a destroyer interleave; `shutdown` is read and
  written without the mutex; one signal per job; wake-ups can be spurious or stale.
  Correct when each accepted job is owned by exactly one place, is started once and in
  order, none waits while a worker sleeps, destroy ends, and nobody reads the pool after
  it is freed.
* **Priority queue.** Off-by-one room and grow/shrink conditions, failures of
  `malloc` in the middle of a push or pop, heap order. Correct when nothing is written
  past the array, nothing lost or duplicated, and the top is the first element. (The last
  is not so: see the findings.)
* **Timers.** Deletion is lazy, a handler runs between reading the top and popping it and
  frees the request, time moves between any two reads of the clock. Correct when each
  handler runs at most once, when due, on a live request (which takes a caller that arms a
  request once at a time), no timer is forgotten, and the loop does not block past all of them.
* **Event loop.** Edge-triggered accept; timers that expire between the wait and the
  events it returned. Correct when every event is followed by accepts until none waits,
  and no event or handler meets a request that was freed. (The last is not so: see the
  findings.)
* **Parser and buffer.** Input arrives in arbitrary fragments and parsing resumes in
  the middle; header fields are pointers into a ring that later reads overwrite. Correct
  when the result does not depend on the fragmentation and what is kept is not
  overwritten before it is used.
* **Request.** A list is walked while its members are freed; names and values are
  compared in the ring, with lengths that are negative when they go round its end.
* **Memory pool.** Every large piece is given back exactly once, every registered file
  closed once; regions handed out are disjoint and inside their block.
* **Slab.** The slot of a size class is large enough and within the slot array.
* **Mini server.** Two pipes and one single-threaded parent per CGI request: who closes
  which end, who can block on whom. Lines read byte by byte into a buffer they may exceed,
  from a socket that blocks: where the headers end, and whether the reader ever waits for
  a byte nobody sends.

The hazards that follow from this, each at its line and with the properties that guard
against it, are in `PROJECT.json`.

## 2. Modules

| module | models | extends or instantiates |
|---|---|---|
| `WorkPool` | what a thread pool promises: jobs wait in order, are started once, and are dropped only after the seal | - |
| `ThreadPool` | `sgx_thread_pool.c`, step by step between accesses to shared memory | `WorkPool` (refinement) |
| `ThreadPoolProofs` | theorems about it, the refinement among them | `ThreadPool` |
| `HeapOps` | the array heap as operators on sequences | - |
| `HeapOpsProofs` | lemmas about these, for any heap | `HeapOps` |
| `PriorityQueue` | `sgx_priority_queue.c`, one turn of a loop per step, with its allocations | `HeapOps` |
| `PriorityQueueProofs` | theorems about it | `PriorityQueue`, `HeapOpsProofs` |
| `EventTimer` | `event_timer.c` with the loop of `sgx_rush.c:82-91` as timers see it | `HeapOps` |
| `EventLoop` | the loop of `main` in `sgx_rush.c`: epoll, accept, and the timers it arms | `EventTimer` |
| `EventLoopProofs` | theorems about the timers, and one about the loop | `EventLoop`, `HeapOpsProofs` |
| `ByteFifo` | what a request buffer promises: a bounded queue of bytes | - |
| `Ring` | where in the array of a request buffer an index points | - |
| `RequestBuffer` | the read loop of `sgx_request_run` and its ring | `Ring`, `ByteFifo` (refinement) |
| `HttpParse` | the two automata of `http_parse.c`, as operators on a record of the request's fields | `Ring` |
| `HttpRequests` | the reference grammar: requests put together from pieces, and where these lie | `HttpParse` |
| `HttpHandlers` | `sgx_http_handle_header` of `http_request.c` and its handlers, as operators | `HttpParse` |
| `HttpConn` | a connection: reads, calls of the parsers and the handling of the headers interleaved | `HttpRequests`, `HttpHandlers`, `RequestBuffer` |
| `HttpConnProofs` | theorems about the buffer, its refinement among them, and about the connection | `HttpConn`, `HeapOpsProofs` |
| `MiniServer` | `sgx_mini.c`: threads, pipes and children | - |
| `MiniServerProofs` | theorems about it | `MiniServer` |
| `FdLine` | `sgx_get_fd_line` of `sgx_mini.c` and the loop over the headers that calls it | - |
| `FdLineProofs` | theorems about it | `FdLine`, `HeapOpsProofs` |
| `Palloc` | `sgx_palloc.c`, the clean-up list included | - |
| `PallocProofs` | theorems about it | `Palloc` |
| `MC*` | instances for TLC | the module of that name |

Definitions have the names of the functions and fields they model; `PROJECT.json` gives
the lines. Operators whose comment starts with `Bug:` are not part of a model: each is a
mistake that could be made in the definition after it, and replacing that definition by
it makes TLC find the violation of a property that `PROJECT.json` names.

### How state and actions correspond to the code

**ThreadPool.** `queue` is the list `now`, `lock` the mutex, `pc[t]` the line a thread is
at, `heap` what became of each list node. A critical section is one step; `shutdown`,
which is also read and written outside it (lines 69 and 72), is accessed in steps of its
own. `pthread_cond_wait` is a step that sleeps and releases, and one that takes the
mutex again after a signal or a spurious wake-up. `Exit` stands for every failure in
create, all of which end the process. The contract of use is that of
`sgx_thread_pool_test.c`: jobs are added after create has returned and not once destroy
has been called (except from inside jobs); calls of destroy do not overlap.

**PriorityQueue, HeapOps.** `node` is the sequence of pointers in `node[1..size]`,
`slots` the room behind it. `free(node + size)` at line 152 is undefined; `FreeOutcomes`
has what an allocator does with it, end the process or ignore it. `index | 1` at
line 78 has no effect, so `Child` is the left child. A heap function computed by loops
(`PriorityQueue`) and the same as an operator (`HeapOps`, used by the timers) are
compared by the invariant `MatchesHeapOps`.

**EventTimer.** A turn of the main loop is `find`, `wait`, `expire`, `events`. The clock
ticks between any two steps. `ExpireCall` and `ExpirePop` are two steps, as the handler
runs between them and only then the top is popped. A request may be armed whatever timers it
has, as `sgx_rush.c:127` does: when one of several has fired, the handler of the next is given a
freed request (`ExpireFreed`; the call counts in `fires`), and the model stops in the phase `wild`. `rearmed` remembers
the requests this can happen to, and `HandlersOnLiveRequests` says that it happens to no other.
Only the handler frees a request.

**EventLoop.** One turn of `main`, with the steps of `EventTimer` where it calls the timers.
`backlog` are the connections that wait at the listening socket, `edge` that epoll has an
event of it to report: a new connection sets it, a wait takes it, accepts that leave
nobody waiting clear it. `sgx_epool_wait` has no `return`, so `ReturnKept` says whether its caller sees the
number of events or nothing; an event not seen is lost (`stuck`). `AcceptFails` is every
error of `accept` but EAGAIN: no descriptor left, when the connection goes on waiting, or
a connection that failed while it waited. Two lines make this loop different from what its
author planned. Line 126 passes the new request, a pointer, for the epoll descriptor, so
`epoll_ctl` fails and is only logged: an accepted connection is never heard of again, stays
open (`open` only grows), and the branch for other descriptors is never reached. Line 127
arms the timer on the request of the *listening* socket, whose handler closes that socket
and frees that request (`CloseListener`); a second such timer or a pending event then uses
freed memory (`CloseFreed`, `ReadFreed`), and the model stops in the phase `wild`. A wait
interrupted by a signal is left out: the program handles none.

**RequestBuffer.** `pos` and `last` only grow, and `Place` takes them into the ring.
`Filled` is memory after `read`: it has the bytes wherever `remain_size` lets them go,
behind `buf` too, and the type invariant is what says they never do. `Run`, `Read`,
`ReadAgain`, `ReadNothing`, `ReadEnd` and `ReadFails` are the outcomes of a turn of the
loop; after `goto err`, whose label the source lacks, nothing happens. `sgx_timer_del`,
which it calls first, is `Del` of `EventTimer`.

**HttpParse, HttpConn.** A byte is one of the characters the parsers compare with, or a
representative of the others. A call of a parser is one step; it reads no more than the
request and the ring. The source has no caller of the parsers: the model calls the line
parser when the read loop has ended with `EAGAIN`, the header parser after `SGX_OK`, and
the same parser again after `SGX_AGAIN`. Undefined in the code, and therefore constants:
`c >> 'Z'` (`ShiftOutcomes`) and what `malloc` leaves in `method` (`MethodsLeft`) and `request_end`
(`RequestEnds`): lines 66-83 set no method for an unknown word of three or four bytes. Where the shift gives
zero, lines 55 and 91 refuse only what is less than `A`, so that letters are not the only bytes of a method
(`~` stands for the others); where it does not, only underscores pass. `NotInMethod` has both.

**HttpHandlers, HttpConn.** When a request has been accepted, `sgx_http_handle_header` walks
its list and each key is compared with the names of `sgx_http_headers_in`, a step per header.
`Compared` is `strncmp` with a length that is a difference of two positions: when the text goes round
the end of the ring it is negative, hence huge, and the comparison goes on behind the
ring, where anything can be. `Scanned` is whether `strptime` finds a date, for which it stops at no length;
what the date is worth is left open, since `mktime` takes it for one of the local zone, by a `tm_isdst`
nobody set, and compares it with an `out->mtime` nobody set. The loop reads `pos->next` of a header it has just freed;
`FreedNext` says whether it is still there, and when it is not the phase is `wild`.

**MiniServer.** A step of a thread ends where a `fork` in another thread could tell.
`holders` says which processes have a descriptor open; `Fork` copies all that the server
has. Programs are sequences of `read`, `write` and `drain`; `Runnable` is what the child does
instead: a POST may crash at line 339, which reads a pointer that was never set, and after a failed
`execl` the `exit` of line 345 may write what was in the copied buffer of standard output. `Killed` is the end of the
process by SIGPIPE or a null `FILE`; after any error of `accept` main returns, which ends all
threads too (`AcceptFails`). `pthread_create` reports errors as positive numbers, and line 76 tests
for negative ones: the connection of a thread that was not created (`unstarted`) stays open
and is nobody's.

**FdLine.** A step is a `read` or a `recv` with `MSG_PEEK` of one byte. `Name` stands for
`Content-Length:`, and is short; `ValueAt` is one more than its length, as 16 is for the real
one. `Garbage` is what the buffer on the stack can hold before it is written, which `strcasecmp` and
`atoi` can reach: line 289 ends the name at its place even if the line is shorter. A call returns a whole
line, or as much of it as the buffer holds, and the next call the rest; a rest of nothing, or of a
lone LF, is what line 288 takes for the end of the headers (`EndsHeaders`). A request whose lines end with a bare LF has
no line ends at all here, and is read as one line in pieces of the buffer's size.

**Palloc.** `blocks` is the chain, `large` the list, both in the order in which they are
walked; addresses are numbers, so that a piece can lie where it should not. `pieces`
remembers what was handed out. Once a piece has been cut for another block than the first,
or over a node of the clean-up list, which a reset keeps while it gives its memory away
(`strayed`), memory is no longer what the pool takes it for, and the model stops.
`CleanupAdd` is the call together with what its caller then stores in the node; a file may be
registered again after it was closed, as the kernel gives descriptors out again. The handlers of
the list run in `Destroy` only if `SGX_DEBUG` is set, since line 52 puts the loop there.
`Small` has the outcomes of `sgx_palloc_small`, a refusal of `malloc` included; the nodes
of the large list come from it too. `Destroy` leaves the last block, as line 82 does.

## 3. What TLC checks

| run | instance | shows |
|---|---|---|
| `thread_pool` | 3 workers, 2 clients, 1 destroyer, 3 jobs | each job is held in one place and none leaks (`Ownership`); no worker takes from an empty list; no job waits behind a busy worker while another sleeps (`WorkConserving`); the unlocked `shutdown` costs no wake-up (`NoSleeperLeftBehind`); nobody uses the pool after it is freed; the pool implements `WorkPool`; jobs start and destroy ends |
| `priority_queue` | 8 elements, `max_size` 1 to 4 | no overrun through three resizes; calls lose and duplicate nothing, also when shrinking fails; pushes keep the order; the loops compute what `HeapOps` says |
| `priority_queue_top` | 6 elements | violated: the top is not the first element after a pop |
| `event_timer` | 2 requests, 3 timers, 4 ticks | handlers once, when due and on live requests, but for those armed twice at a time; no timer forgotten, no endless wait; every timer is resolved in the end |
| `event_loop` | 3 connections, 2 of them open at most, 3 timers, 4 ticks | the edge-triggered socket is drained at every event (`Announced`); who waits is accepted in the end, unless accept failed or the event was lost |
| `event_loop_stale` | the same | violated: an event is handled whose request a timer has freed |
| `request_buffer` | ring of 4, 9 bytes | the read loop neither overflows nor overwrites; a full ring is the only way to a read of nothing; the ring implements `ByteFifo` |
| `http_conn` | ring of 20, requests of 16 to 47 bytes | whatever way the bytes are cut into reads and the parsers interrupted, the fields are those sent, methods are recognised, what is accepted is what the grammar allows in each build, and the handlers make of the headers what was sent (`HandledAsSent`) |
| `mini_server` | 2 connections, pipes of 1 byte | every way out of a thread closes everything; replies are complete; bodies arrive; the process is killed only for the reasons listed; all connections end if no program reads more than it is sent, or fills its pipe before the rest of its input fits in the other (`WellBehaved`) |
| `mini_server_drain` | 1 connection | violated: a program that reads to the end of its input is never answered |
| `mini_lines` | buffer of 7, a request line and up to 2 headers | the body follows the headers exactly when the buffer leaves neither nothing nor a lone LF of any line (`EndsHeaders`); the length of the body is the one sent; a request that was sent is read to its end |
| `palloc` | 3 blocks of 20, pieces of 3 and 8, 3 large pieces, 2 files | pieces are disjoint and inside their block as long as no second block is searched and the clean-up list is not overwritten; each large piece is in one node until it is freed, and freed once; each registered file has one handler until it is closed |

**Bounds.** Three workers are one that runs a job, one that sleeps and one that comes by
on its own, the interplay wake-ups are about; three jobs include one added from inside
another. Eight elements give the heap four levels and the array three growths and the
shrinks. Two timers of one request are a deleted and a live one, or two live ones; the third belongs to
the other request, or is its third; `MaxTime` lets timeouts 1 and 3 be overtaken. A ring of four gone round
twice has every position of `pos` and `last` relative to each other and to the end. The
requests of `http_conn` are a plain one changed in up to two of nine pieces, most longer than
the ring, so tokens lie across its end, and can be overwritten. Two connections let each
child inherit the other's pipes before or after each close; pipes of one byte are full
after one write, and programs of up to three steps have one that writes and reads by turns and just
leaves room, and one that does not and hangs. Blocks of a pool hold one to six pieces, and two of the three can lie
next to each other, where a piece across an end would lie on another block's; three large
pieces give a list in which a freed node lies before, between and behind others, and
`MaxPieces` bounds the small pieces between two resets. That `sgx_palloc_large` looks at the first four nodes only is
thus not exercised: a fifth would only be a new node. A buffer of seven holds six bytes of a
line: the lines are empty, shorter, as long, and once or twice cut (1, 5, 6, 7, 8 and 12
bytes), and a lone LF is a line or what is left of one. Three connections of which two can be open let accept succeed twice in one turn and fail; with a
timeout of two, four ticks let the timers of both expire. A `\*` line at the head of each `.cfg` says what it is for.

**Deadlock** is checked for the thread pool, whose finished states stutter. The other
systems really stop: after an abort, at the clock's bound, on a closed connection.

**Fairness.** `ThreadPool`: weak fairness of each thread's steps, none of the mutex, and
routines return; nobody has to add jobs or call destroy, and spurious wake-ups need not
happen. `EventTimer`, `EventLoop`: time passes and the loop goes on; nobody need connect.
`MiniServer`: threads and children take the steps they can; clients send what they
announce or close. `FdLine`: the thread reads what there is; the peer need send nothing. The
other modules state no liveness.

## 4. What TLAPS proves

Every invariant and action property that a run checks is a theorem for every value of the
constants, and so are the two refinements; three of the five of `http_conn` are theorems about
the well-formed requests among all (see below). Each theorem holds under the assumption of its
module, which says no more of a constant than the program does:

| assumption | says |
|---|---|
| `ThreadsAssumption` | the threads are of three kinds, the workers finitely many and at least one |
| `QueueAssumption` | keys are numbers, arrays are created with at least one place, `free` of a wrong address aborts or does nothing |
| `TimerAssumption` | timeouts and the bound of the clock are numbers, `free` as before |
| `LoopAssumption` | the listening socket has one of the requests; timeouts and bounds are numbers |
| `BufferAssumption` | `SGX_MAX_BUF` is at least 1 |
| `ConnAssumption` | requests are put together from the pieces of `HttpRequests`, and not longer than the bound on what is sent; what is undefined in the code is any subset of the possible outcomes |
| `NamesAssumption` | the names, values and dates are strings, and `Host` does not begin as `Connection` does |
| `ServerAssumption` | pipes hold at least a byte, programs are sequences of the three operations |
| `LineAssumption` | lines have no CR and no NUL, none but the request line is empty; the name of the length fits in the buffer |
| `PoolAssumption` | blocks are aligned and apart, the header of a pool fits in its block, list nodes are small pieces |

**ThreadPoolProofs.** `IInv` adds to the checked invariants who may hold the mutex and
where (`LockInv`), what each worker, node and destroyer has at each line, and that the
pool is live wherever a thread reads it. `NoSleeperLeftBehind` alone is not inductive: it
needs that a worker that has read `shutdown` as 0 still holds the mutex, which destroy
must take before it broadcasts. From `IInv`: `TypeCorrect`, `NeverTakesNothing`,
`BroadcastReachesAll`, `PoolNotUsedAfterFree`. `WorkIsConserved` is proved on top of it,
by counting the workers on their way to the list. `NodesAreOwned` has an invariant of its
own, `OwnInv`: a node is in one place only if each place has it once and is live there,
which each hand-over (client to list, list to worker, list to destroy) has to keep.
`Implements` goes through the steps: taking a job is `Start` of `WorkPool`, the link of
`add` is `Submit`, the return of a routine `Finish`, the lock that destroy takes `Seal`, its
walk over the list `Drop`, and the rest stutters. `RanInv` and `SealInv` say why: a
job that has run cannot be at the head of the list, because its node was freed by the
worker that ran it; and no worker is between its test and its take when the seal is set,
because both are under the mutex.

**HeapOpsProofs.** The operators of `HeapOps` are recursive functions. What they
return is shown without induction over an operator: `Runs` gives a run of a loop for any number of
turns, as the least number without one would have one before it, so the functions exist
(`UpHasRun`, `DownHasRun`); and what each turn keeps, the last state has (`Stays`). Each turn exchanges two elements (`Exchange`), so a push adds its
element (`PushAdds`) and a pop takes one away (`PopRemoves`), whatever the keys.

**PriorityQueueProofs.** `NeverOverruns`: the test `size + 1 == max_size` is enough
because `size` is below `max_size` whenever it is made. `PushesKeepOrder`: while a push
moves its element up, only that element can be before its parent, and its children are
not before its parent either. `NothingIsLost` (`ConserveInv`): from its first line on, a
call has the elements it ends with, and a `malloc` that fails in a resize changes none.
`LoopsComputeHeapOps` (`ReachInv`): the array and the index are always a state of the run
that `HeapOpsProofs` has for the operator, so the last turn ends with what it returns.

**EventLoopProofs.** The timers first. Only the set of the queue's elements is used of the queue,
which `PushAdds` and `PopRemoves` give, so the proofs stand whatever the comparator does
(finding 1). `NoDanglingRequest` is not inductive: it needs that only a request of `rearmed` has two
timers that are not deleted (`OwnerInv`), that a queued one of any other has a live request until it has
fired (`AliveInv`), and that one that has fired is the first and about to be popped
(`FiringInv`), for the handler frees the request before the pop. `EachFiresOnce`,
`NothingForgotten` and `WaitsEnd` follow from these and from `WaitInv`: the wait given to
epoll ends with the top, which `find` has left undeleted. Then the loop:
`DrainedAtEveryEvent` needs only that an event the loop has seen is kept in `ready`
through the handling of the timers.

**HttpConnProofs, the ring.** Indices in one window of `SGX_MAX_BUF` have different places, and
follow each other up to the end of `buf`; hence a read keeps the window (`WindowIsIntact`),
never overflows (`NeverOverflows`), stays inside `buf` (`TypeCorrect`), and is empty only
when the ring is full (`ClosesOnlyWhenFull`). `Implements`: each step is one of
`ByteFifo` or leaves the queue as it is, the unread bytes being a part of what was sent.

**HttpConnProofs, the parsers.** What the parsers make of a request, for every size of the ring,
every well-formed request and every way to cut it into reads and calls. The argument has five parts:

1. A call of a parser is a fold, so the number of its turns is data; `Iterated` gives the
   sequence of its states, as the least number without one would have one before it, and
   `LineCall` and `BodyCall` say that the call returns the last of them. Whatever the
   request is, no call goes beyond `last` (`LineResult`, `BodyResult`), which is why the
   connection is a run of `RequestBuffer` (`ParsersStayInTheRing`) and the ring's invariant holds of it.
2. Where each piece of a well-formed request begins and ends in its text, and which bytes it has
   (`LinePlaces`, `LineBytes`, `HeaderPlaces`, `HeaderBytes`). The text is a recursive function too.
3. For every number `i` of parsed bytes, which state the automaton has, which pointers it has
   stored and what is on the list: `LineState`, `LineLearnt`, `HeaderState`, `HeaderLearnt`,
   `BodyAt`. There is a lemma for each part of the `switch`, and `LineStep` and `BodyStep` for a byte.
4. `LineOutcome` and `BodyOutcome`: so does a call, from wherever the last one stopped.
5. `ConnInv`, the invariant of the connection. That the parser is where it should be is not
   inductive: it needs that the ring still has each unparsed byte (`IInv`), and that what was
   read is the beginning of the text (`SentIsText`).
6. The other direction, for requests that need not be well formed: `AcceptInv` says what the bytes parsed so
   far are in each state (`LineSoFar`, `HeadersSoFar`), as the grammar of `LineTo` has them. It is about
   the text alone, not about pieces. There is a lemma for each part of the `switch` again (`LineByteFound`,
   `BodyByteFound`), and one for a call of each parser (`LineCallFound`, `BodyCallFound`).

From these follow `ParsesWhatWasSent`, `MethodsAreRecognised`, `WellFormedIsAccepted` and
`ParsingEnds`. The last two are the properties of the run as they stand; the others have the
hypothesis that the request is well formed. It is needed: a request is a record of pieces, and
for pieces that are not well formed the properties depend on how the text is cut into
them. A method with a blank in it is parsed as a method and a gap, so `ParsedAsSent` would look for the URI
in another place than the parser, and a malformed record can have the text of a well-formed one. The
requests of the run leave out such pieces, so it also checks the malformed ones. `WellFormedIsAccepted`
says of the headers only where they end: that in between each is a key, a colon and a value is in
`ParsesWhatWasSent`, for the well-formed ones.

**HttpConnProofs, the handlers.** `HandlesWhatWasSent` needs `HandleInv`: nothing is read once
a request is complete, and the list is what is left of that which the parser made.
`HeaderInPlace` says that a key or value in one piece, and not overwritten, is compared
byte for byte (`PieceInRing`), and `HeaderHandled` what the handlers make of it. Proving this
showed that the result depends on the order of `sgx_http_headers_in`, as `strncmp` with the length of the key
takes a key that is only the beginning of a name for it: `NamesAssumption` says that `Connection` is not taken
for `Host`. Of `modified` nothing more can be said than that it is reset for a date at most, as the conversion of
the date can give any time.

**MiniServerProofs.** `NothingIsLeft`: the server's descriptors are a function of the line
its thread is at (`OpenAt`, `ServerHas`), whatever other children have inherited, and
`ChildInv` follows a child from the fork to `waitpid`. `RepliesAreOutput` and
`InputsAreBodies`: what was written is what came out of the pipe followed by what is in it
(`OutputInv`, `InputInv`), and the thread leaves `output` only at the end of the pipe, which
the child's own write end (`ChildHas`) keeps open until it has exited. `NotKilledWithoutReason`:
nobody has the end to read from only when the child has ended, since the child keeps it until then
(`ChildHas`), and what it has read by then is a part of what was sent (`InputInv`); the
other reasons are a client that hangs up and a file that is sent without a program.

**FdLineProofs.** `FlattenSeq` is a recursive function too, and `Layouts` shows where each line of a
request ends in its text. `At` is the invariant: the call that is on began a multiple of the
buffer's room into some line, the buffer has what follows there, and no line before it has
ended the headers. A multiple plus less than the room leaves just that as a remainder
(`Remainder`), which is how the last piece of a line is told from the others.
`BodyIsFound` follows at the end of the headers; `LengthIsRead` besides from what
`atoi` returns (`NumberIs`) and from the value so far being that of the last such header.
Proving it showed that a line of which a lone LF is left ends the headers as well.

**PallocProofs.** `PiecesAreSound`: `begin` of the first block is behind every piece in it,
as each allocation takes its place from there; with that a new piece is apart from the others
until one has strayed. That every piece is inside some block is not enough.
`LargePiecesAreAccounted`: no two nodes have the same piece (`LargeInv`), so `pfree` clears
the only one. `FilesAreAccounted`: likewise for the handlers of a file (`FileInv`), whichever
pool is absent, live or destroyed.

Only model-checked:

* liveness (`EveryJobStarts`, `DestroyTerminates`, `EveryTimerResolved`, `ConnectionsEnd`,
  `ConnectionsAccepted`, `HeadersEnd`), since the prover has no rules for `ENABLED`;
* of requests that are not well formed, `ParsedAsSent`, `MethodRecognised` and `HandledAsSent`;
* that an event meets a live request, or a program is answered, or the top of the heap is the
  first: these do not hold (section 5).

## 5. Findings

Shown by a run:

1. `priority_queue_down` ignores the right child (`sgx_priority_queue.c:78`, run
   `priority_queue_top`): timers can fire late.
2. The input of a program is closed only after its output has ended (`sgx_mini.c:361`, run
   `mini_server_drain`).
3. Timers are handled between the wait and the events it returned, and free requests those
   events point to (`sgx_rush.c:89-96`, run `event_loop_stale`).

Met while modelling, each built into the module named or left out of a property by a named
condition:

* A second `sgx_thread_pool_destroy` reads the pool the first one freed
  (`sgx_thread_pool.c:69`; the contract of `ThreadPool` excludes it).
* `method` keeps what `malloc` left there for an unknown word of three or four bytes
  (`http_parse.c:66-83`), which may be read as GET; `MethodRecognised` says when. Where `c >> 'Z'` is zero,
  any byte from `A` on passes in a method, and where it is not only `_` (lines 55 and 91).
* The date of If-Modified-Since is never compared with the time of the file: `out->mtime` is not set, and
  line 127 of `http_request.c` has no effect.
* A key or value that goes round the end of the ring is saved as a pair of pointers that is
  no range (`http_parse.c:339`; `HandledAsSent` excepts it). The header parser logs every
  resumption as an error (line 272), though it resumes correctly.
* An accepted connection is not monitored and never closed (`sgx_rush.c:126`), its timer closes
  the listening socket instead (line 127), and `sgx_epool_wait` returns no value
  (`sgx_epool.c:42-48`): see `EventLoop`.
* Small allocations take the position of the first block in every block
  (`sgx_palloc.c:135`), reset keeps a clean-up list whose nodes it gives away (line 89), the
  handlers of that list run only in debugging builds, and destroy leaks the last block
  (line 82): see `Palloc`.
* A line that fills the buffer exactly is read without its CR LF, which then ends the headers
  early, with the rest of them left for the body (`sgx_mini.c:93`), and so does a line of which
  a lone LF is left (line 288); `BodyFollows` says exactly when. Without one blank after its name, `Content-Length` loses its first digit (line 291;
  `LengthAsSent` excepts it).
* An error of `pthread_create` is not seen (`sgx_mini.c:76`), and any error of `accept` ends the server
  (line 72): see `MiniServer`.

Properties that hold with an exception that is worth knowing: `HandlersOnLiveRequests` (a
request armed while a timer of it was, as the listener is), `FullOnlyWhenFull` (a live
connection is closed when `SGX_MAX_BUF - 1` bytes are unread), `EndsWithTheText` (a
request without headers never ends), `ParsedAsSent` (header lines that end with a bare LF
are not kept; more than one digit of the major version is misread at line 189),
`MethodRecognised` (not when the method goes round the end of the ring), and
`KilledForAReason`.

## 6. Not modelled

* **Slab allocator.** `sgx_slab_alloc_locked` breaks off in the middle of a statement
  (`sgx_slab.c:226`), `sgx_slab_alloc_pages` has no body, and nothing ever puts a page in a
  slot: no allocation can be followed to an end, so there is no behaviour to check.
* **Configuration and cycle.** `sgx_init_cycle` is unfinished, `read_conf` is file input;
  nothing in them interacts.
* **Set-up of sockets** in `sgx_rush.c` and `sgx_mini.c`: sequential calls of the system. `Readline`
  and `Writeline` have no caller, and `sgx_rush.c` from line 273 on is commented out.
* The code behind the label `err` of `sgx_request_run`, which is missing from the source.
* Failure of `malloc` outside the thread pool, the queue and the memory pool. Texts of responses, MIME
  types, logs. The words of the mini server's request line: the call is what they say. Line 205
  of `sgx_mini.c` is read as its commented-out variant.

## 7. What is left

* That the headers of an accepted text are keys, colons and values, as a theorem about any text: it would
  follow `LineTo`, with a state per part of a header.
* A caller of the parsers, and what follows the label `err`, when the source has them: the rules of
  `HttpConn` are the ones their return codes ask for.
* The slab allocator, when an allocation can be followed to its end.
