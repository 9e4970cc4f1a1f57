# A TLA+ model of LServer

LServer (`src/`) is an asynchronous multi-threaded TCP server in C++: an accept
loop hands connections to pooled session objects that live on a changing set of
I/O contexts, each with its own threads; an HTTP protocol on top of the sessions
runs small programs ("VScripts") that lock shared resources, sleep, loop and ask
for a download. This directory holds TLA+ modules of its core, the TLC
configurations that check them on small instances, and theorems about them that
TLAPS checks for every value of the constants.

All paths below are relative to the repository; `server.hpp` means
`src/src/server.hpp` and so on. `PROJECT.json` lists, for every definition, the
lines it models, and for every hazard the line where it bites.

## 1. The system

| part | state | operations | used by |
|---|---|---|---|
| `TriggerGuard` (`syncronization_utils.hpp`) | `ref_cnt_`, `triggered_`, a mutex, a condition variable | open and close a scope, `trigger()` | the accept handler, `dispatch()`, `Server::stop()` |
| `ResetableOnceFlag` (same file) | `invoked_`, a mutex | `reset()`, `run_once()` | `Session::setup()`, `close_once()` |
| `Pool` (`pool.hpp`) | stack of free items, table of all items and their ids, counters, one waiting callback | `borrow()` (two forms), `put_back()`, `recover()` | session pool, strand pool, queue buffer pool |
| `LSContext` (`lscontext.hpp`) | io_context, threads, strand pool, `ref_cnt_`, `hold_cnt_`, `active_` | `hold`/`unhold`, `ref`/`deref`, `stop`, `reuse`, `borrow_strand` | context pool, server, session |
| `LSContextPool` (`io_context_pool.*`) | list of contexts, round-robin index, `smtx_` | `get_context_round_robin`, `add_context`, `deactivate_context`, `stop` | server, control server |
| `Server` (`server.hpp`) | acceptor, shutdown guard, session pool, two context pools | `dispatch`, accept handler, `stop` | `ServerManager`, control server |
| `Session` (`session.hpp`) | socket, strand, receive buffer, outgoing queue, byte counters, close flag | `setup`, `session_start`, receive and send handlers, `close_once`, `finalize` | server, `Http` |
| `Http`, headers (`http.hpp`, `http_header.hpp`) | request and response header, program | `on_data`, `on_sent`, `on_closed`, `respond`, `reset` | session |
| `Program` (`program.hpp`) and instructions | instructions by `exec_point`, bytes processed, download size | `try_parse`, `feed`, `get_data`, `reset` | `Http` |
| `LSVirtualMachine` (`lsvm.hpp`) | table of resources, each with `taken`, `holder_id`, mutex and condition variable | `lock`, `unlock`, `cleanup` | instructions, `Program::reset` |
| `http_parser` (`http_parser.*`, vendored) | state, header state, flags, content length, error | `http_parser_execute`, `http_parser_init` | request header |
| `DynamicString` (`dynamic_string.hpp`) | buffer, size, capacity | `printf`, `resize`, `clear` | response header, queue |
| statistics (`stats.hpp`, `session_pool.hpp`) | a delta per session, one total per pool | count, sweep, read | portal, control server |
| control server, portal (`control_server.*`, `portal.*`, `service.hpp`) | a thread, `shutdown_requested_` | GetStats, AddContext, DeactivateContext, GetContextsInfo; print the statistics every second | the operator |
| server manager, signal manager, `main` | the servers, the thread that waits for a signal | start, stop, wait, destroy | the operating system |
| configuration | values read at start-up | | |

How they interact. `dispatch()` *holds* the next active context (so that nobody
deactivates it) and registers an asynchronous accept on a socket of that context.
The accept handler, under the shutdown guard, borrows a session from the pool,
sets it up on the held context (`ref`, strand, close flag), starts it, releases
the hold and calls `dispatch()` again. From `receive()` on, the session belongs to
the threads of its context, which may close and re-pool it while the accept
handler is still in `session_start()`. The control server adds and deactivates
contexts concurrently; a deactivation keeps the pool's lock until the last
session of the context is gone. `stop()` triggers the guard, closes the acceptor
and joins the acceptor pool and then the workers. A session feeds what it
receives to a `Program`, whose instructions run on the I/O thread and may block in
the shared virtual machine.

What is hard here: threads that touch a session after its next owner may have it;
counters that decide whether a context may stop; a condition variable notified
without its mutex; locks kept across joins; blocking instructions on event-loop
threads; requests cut into arbitrary segments; clients that leave at any time;
header objects and buffers that serve one request after the other; counters that
several pollers empty; and a shutdown that meets polls and calls in progress.

What makes each part correct:

* the guard: no scope is open once the trigger went off, and `trigger()` returns
  when the last scope closes;
* the pool: an item has one owner, the counters are exact, the limit holds, a
  waiting callback gets the next item;
* contexts and server: counters are exact, a session never sits on a stopped
  context, a held context stays active, one context always stays, every session
  can be closed once and returns, deactivation and shutdown end;
* session and protocol: one pending operation at a time, nothing of one
  connection leaks into the next, responses have the length they are to have, the session
  outlives its client only for a moment;
* virtual machine: locks are exclusive and are given up;
* headers: a well-formed request is understood whatever was parsed before with
  the same object, no input breaks the parser's assertions or its counters, and
  the response header is printed completely into a buffer with room for it;
* statistics and process: nothing counted is taken twice, nothing is used after
  its destruction, a signal ends the process.

## 2. The modules

| module | models | composed from |
|---|---|---|
| `ShutdownGate` | abstract: a gate that scopes enter and leave and that closes once, empty | |
| `TriggerGuard` | `TriggerGuard`, statement by statement | implements `ShutdownGate` |
| `TriggerGuardProofs` | invariants and refinement, proved | `TriggerGuard` |
| `ItemLending` | abstract: items lent to one borrower at a time, up to a limit, the waiting borrower first | |
| `Pool` | `Pool<T>` | implements `ItemLending` |
| `PoolProofs` | invariants and refinement, proved | `Pool` |
| `ContextPool` | `LSContext`, `LSContextPool` | |
| `SessionLife` | the life of a session object, which both views of a session implement (abstract) | |
| `Server` | accept loop, session life, control requests, shutdown | extends `ContextPool`, instantiates `ShutdownGate` and `SessionLife` |
| `ServerProofs` | invariants, proved | `Server` |
| `VirtualMachine` | `lock`, `unlock`, `cleanup` and the threads that run them | |
| `VirtualMachineProofs` | invariants, proved | `VirtualMachine` |
| `HttpSession` | the data path of a session, `Http` and `Program::feed` | instantiates `SessionLife` |
| `HttpSessionProofs` | invariants and the single close, proved | `HttpSession` |
| `RequestHeader` | `HttpRequestHeader`: the search for the end of the header, the callbacks | |
| `RequestParser` | `http_parser_execute()` for requests | extends `RequestHeader` |
| `ResponseHeader` | `HttpResponseHeader` and the `DynamicString` it prints into | |
| `HttpHead` | a client's request, `try_parse()`, `respond()`, `reset()` | extends `RequestParser`, `ResponseHeader` |
| `HttpHeadProofs` | type correctness of the parser, its assertions, the comparison of values and the room in the buffer, proved | `HttpHead` |
| `RequestReadProofs` | that a request of complete lines is understood, proved | `HttpHeadProofs` |
| `Statistics` | deltas, sweeps and totals | |
| `Process` | `main`, manager, portal, control server, signal manager | extends `Statistics` |
| `ProcessProofs` | invariants, proved | `Process` |
| `MCTriggerGuard`, `MCPool`, `MCServer`, `MCVirtualMachine`, `MCHttpSession`, `MCHttpHead`, `MCProcess` | instances for TLC | |

**TriggerGuard.** Each guard is a scope; `AcquireScopedGuard` is the constructor's
test and increment (one critical section), `ReleaseScopedGuard` the decrement and
`NotifyAll` the notification that follows it without the mutex. `trigger()` is cut
at every point where another thread can get in: taking the mutex, testing the
flag, evaluating the predicate of `wait()` (`WaitTest`), enqueueing and releasing
the mutex (`WaitBlock`), waking up (`WaitRelock`, `SpuriousWakeup`), setting the
flag. The cut between `WaitTest` and `WaitBlock` is what the language allows: an
atomic step of the condition variable is the release of the mutex and the
enqueueing, not the predicate.

**Pool.** `borrow()` takes from the stack, creates, is refused, or parks the single
callback; `put_back()` is cut between the clearing of the mark and the mutex of
`insert()`, which pushes or hands over to the callback; `recover(id)` snapshots the
table, then finalizes item by item outside the mutex, whatever other threads put back
meanwhile. `overlap` records the items whose `put_back()` overlapped the copy; an item
of the copy that nobody has any more is inserted a second time (`RecoverDoubles`), where
the model ends. Nothing in `src/` calls `recover()`. Construction and destruction of items is
abstract; the pool may be created eagerly or lazily. `LendSpec` says that all this
implements `ItemLending`: whoever holds an item (`holder`) is whom it is lent to,
`waiter` is who waits, `max_size_` is the limit.

**ContextPool and Server.** A context has its two counters, its activity and the
number of live threads. AddContext passes on any thread count: `threadless` records the
contexts that were published without a thread, by an `add_context()` whose
`set_num_threads()` throws or by `reuse(0)`. `stop()` on a context is split into the mark
that it is no longer active and the join, which ends when the context is `Drained`: no handler is queued or
running and no operation is pending. `Server` splits the accept handler wherever
another thread could see the difference (`HandlerEnter`, `HandlerBorrow`,
`SetupAttach`, `SetupReset`, `SessionStart`, `SessionStartUnhold`,
`DispatchGetContext`, `DispatchRegister`, `HandlerReturn`) and the close of a session
into `CloseOnce`, `FinalizePutBack` and `RunOnceReturns`, so that the next connection
can borrow the session while the old `run_once()` has still to set `invoked_`. The
guard appears as the gate that `TriggerGuard` implements; the session pool as
the set of free sessions, which is what `Pool`'s `SingleOwner` allows.
`invoked_` starts with any value, since the code never initialises it.

**VirtualMachine.** One transaction per session at a time, a sequence of
instructions. `LOCK` and `UNLOCK` are cut between the lookup under the shared `mtx_`
and the resource's own mutex; `cleanup()` owns `mtx_` exclusively and visits
resource after resource, so waiters that are already behind their lookup take
what it frees. Each phase says whether it occupies a thread of the session's
context. `has` is an auxiliary variable, what LOCK gave and nothing took back.

**HttpSession.** One session object over several connections. Bytes are counted; a
request is its header length, body length, URL class and, for a VScript, the
numbers its text determines (first line, program length, largest exec_point,
download). A client sends a request in arbitrary segments, waits for the
response, may send another one on a kept connection and may leave at any time.
One action per outcome of `receive_event_cb()`: `ReceiveMore` (header or program text
incomplete), `ReceiveRejected`, `ReceiveOverruns`, `ReceiveSpins`, `ReceiveFed` and
`ReceiveResponds`; one per outcome of `send_event_cb()`: `SendFails`, `SentMore`,
`SentKeepsAlive`, `SentCloses`. `close_once()` is posted and runs later. Three ways in
which the code loses the thread or the process are kept as `fate`: the exception
`BadReceptionState`, the endless loop in `feed()`, and an `erase()` beyond the end.
The manual closes that follow `stopped()` in `async_receive()` and `async_close()` are
left out: `SessionsOnLiveContexts` of `Server` shows that they are taken at most on a
context without threads, where no handler runs. `contentLength` is `content_length_`;
`Announced` is what "%d" prints of it, its low 32 bits as an int (`Printed`, with
`IntLimit` for 2^31). A client goes on when it has as much as was announced.

**RequestHeader, RequestParser, ResponseHeader, HttpHead.** The input is a sequence of
symbols: single characters, and the words that the parser or the callbacks compare
as a whole ("content-length", "keep-alive", ...). One action of `RequestParser`
handles one symbol in one parser state, or in a few states that share their code,
down to `goto reexecute_byte`; an error leaves `errno` set and no callback is made.
`marks` and `text` are the marks of `http_parser_execute()` and what lies behind them;
the callbacks change `header` as `set_url()`, `set_field()` and `set_value()` do,
`strncasecmp()` over the length of the value included. `ScanStep` is the search for
CR LF CR LF. `try_parse()` waits for that end and parses at one go; the model lets
the parser take each byte as it arrives and looks at the results when the header
is ready, which comes to the same because nothing reads them before. Where the
parser counts bytes (`HTTP_MAX_HEADER_SIZE`) the model allows the error in every
state in which the count can have grown. The response header is the sizes of its
seven pieces; `printf()` is cut into an attempt that fits (`PrintPiece`) and one that
enlarges the buffer and tries again (`EnlargeBuffer`). The buffer and its grown
capacity survive `Reset`, as they do in the code. `ref` is what the lines a
well-behaved client has sent mean; `ReceiveFree` is a client that sends anything.

**Statistics and Process.** A poll clears the total, takes a copy of the table of
sessions and goes through it with `exchange(0)` and `fetch_add()` in two steps; the
totals are read later, through references, and another poll may have cleared them
by then. `Process` follows `main()` from its start to its last destructor: the startup
sequence with its failures, the portal's thread, the calls of the control server,
the signal handler with its two stops, the two waits, and the destructors in the
reverse order of construction. A call that adds a context starts threads even in a
stopped server. `Server::stop()` is cut where it can be held up: its `trigger()` passes
(`TriggerPasses`) or sleeps on the lost wakeup (`TriggerSleeps`) until another connection
comes along (`TriggerWakes`), and its joins (`StopServers`) wait for the clients to leave;
what happens in between is in the server model.

## 3. The runs

| run | expected | shows |
|---|---|---|
| `trigger_guard` | pass | three guards, two racing `trigger()`: refinement of the gate, the inductive invariant, a thread blocked behind a guard is woken |
| `lost_wakeup` | violation of `TriggerUnblocks` | the wakeup of `trigger()` can be lost |
| `pool` | pass | counting, limit, ownership, hand-over to the waiter, refinement of the lending, for lazy and eager pools of limit 0 (none), 1, 2 |
| `server` | pass | counters, liveness of contexts, undisturbed handlers, closable sessions, the refinement of `SessionLife`, in every interleaving of accept loop, control requests and shutdown |
| `server_live` | pass | sessions return, deactivation and shutdown end, the accept loop goes on |
| `vm` | pass | locks exclusive, cleanup complete, every lock given up when threads suffice |
| `lock_blocks_thread` | violation of `LocksReleased` | a waiting LOCK takes the thread the holder needs |
| `http_session` | pass | one pending operation, clean objects in the pool, exact responses, sessions end with their client |
| `early_response` | violation of `AllDataFed` | responses can be sent before the body is in |
| `feed_spins` | violation of `PointsReached` | an instruction behind the first piece of the upload makes `feed()` spin |
| `http_head` | pass | any text into the request parser: assertions, types and lengths hold; well-formed requests are understood on every use of the objects; the response header is completed and fits |
| `process` | pass | start, polls, calls, signal and teardown: exact deltas, nothing used after its destruction, a signal ends the process when the clients leave, except where `stop()` sleeps on a lost wakeup |

The four violations are disagreements between a comment or the README and the
code; `PROJECT.json` quotes the lines. In short: (1) `release_scoped_guard()`
decrements and notifies without the mutex; (2) LOCK waits on the event-loop
thread; (3) the bytes of the header count towards the length of the body; (4) an
instruction is popped only when the bytes fed have reached its point, but nothing
is fed while `feed()` waits for that.

Other behaviours of the code that the models contain and no run is spent on:
`insert()` does not mark an item engaged that it hands to a waiting callback
(`InsertHandsOver`), so the assertion at `pool.hpp:360` would fail on its return;
`dispatch()` waits for `smtx_` as long as a deactivation waits for clients
(`AcceptLoopGoesOn` shows that it does end); AddContext with zero threads leaves an
active context that nobody runs (`AppendContext`, `ReuseContext`), whose sessions are
stranded: the properties about threads and returning sessions name it as the one
exception; a `recover()` beside a `put_back()` can insert an item twice
(`RecoverDoubles`); from 2^31 bytes on the Content-Length is wrong (`Printed`); polls that
overlap read wrong totals (`LoneSweepExact` is about those that do not).

Bounds, and why they are enough:

* `Guards` (3) and `Triggerers` (2): two overlapping releases with an acquisition in
  between, and both orders of two triggers.
* Pool: `Items` one more than the largest limit, so that an excess item would be
  noticed; three `Users`, so that two compete while one waits; two `Ids`. The model
  has no step counter: its state space is finite as it is.
* Server: `Capacity` bounds the list of contexts (3: one to deactivate, one to reuse,
  one that stays), `ControlBudget` the control requests (3: append, deactivate,
  reuse, in any order, some refused); the contexts at the start have 1 or 2 threads,
  the two cases the code tells apart (strand or none), and AddContext asks for 1 or for
  0, which `set_num_threads()` refuses and `reuse()` accepts. Sessions are interchangeable, hence
  symmetric in the run without liveness. `server_live` uses two contexts of one
  thread each (or none, after AddContext), where blocking is most likely, and no symmetry.
* VirtualMachine: `Budget` transactions of each session (2: a second transaction
  meets the stale `holder_id` of the first), two resources, three scripts that
  leave a lock to the cleanup, release it early, or take two.
* HttpSession: `MaxRequests` (2) per connection and `Connections` (1 more after the
  first) reach both kinds of reuse; sizes of a few bytes with headers shorter and
  longer than the body, a download of several pieces with a shorter last one
  (`ChunkSize` 2). `MaxTransfer` stands for 256 KiB; no request fills the buffer.
  `IntLimit` is 4: the two downloads lie on either side of it.
* HttpHead: `MaxLength` (20) stands for `INT64_MAX`; two digits, or two hexadecimal
  digits, exceed it, so every overflow test decides both ways. `MaxVersion` (9) for
  999. `Lengths` has zero, one digit, two digits and 19, the largest length that the
  overflow test lets pass; the URLs pass through path, query and fragment, the other
  values through quotes and escapes. `Alphabet`, the bytes of a client that keeps to no
  form, leaves out the digits 2 to 8, which the parser treats like 0, 1 and 9.
  A client may send any number of lines and reset at any time: nothing bounds the
  length of a behaviour. `Capacity` (64) and `Doubling` (512) are the code's; the
  header of a response then takes one enlargement on the first use and none later.
* Process: a caller beside the portal, so that two polls overlap; two sessions, one of
  which may be created in the middle of a sweep; `MaxCount` (2) bounds what each counts,
  so that one counts again after it was swept. `TypeOK`, `Phases` and `Undisturbed` are
  parts of the proved invariant and not listed in the run.

`CHECK_DEADLOCK FALSE` is used where a run ends legitimately: after a shutdown, when
the budget of requests is used up, or when all triggers are through.

Fairness, and what justifies it:

* threads that can run do (weak fairness of every handler step);
* a handler queued in an io_context gets a thread although others compete for it
  (strong fairness of `HandlerEnter` and `CloseOnce`): asio's queue is first-in
  first-out;
* borrowers put back (`Pool`), clients leave some day (`SessionClose` in `Server`):
  assumptions on the environment, which `SessionsReturn`, `DeactivationReturns`,
  `AcceptLoopGoesOn`, `StopReturns` and `WaiterServed` depend on and name;
* nobody is obliged to connect, to send another request, to send control requests
  or to stop the server, and no order is assumed among the waiters of a VM
  resource: transactions are bounded instead. In `HttpSession` only the server's
  handlers are fair; a silent client may stay for ever;
* in `HttpHead` only the printing of a response, a run of calls on one thread, is
  fair; in `Process` `main()`, the signal handler, the portal's thread and a call that
  was accepted go on, while calls, sessions and signals may or may not come;
* `SignalEndsProcess` also rests on what the code does not guarantee: `FairSpec` of
  `Process` assumes that the clients leave once the acceptor is closed (`ClientsLeave`),
  and those of a context that is deactivated before, so that the call returns and
  `trigger()` is not held up. One idle keep-alive client keeps `stop()`, and with it the
  process, waiting for ever. That `trigger()` wins its race is not assumed: the
  property allows a handler that is found asleep in it again and again.

Contracts the models assume, because the code does:

* only the borrower of an item puts it back;
* in `vm`, VScripts unlock only what they have locked (`Disciplined`, evaluated by
  TLC for the instance), since `unlock()` does not look at the holder, and lock
  in one order;
* the resources of the VM exist (the insertion into the map under a shared lock
  is a data race the model does not follow);
* in `HttpHead`, a word that the parser compares with arrives whole: the parser
  goes on with a half-matched `chunked` behind a bare CR inside it, which the
  model takes for other text;
* a client does not pipeline, and the rest of an older body in front of a header
  does not parse as a request for a URL that is served.

## 4. What is proved

| theorem | statement | for |
|---|---|---|
| `GuardInvariance` | `Spec => []GuardInv` | any finite set of guards, any set of triggering threads |
| `TriggerExcluded` | `Spec => []GuardExcludesTrigger` | the same |
| `Refinement` | `Spec => GateSpec`, the detailed guard implements the gate | the same |
| `PoolInvariance` | `Spec => []PoolInv` | any finite set of items, any users, ids, limits |
| `OneOwner` | `Spec => []SingleOwner` | the same |
| `WithinLimit` | `Spec => []Limit` | the same |
| `CountIsExact` | `Spec => []InFlightExact` | the same |
| `NobodyOvertakes` | `Spec => []WaiterNotOvertaken` | the same |
| `AssertionsHold` | `Spec => []PoolAssertions` | the same |
| `RecoverHitsBorrowed` | `Spec => []RecoverTargetsInFlight` | the same |
| `PoolLends` | `Spec => LendSpec`, the pool implements the lending of items | the same |
| `ServerInvariant` | `Spec => []ServerInv` | any finite set of sessions, any capacity, thread counts and control budget |
| `ServerTypeOK` | `Spec => []TypeOK` of `Server` | the same |
| `CountersAreExact` | `Spec => []CountersExact` | the same |
| `HeldContextsStayActive` | `Spec => []HeldContextsActive` | the same |
| `HandlerIsUndisturbed` | `Spec => []HandlerUndisturbed` | the same |
| `OpenSessionsCanClose` | `Spec => []OpenSessionCanClose` | the same |
| `SessionsHaveThreads` | `Spec => []SessionsOnLiveContexts` | the same |
| `SessionsLiveAsPromised` | `Spec => LifeSpec` of `Server`, the sessions implement `SessionLife` | the same |
| `StoppedContextsAreFree` | `Spec => []StoppedHasNoRefs` | the same |
| `LocksAreExclusive` | `Disciplined => (Spec => []LocksExclusive)` | any sessions, resources, contexts, thread counts, VScripts |
| `CleanupIsComplete` | `Disciplined => (Spec => []NothingLeftBehind)` | the same |
| `SessionInvariant` | `Spec => []SessionInv` | any requests, sizes, chunk size, limit of an int, number of requests and connections |
| `SessionTypeOK` | `Spec => []TypeOK` of `HttpSession` | the same |
| `OneOperationPending` | `Spec => []OnePending` | the same |
| `PooledIsClean` | `Spec => []CleanWhenPooled` | the same |
| `ResponsesAreExact` | `Spec => []ResponseExact` | the same |
| `ClosedOnce` | `Spec => CloseFinalizes` | the same |
| `LivesAsPromised` | `Spec => LifeSpec` of `HttpSession`, the session implements `SessionLife` | the same |
| `HeadInvariance` | `Spec => []HeadInv` | any limits, URLs, values and lengths up to the limit |
| `TypeCorrect` | `Spec => []TypeOK` of `HttpHead` | the same |
| `ResponseAlwaysFits` | `Spec => []ResponseFits` | the same, any capacity and doubling limit |
| `AssertionsHold` (`HttpHeadProofs`) | `Spec => []ParserAssertions` | any limits, URLs, values and lengths up to the limit |
| `ComparedOnce` | `Spec => []ValueComparedOnce` | the same |
| `RequestsRead` | `Spec => []RequestRead` | the same, URLs that are paths, values of one line that are not blank |
| `ProcessInvariance` | `Spec => []ProcessInv` | any sessions, callers and counts |
| `SweptOnce` | `Spec => []DeltasSweptOnce` | the same |
| `LonePollReadsItsSweep` | `Spec => []LoneSweepExact` | the same |
| `TeardownIsSafe` | `Spec => []TeardownSafe` | the same |

*Guard.* `GuardExcludesTrigger` is not inductive: that no scope is open when the flag
is set rests on the predicate having been tested, and on its still being true.
`GuardInv` adds that `ref_cnt_` is the number of counted scopes, that a thread past
the mutex owns it, that a successful test of the predicate stays valid because an
acquisition needs the mutex (`TestStillHolds`), and that the wait set is the set of
blocked threads. The refinement maps scopes to the counted guards and the closed
gate to `triggered_`; every step is an entry, a leave, the closing or a stutter.

*Pool.* The limit is enforced by the number in flight alone, so `Limit` needs
`InFlightExact` (what is in flight is what the pool owns and is not on the stack)
and the fact that items are created only when the stack is empty. `SingleOwner` needs
that stack, table and returning items agree (`StackDistinct`,
`RecoverTargetsInFlight`) and `WaiterNotOvertaken`. `PoolInv` is their conjunction, with
`RecoverRuns` for the items a `recover()` has still to visit: outside `overlap` they are
with the borrower the copy found them with. The
refinement needs all of it: a `borrow()` lends an item that nobody has and finds room
because what is lent is out of the stack (`LentAreOut`) and counted in flight; it
finds nobody waiting because a waiter means an empty stack at the limit; a hand-over
finds room although the pool is at its limit because the item on its way back is in
flight and lent to nobody. Pushing, copying the table and refusals are stutters.

*Contexts and server.* `CountersExact` is the heart: a context may stop only when its
counters say so. It is not inductive alone, because which context the handler
will `ref` or `unhold` is decided several steps before. `ServerInv` adds `SetupInStep` (the
session in the hands of the accept handler is in the stage of `setup()` the handler
is in, on the context `dispatch()` chose, and no other session is in such a stage),
`LocksHeld` (who owns the pool's lock while a context drains, and how far the shutdown
can be) and the three properties that rest on one another. `ThreadsUntilDrained` says
on top of it that a context keeps its threads until nothing is left on it;
`SessionsOnLiveContexts` and `StoppedHasNoRefs` follow from it. All three are stated for
any thread counts and say which contexts are the exception: `add_context()` publishes a
context before `set_num_threads()` rejects a count outside 1 .. 64, `reuse()` takes a count
of zero, and either way the context is active without a thread.

*Session.* `OnePending` is kept by a receive or send handler only if the session is
open (`NothingAfterClose`: a finalized or lost session has nothing under way), and the
single close in turn finds an empty queue because of `OnePending`; `CleanWhenPooled` is
what the next connection starts from. `ResponseExact` needs that the header flag is
cleared with the transaction; that the announcement is right just below 2^31 is the
lemma `PrintedSize` about "%d". That the number of a transaction stays in its range
needs `TransactionsInStep`: a header is parsed only of a request the client has begun.
`SessionInv` is the conjunction. `ClosedOnce` is an action property from it: every
`close_once()` that runs finalizes an open session, and nothing else does, so the
branch that puts a close off (`prepare_for_shutdown_`) is never taken.

*Life of a session.* `Server` knows of a session where it is between the pool and its
close, `HttpSession` what it does in between; `SessionLife` (idle, open, closing, idle
again; lost from open only) is what the two must agree on, and each is proved to
implement it. In `Server` an object is idle from the pool to the end of `setup()` and
closing until `finalized_()` has put it back; that `setup()` and `session_start()` find the
object in the stage they expect is `SetupInStep`. In `HttpSession` it is closing once a
`close_once()` is posted; that nothing is received, sent or lost then, and that the next
connection starts with no close left over, is `OnePending` with `NothingAfterClose`. The
loss of an object (an exception or an endless loop in a handler) is a step of
`HttpSession` only.

*Virtual machine.* An UNLOCK frees the resource whoever holds it, so exclusion needs
that the unlocking session has it: `HasAsScripted` says that what a session has is
exactly `Held(script, at)`, what its VScript locked and did not unlock up to the
instruction it has reached (lemma `HeldStep`), and `Disciplined` says that an UNLOCK
names a member of it. `CleanupCovers` says that a `cleanup()` in progress has still to
visit whatever its session has. `VMInv` is the conjunction with the type
invariant and `LocksExclusive`; TLC agrees with it on the instance of `vm`.

*Headers.* That a length stays within its limit is not inductive over the type
alone: the tests of `execute()` bound the product only if the length is not
negative, and it is -1 until the first digit has been read. `HeadInv` therefore
carries `Counted` (what is counted up has begun, what is counted down has not run
out, chunks belong to chunked messages) beside the types; `Safe` collects what
every parser record must satisfy, and one lemma per action shows that it is kept.
For `ResponseFits` the proof adds where in the list of pieces the printing stands,
and that the keep-alive answer of the request does not change while it does.

*Marks.* The assertion that at most one mark is set needs to know, for each parser
state, which mark that may be: `MarkOf` gives it, and `MarkInv` says that no other is set
while the parser runs. What is left when the search has found the end of the header
depends on how the search and the parser move together: `ScanInv` relates what the
search has seen (`scan`) to the marks and states the parser can have behind a CR, a
CR LF and a CR LF CR (`BehindCR`, `BehindCRLF`, `Delivered`). `HeadInv` supplies the types.

*Requests.* That a request of complete lines is understood is a statement about the end
of its last line; to get there the invariant has to follow the parser through every
line. `ReadInv` is a disjunction over the places a reader can be in (before the method,
in the URL, at the i-th symbol of the version, at the name, the colon, the blanks, in
the value of each kind of line, at the line's end, in the blank line), and for each one
says what is left of the line, which state the parser is in, and that everything read
so far has been understood; `Known` leaves out the one header the current line is about
to change. A lemma per place shows that the next symbol leads to the next place.
The digits of a length need induction: `Reads` says that the values of the prefixes of a
number end in that number and pass the overflow test on the way, and `DecimalReads`
proves it of `Decimal[n]` for every n by taking the least counterexample, which exists
because the natural numbers are well-founded (`Least`); the same argument gives that
`Decimal`, defined by recursion, satisfies its own equation (`DecimalUnfolds`). From the
other invariants the proof takes the types and that no mark but a body's is left at the
end of the header (`ScanInv`), so that the call that ends `execute()` delivers nothing twice.

*Process.* `LoneSweepExact` speaks of the moment a poll reads; `Undisturbed` says it of
every poll that is still alone, together with the fact that nobody else sweeps, so
that only its own `AddDelta` can change the total. `TeardownSafe` follows from `Phases`,
which says for each stage of `main()` which threads and calls can still be there, and for
each stage of `stop()` what the server still has: a connection only while it runs or closes.

The inductive invariants were checked by TLC on the instances of the runs before they
were proved (`ServerInv`, `ThreadsUntilDrained`, `SessionInv`, `CloseFinalizes`, `MarkInv`,
`ScanInv` and `ReadInv` are not listed in the runs, nor is `LifeSpec` of `HttpSession`,
which TLC checked there as a property).

Assumptions on constants (each an `ASSUME` that TLC evaluates on every run): sets of
guards, items and sessions are finite; bounds are natural numbers, `MaxRequests`,
`ChunkSize` and `IntLimit` positive; a request fits the receive buffer; special values (`Nobody`,
`NoContext`, `POI_INVALID`) are no members of the sets they stand beside. For the lines of
a client (`HttpHead`): a length passes the parser's own overflow test (`HeadLengths`),
which refuses a digit when more than a tenth of the room is taken; a URL is a path,
perhaps with a query string and a fragment (`HeadUrls`); the value of a line that means
nothing to the server is one line, not blank, and does not end in a backslash
(`HeadValues`): inside a quotation the parser skips the byte behind it, here the CR. These
are assumptions on what counts as a request of complete lines; any other text is
sent by `ReceiveFree`, and every theorem but `RequestsRead` holds of it as well.

Only model-checked: every liveness property, since fairness and `ENABLED` are out of
the prover's reach.

## 5. What is not modelled

* Of `http_parser`: responses and `HTTP_BOTH`, the strict build,
  `http_parser_parse_url()` with its host parser, and `http_parser_pause()`. LServer
  creates request parsers only and calls none of the others.
* The JSON text of a VScript (a library parses it) and the instruction factory
  (compile-time tables). The order of instructions by `exec_point` is kept as the
  largest point of a script.
* gRPC itself, configuration, command line, logging, timing and compile-time
  helpers: libraries, sequential start-up or pure I/O; configured values are
  constants, failures at start-up the action `StartFails`.
* The layout and the text of the statistics table and of the response header (only
  its sizes), and the generated protobuf code.
* A receive buffer that is full: a read into it completes with no byte and is armed
  again (`session.hpp:394`). The assumption that a request fits the buffer excludes it.
* The io_context behind `socket_`: `dispatch()` builds the socket on the context it has
  chosen (`server.hpp:198`); the model has the context's number and counters, not the
  io_context object that `stop()` replaces.
* Data races that are undefined behaviour without enumerable outcomes (insertion
  into the resource map, `get_contexts_info()`).

## 6. Plan

Done: the guard and its gate, the pool, contexts and server, the virtual machine,
the data path of a session, both headers with the request parser, the statistics,
and the process; proofs of every safety invariant that a passing run checks; the
refinements of the gate, of the lending of items and of the life of a session (by the server and by the session itself).

What is left is outside these proofs: the liveness properties, and the hazards of
`PROJECT.json` that no property covers, each with the reason.
