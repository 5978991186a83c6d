# Verification of theframework in TLA+

theframework is a Python HTTP framework whose I/O runs on greenlets over io_uring. A *hub*
(Zig, `src/hub.zig`) owns the ring, switches to greenlets that have something to do and, when none
has, waits for completions. Python code (`theframework/`) accepts connections, runs one greenlet
for each, patches the standard library so that blocking calls become greenlet waits, and in its
multi-process mode supervises forked workers.

This directory models the parts of it in which the order of events decides what happens, checks
them with TLC on small instances and proves the most important facts with TLAPS. Paths below are
relative to the repository (`PROJECT.json` prefixes them with `src/`).

## 1. Inventory

### Hub event loop (`src/hub.zig`, `Hub.hubLoop`)
*State*: the ready queue, `active_waits`, `running`, the stop pipe, the ring's two queues.
*Operations*: drain the ready queue, exit check, submit and wait, copy a batch of completions and
act on each; `hub_schedule` and `hub_stop` from outside.
*Interactions*: switches to greenlets and is switched to by their waits; `hub_stop` may come from
another thread through the pipe.
*Hard*: a counter decides whether the loop goes on, and is changed by every kind of wait, every
completion and every clean-up; an exception out of one greenlet ends the loop for all.
*Correct when*: the counter is exact, nobody is queued twice, nobody suspended is forgotten, and
the loop ends when asked to.

### Waits on operation slots (`src/hub.zig`, `src/op_slot.zig`)
*State*: a table of slots with generations, a free list, the `PollGroup` of a multi-poll.
*Operations*: `green_sleep`, `green_poll_fd`, `green_poll_fd_timeout` (linked timeout),
`green_connect_fd`, `green_poll_multi` (several slots, first completion wins), their clean-up when
the switch fails because another greenlet threw into the waiter.
*Hard*: slots are reused while the kernel still holds operations for them; failure half-way through
a call; a throw between the completion and the resumption.
*Correct when*: no slot is lost, no completion reaches anybody but its own wait, every wait with a
timeout returns.

### Waits on connections (`src/hub.zig`, `src/connection.zig`)
*State*: the connection pool with generations, the map from fds to connections, the single accept,
per connection a state, a count of pending operations and the waiting greenlet.
*Operations*: `green_accept`, `green_recv` and `http_read_request`'s `doRecv`, `green_send` and
`http_send_response` with their continuation after a partial write, `green_close` (cancel, close,
release), `green_connect` (opens, registers, connects), `green_register_fd`, `green_unregister_fd`.
*Hard*: closing is asynchronous; fd numbers and connections are reused; one greenlet may close what
another waits on; the cancel request has a completion of its own.
*Correct when*: the map and the pool agree, a transfer is woken by its own completion, no buffer is
given up while the kernel uses it, a close closes the file it was meant for.

### io_uring wrapper (`src/ring.zig`)
*State*: the submission queue of 256 entries. *Operations*: one `prep` per kind of SQE, which fails
when the queue is full; `submit`, `submitAndWait`, `copyCqes`. It is part of the modules above.

### Pre-fork supervisor (`theframework/server.py`, lines 319-550)
*State*: `children` (pid to worker), `_shutting_down`, crash histories, signal handlers; the
kernel's process table. *Operations*: fork the workers, reap and replace the dead with backoff and
a crash limit, stop all with SIGTERM, deadline and SIGKILL.
*Hard*: signals between any two steps, pids that are reused, children that inherit handlers, a
fork after a shutdown was asked for.
*Correct when*: no worker is lost or run twice, only own processes are signalled, a shutdown ends
and leaves nobody behind.

### Request handling (`theframework/server.py` 125-311, `app.py`, `request.py`, `response.py`)
*State*: per connection greenlet, the request and whether its response was sent. *Operations*: read,
dispatch, finalise or send an error, keep alive or close; the acceptor; the signal watcher.
*Hard*: which error path sends what, and that the descriptor is closed exactly once.

### HTTP read loop and input buffer (`src/hub.zig` 2297-2647, `src/input_buffer.zig`, `src/lazy_request.zig`)
*State*: a growing buffer with read and write position, the arena of parsed headers, request
objects that point into both. *Hard*: compaction and growth under pointers, pipelined requests,
limits, the clamp of buffer sizes at 16 MB.

### Recyclers (`src/buffer_recycler.zig`, `src/chunk_pool.zig`, `src/arena.zig`)
*State*: bins of free buffers by size class, a list of free chunks, each connection's arena. *Hard*:
a buffer has one owner and goes back to the bin of its size; what a reset gives back.

### Cooperative sockets (`theframework/monkey/_socket.py`)
*State*: per socket object the number in the C object it extends, whether the hub has it
(`_registered`), its timeout twice (the object's own, and the C object's, which decides whether a
system call blocks), the files made from it. *Operations*: `socket()`, `dup`, `makefile`, `close`,
`detach`, `accept`, `connect`, `create_connection`; `recv`, `send`, `sendall` and their variants with
flags and for datagrams; `settimeout`.
*Interactions*: registers and unregisters with the hub, closes through `green_close`, looks names up.
*Hard*: two owners of one number (the C object and the hub), each of whom closes it; closes that are
executed later than the number is given up, and then reaped later still; exceptions that are no
`OSError` and pass `create_connection`'s `close()`; timeouts that are looked at after the wait; a system
call after a poll, when what was polled for may be gone.
*Correct when*: nobody uses a number that means another's file by now, nothing stays open that nobody
will close, no system call stops the thread, results say what happened to the bytes.

### Cooperative TLS (`theframework/monkey/_ssl.py`)
*State*: that of a socket, and the record layer's. *Operations*: each method tries, polls when it
would block, and tries again. *Hard*: bytes in the record layer of which no poll of the descriptor
tells; a socket wrapped while connected, which the hub does not have.

### Cooperative select, selectors, sleep (`theframework/monkey/_select.py`, `_selectors.py`, `_time.py`)
*State*: the selector's `_keys`, a poll object's dictionary. *Operations*: `select` of one, of many
and of nothing; `poll`; the selector's `register`, `unregister`, `select`, `close`; `sleep`.
*Hard*: polls begin only when the hub next submits, and `_keys` is read again after the wait.
*Correct when*: what is reported is so, and of what is registered now; nothing means timeout.

### Cooperative DNS (`theframework/monkey/_dns.py`)
*State*: a pipe and a box for the answer, for each lookup. *Operations*: open the pipe, submit the job,
poll, close the pipe, take the answer; in a thread: look up, store, write a byte. *Hard*: a thread goes
on when its lookup was given up and the pipe's numbers are somebody else's.

### Not candidates
Response formatting (`http_response.zig`, `http.zig`: sequential text), the extension's entry points
and C helpers (argument parsing), patching of modules (`monkey/__init__.py`, `_state.py`).

`PROJECT.json` lists the hazards of this code, each at its line, with the properties that watch it.

## 2. Modules

| Module | Models | Interacts |
|---|---|---|
| `HubLoop` | the loop, the ready queue, the stop pipe, throwing | shared by the next two |
| `HubSlots` | all waits on operation slots | extends `HubLoop` |
| `HubConns` | all waits on connections, and the fds of the process | extends `HubLoop` |
| `HttpRead` | reading and answering requests: the connection's loop, its input buffer, the recycler | beside `HubConns`, which has the waits its steps end in |
| `Exchange` | abstract: what one client may rely on | `HttpRead` implements it |
| `Descriptors` | below the cooperative library: numbers, who holds them, the hub's map and its queued closes | the next two build on it; abstracts `HubConns` |
| `Dns` | lookups in a thread pool | extends `Descriptors` |
| `CoopSocket` | who owns which descriptor: sockets, files, `accept`, `connect`, `create_connection`, finalizers | extends `Dns` |
| `CoopTransfer` | what `recv`, `send` and their like make of one plain or TLS socket | alone; the hub's transfers are `HubConns`' |
| `CoopSelect` | `select`, poll objects, the selector, `sleep` | alone, over the hub's polls |
| `Supervisor` | the pre-fork parent, its signals and its workers | alone |
| `Workforce` | abstract: what the pre-fork mode promises of its workers | `Supervisor` implements it |
| `HubLoop_proofs` | lemmas on counts and on the ready queue | extends `HubLoop`; used by the next two |
| `HubSlots_proofs`, `HubConns_proofs`, `HttpRead_proofs`, `CoopSocket_proofs`, `CoopTransfer_proofs`, `CoopSelect_proofs`, `Supervisor_proofs` | invariants | extend their module |
| `MC*` | instances and symmetry for TLC | extend their module |

### HubLoop
`status` says what each greenlet does: `unborn`, `scheduled` (in the ready queue without a wait),
`running`, `blocked` in a call, `dead`. Greenlets are cooperative, so at most one runs, and the loop
moves only when none does (`HubTurn`). `phase` is the place in `hubLoop`: draining, waiting,
reaping a batch, ended (`exited`), ended with an exception (`failed`). `sq` and `inflight` are sets
of SQEs: prepared, and in the kernel. Completions are reaped in any order and number, which covers
every order in which the kernel may finish; the read on the stop pipe is the variable `stop` and
takes no room in `sq` (it is submitted once, before anything else). `ThrowsInto` is greenlet's
`throw`: the thrower has queued itself first, which is how `tests/test_switch_failure.py` and
`tests/test_cqe_races_throw.py` do it; the victim's clean-up runs at once. `Fates` says whether it
may catch the exception and go on.

### HubSlots
A slot is `[gen, greenlet, result, group]` as in `OpSlot`; `group[s]` is the `PollGroup` in the
storage of slot `s`; `free` is the free list as a set, as which slot is popped next makes no
difference to the properties. `held[g]` are the slots in the local variables of `g`'s suspended
call. A wait has a number, and `result` is the number of the wait that an operation belonged to:
data is abstracted to whose it is. `BlockOnSlot` is every call on one slot (sleep, poll, connect, and
with `linked` the poll with a linked timeout); `PollMulti` the group wait. Each call has its failures
as actions of their own: no room in the queue (`BlockOnSlotFails`, `PollMultiFails`, where the SQEs
already prepared stay queued), too few slots (`PollMultiExhausts`; for one slot that changes
nothing). `ReapStale`, `ReapSingle` and `ReapGrouped` are the branches of the loop for a slot's
completion; `ResumeWaiter` is the rest of the call after the switch returns, `Throw` the clean-up
when it does not.

### HubConns
A connection is `[desc, state, gen, greenlet, pending, result]` as in `Connection`. A descriptor is
an fd with the file its owner believes it names; `file` is the truth, so that a close of somebody
else's file shows. `own[g]` are the descriptors `g` may use: it opened, accepted or was handed them
and has not closed them. `Shared` opens that discipline up: with `"fd"` greenlets use and close each
other's descriptors, with `"accept"` there may be two acceptors. SQEs carry what `user_data` carries,
a cancel request's 0 included. `Connect` is `green_connect` up to its wait: it opens a socket,
registers it, takes an operation slot and prepares the SQE; the slot is not a variable here, as the
call that waits (`call[g]`) says which SQE it is for, and no other call of this module takes one.
The descriptor is nobody's until `ResumeConnect` returns it; a failed connect and a throw give
socket, map entry and connection back (`Disconnects`), and want of a slot or of room does so within
the call (`ConnectFails`, whose only trace is the connection's next generation). `DropsWaiter` is the
reference the hub drops when it releases a connection somebody waits on: the greenlet may be
deallocated by it, if nobody else refers to it.
Operations execute in the step that reaps them; the module's header says why that is enough here.

### HttpRead
A connection greenlet's life is `pc`: about to read, suspended in `doRecv`, in the handler, sending
the response, sending a 500 (`fail`), sending a refusal (`refuse`), closing. Each action is what runs
between two waits, so `ReadRequest` and `Receive` are all of `http_read_request` from a wait to the
next: reset or commit, limit, parse, and then deliver, refuse, or reserve and receive again.
`input[c]` is the `InputBuffer`; `buf` says whose memory it is (`c` itself is the inline buffer), and
`data` holds the content offset by offset, where a byte is `<<client, position>>`. Content is
forgotten when a buffer is released, since nobody may read it any more. `bins` and `size` are the
recycler and the allocator under it. A request is reduced to the sizes of head and body, its
keep-alive and its fault; `tryParse` decides in the order of the source. `request[c]` is the request
object while its pointers are set. `client[k]` is history: what the client sends, what of it was
received and consumed, and the answers. Out of memory closes the connection and ends the loop
(`up`), because `_handle_connection` raises that `RuntimeError` again.

### Exchange
What is left of `HttpRead` when buffers, receives and other connections are taken away: for each
client the requests taken, the answers given, and whose turn it is. A request is taken only when it
is the client's turn and only when it is fit (`Fit`: no fault, within the limits); then the handler
answers or fails; then the answer is sent, and the turn goes back to the client only if the request
asked to keep the connection; a refusal, a 500 or a hang-up ends it. `Exchanged` in `HttpRead` is the
refinement mapping: `pc` of the connection that serves a client gives the turn (`TurnAt`), and a
client nobody serves any more has none. Every receive, compaction, growth and release is a stutter.
Its `Refuse` does not say which refusal is just; that is `AnswersJustified`, which needs the buffer's
limits.

### Descriptors, Dns, CoopSocket
A descriptor is a number with the opening of it that its holder means (`gen`); `open` says which
opening the number names, so that a number used after it was closed and given out again shows. `conn`
is `fd_to_conn` in the same terms. A close asked of the hub goes through three stages: queued
(`closes`), executed when the hub or `green_poll_multi` submits (`HubTurn`, `Submits`), and reaped in
the batch that follows, when the map entry goes; in between the number may be open again while the
map still has the old file (`Gone`). The kernel gives out the lowest free number. Waits end when the
hub says so (`MayEnd`): a lookup's when its pipe has a byte, every other at any time. `Dns` is
`_run_in_thread`: a pipe and a job are taken together, the thread stores and then writes to whatever
its number names, and the pipe is closed however the wait ends (`EndsLookup`). In `CoopSocket` each
action is what one greenlet does between two waits. `EnsureRegistered` and `ReallyCloses` are used
wherever the code calls `_ensure_registered` and comes to the end of `close()`. `create_connection` is
`LookupReturns`, `NextAddress`, `ConnectLooksUp`, `ConnectResolved`, and then one of four ends:

* `ConnectReturns`: the socket is the program's.
* `Raises`: an `OSError`; the attempt is closed and the next address is tried.
* `ConnectEscapes`: a `RuntimeError` of `green_connect_fd` or `green_poll_fd` (no connection under the
  number, no operation slot; `ConnectResolved` leads there), or a throw into the wait for the connection.
* `GivesUp`: a throw into the wait for a lookup, by itself or inside `connect()`, or a poll that fails
  there with a `RuntimeError`; its second alternative is a poll that fails with an `OSError`, which is a failed `connect()`.

The third and the fourth pass both `except OSError` (`_socket.py:267`, `418`): nobody calls `close()`.
`Escapes` drops the attempt as it is. Its C object closes the number some time later
(`FinalizesDropped`: the traceback keeps the socket alive as long as anybody keeps the exception), and
the hub's connection for it stays in the map with nobody to remove it: `Left` in `conn`. A socket that gets
the number later is refused by `green_register_fd` because of it. `ConnectResolved` lets an IPv4 attempt go on to its wait
only if the hub has some connection under the number, as `green_connect_fd` does.

`close()` of a registered socket queues a close and leaves the number in the C object (`kept`), which
closes it once more when it is finalized or closed again, at any later time (`FinalizesClosed`).
Whichever of the two comes second may hit a number that is somebody else's by then; `struck` says that
one has. From then on a socket may use, and close, another's file, so `OwnFile` and `AnswerStored` are
stated until that happens; `EverythingOwned` needs no such exception.

### CoopTransfer
One socket. `timeout` is `_timeout_value`, `native` the C object's, which decides whether a system
call waits (and then `stalled`: the thread, and the hub with it). A call is at `hub` while it is in
`green_recv` or `green_send`, at `poll` in `green_poll_fd`, `woken` between the end of the wait and the
greenlet's turn, at `syscall` in a system call. Bytes are numbers in order; `sent` is what the kernel
has taken of the call, `pending` what the record layer holds. `Starts` chooses the path by mode as the
methods do, `AfterWrite` is the rest of their loops. A deadline may pass at any time (`Expires`) and
is looked at where the code does.

### CoopSelect
`asked` is what a call notes before it waits, `polled` the file each poll has got hold of when the hub
submits, `seen` what it came to. `Reports` is the code that turns the result into what the caller
gets, one operator for each kind of call, and `ReportsSelector` reads `keys` again as `select()` does.

### Supervisor
`pc` is where the parent is; a fork and the entry of its pid in `children` are two steps, as signals
come between them. `proc` is the kernel's table: a child is `fresh` (default handlers) or `deaf`
(inherited the flag-setting handlers of the loop) until it resets its own, then `serving`, then a
zombie until reaped, and then its pid may be given out again. Time is abstract: how many earlier
crashes have left the 60 s window is chosen freely (`Counted`), sleeps end at some time, the
deadline passes at any time.

`Workforce` says what that is for, without processes, pids and signals: of each worker it knows only
whether it is up, down (dead, and nobody knows) or out. A worker is started only when it is out and has
crashes left, the next death is counted only when all who fell before have their replacement or are
given up, a stop lets in at most one more, who was about to be started (the loop does not look at
`_shutting_down` again between the backoff and the fork), and a parent that ends of itself has everybody out: after a
stop, or because all are given up. The mapping (`Crew`, `Hiring`, `Parent`) reads the first from the
process table and the rest from `pc`, `handlers` and `_shutting_down`. A parent that is lost (killed before its
handlers are there, or unable to fork) promises nothing of those it leaves, only that it starts no more.

## 3. Runs

| Run | Question | Instance |
|---|---|---|
| `slots_safety` | are waits counted exactly, nobody lost, nobody woken by another's completion? | 3 greenlets, 2 slots, queue of 2, 4 waits |
| `slots_liveness` | do timed waits return, does `hub_stop` end the loop? | 2 greenlets, one timed, 2 slots, 3 waits |
| `conns_served` | connections as the server uses them | 2 greenlets, 2 connections, 2 fds, 4 SQEs, queue of 2 |
| `conns_shared` | the pool and the map when greenlets do anything to each other, two of them accepting | as above, 3 SQEs |
| `conns_closer` | is a greenlet woken whose descriptor another one closes: **violated** | as above |
| `http_read` | are bytes, buffers, request objects and answers kept straight between connections, and is each client's exchange one of `Exchange`? | 2 connections, 2 clients with one of 10 scripts each, 4 buffers, classes 1-2-4-8 |
| `sockets_owned` | does everybody use his own file until a second close strikes, and is nothing lost but what the code loses? | 2 greenlets, 2 sockets, 3 numbers, 2 lookups, 2 addresses, 1 throw, 1 object to be finalized |
| `sockets_closed_twice` | does a queued close hit the socket's own file: **violated** | the same with 2 numbers, no throw |
| `sockets_bytes` | are results true, does the thread go on, does a reader get what has come? | 2 greenlets, sends of 2, kernel buffers of 2 and 1 |
| `select_reports` | is what is reported so, and is nothing the timeout? | 1 waiting greenlet, 2 numbers, 2 files |
| `supervisor_running` | the supervisor with deaths, pids reused and signals anywhere | 2 workers, 3 pids, 3 crashes, 6 deaths |
| `supervisor_startup` | a signal while workers are forked: **violated** | the same |

**Bounds and why they are enough.** Two slots and three greenlets make slots scarce, so that every
failure of `green_poll_multi` happens and a slot changes hands between greenlets; four waits allow a
wait given up, its slot reused, and both completions late. The submission queue has two entries
instead of 256, so that it fills in the middle of calls. `GenMod` is above `MaxWaits`: generations
do not wrap within a run, which in the code takes 2^32 releases of a slot under one outstanding
operation. Two connections, one of them index 0, and two fds make both be reused; `MaxOps` bounds
the SQEs, so that a transfer, its cancellation, its close and a transfer on the reused connection
fit; `MaxFiles` and `MaxGen` bound what is opened and registered. A batch of completions is never
larger than 256 in the instances, so that limit has no counterpart. In `http_read` the unit is the
inline buffer: a receive is two units and the classes double, as 4096, 8192 and the powers of two
do; the limits of two units each make the largest class just sufficient, and the scripts
(`MCHttpRead`) make every branch of `tryParse`, both compactions, growth from an inline and from a
recycled buffer, and leftovers that are whole, part of a request, or none. Every split of what is
sent into receives is explored. In `sockets_owned` three numbers are just enough for a socket that
connects and the pipe of its lookup, so numbers are scarce and handed on at once; two lookups overlap
when the first was given up, and one object at a time has been closed or dropped and not finalized
(`MaxKept`), one descriptor is a plain number or lost (`MaxLoose`), one file is made from a socket
(`MaxRefs`). The constraint `Unstruck` ends a behaviour with the first second close that strikes: the state it leads to is
checked, those after it are not. Without it the instance is too
large; with one greenlet, one lookup at a time and no files it has 9 million states, and `EverythingOwned` and
the invariant of the proof, `SocketInv`, hold in all of them. What is so after a strike for
all instances is what the proof shows (section 5). `MaxGen` bounds the openings of one number that somebody still means;
one that nobody means is told from no other. In `sockets_bytes` a send does not fit the peer's buffer,
so every send is partial or would block. In `select_reports` one greenlet waits, and everybody else is
whoever opens, closes, registers and unregisters meanwhile; a second waiter would share nothing with
it but the selector. For the supervisor one pid more than workers makes pids be handed
out again at once; six deaths let both workers use up their three crashes. The `.cfg` files of the
hub and the supervisor say `CHECK_DEADLOCK FALSE`: the loop and the parent really end, and at a
bound a run stops; those of `CoopSocket` and `CoopSelect` do, because a wait that
nobody ends is one that may last for ever. `http_read` and `sockets_bytes` check deadlock; `Quiet` in
`HttpRead` is the one state in which nothing is left to do.

**Symmetry** (greenlets, slots, fds, connections other than index 0, buffers, clients, socket objects, pids) is used only where no
liveness is checked.

**Fairness.** `HubSlots!Fairness`: the loop runs when it can, and a running greenlet blocks, ends or
raises in the end (cooperative scheduling knows no more; a greenlet that computes for ever does stop
the hub). Of the kernel only this: the completion of a wait with a timer, and of the read on a
written stop pipe, is taken in the end (`io_uring_enter` may fail, `LoopFails`, but nothing makes it
fail, so that step is not among the fair ones: a loop that could only end by failing does not end).
Both can be taken only while the loop reaps, hence strong fairness; in the code they stay in the
completion ring until a batch copies them. Nothing is assumed of polls, connects or throws.
`CoopTransfer!Fairness`: the kernel completes what it can and a system call ends (weak); the hub
switches to greenlets in the order in which their waits were over, so each that is woken runs though
others run in between and make its turn come and go (strong, on `Wakes`). Nothing is assumed of the
peer, of deadlines or of what other greenlets call. `Supervisor!Spec`: the parent is scheduled, which the code justifies because `select` has a timeout
of 0.1 s and `sleep` ends; nothing is assumed of workers or signals.

## 4. Where code and documents disagree

Each violated run is a finding in `PROJECT.json`, with the line of a document or comment it disagrees
with.

* `conns_closer`: `green_close` never wakes who waits on the descriptor, though `_socket.py` says so:
  the cancelled operation's completion finds the connection in state cancelling, and nobody is queued.
* `sockets_closed_twice`: `close()` of a registered socket has `green_close` queue a close and leaves
  the number in the C object. Its finalizer closes the number at once, a socket opened next gets it, and
  the queued close closes that socket's file.
* `supervisor_startup`: signals before the loop's handlers are installed orphan workers.

Four more show when the constants are changed; no run is kept for them.

* A throw cannot take the victim out of the ready queue. If the victim catches the exception and waits
  again, the old entry ends the new wait early and leaves `active_waits` one too high
  (`slots_safety` with `Fates = {"dead", "running"}`: `ActiveWaitsExact`). Hence the assumption that
  nobody survives a throw, of that run and of the proofs.
* A cancel request carries `user_data` 0, so its own completion passes for one of connection 0 in
  generation 0 (`conns_served` with `Shared = {"fd"}`: `OwnCompletion`).
* After a throw during a receive, a close releases the buffers though the receive is still in the
  kernel (`conns_served` with `Fates = {"dead"}`, `Shared = {"fd"}`: `BuffersLive`).
* When the pool is exhausted `green_accept` closes what it has accepted and returns the number all the
  same; the caller closes it again (`conns_served` with one connection and three files:
  `ClosesOwnFile`).

What follows the modules have as the code has it; the properties say which cases they except.

* `accept()` marks the socket it returns as registered and so never makes it non-blocking: until the
  first `settimeout()` a `sendall` with flags stops the thread when the peer does not read
  (`_socket.py:291`, `ThreadNeverStalls`). So does a TLS socket wrapped while connected, which the hub
  does not have, with a blocking timeout.
* A `recv` that is late has taken its bytes and raises all the same; a late `sendall` has sent
  everything; a late `accept` leaks the connection (`lost` and `late` in the models). A deadline is
  looked at when the wait is over, or for TLS before the next wait: a silent peer holds a call with a
  timeout for ever.
* `create_connection` closes an attempt after an `OSError` only. What else ends it (a throw, a
  `RuntimeError`) leaves the descriptor to the finalizer and the hub's connection in the map for good
  (`_socket.py:418`; `Left`, which `OwnFile` and `EverythingOwned` except). The pool has one connection
  less, and a later socket with the number is refused and works on the connection that was left.
* A thread whose lookup was given up writes its byte to whatever has the pipe's number by then. If that
  is the pipe of another lookup, that one ends without an answer (`AnswerStored` with
  `thrown = 0` removed).
* `CooperativeSelector.select()` reports for a key that was replaced while it waited what the old file
  did; `select()` of many does not report a hang-up of what is waited on for writing, so that it may
  come back empty without a timeout (`NothingIsTimeout`).

Read and not modelled: `dup()` followed by `settimeout()` makes the shared file blocking for both;
a registration that fails because the pool is exhausted is ignored; `green_poll_multi` ignores polls
that failed; a selector or poll object with nothing registered and no timeout returns at once; the
acceptor stops on any `OSError` (`server.py:193`); `_state.hub_is_running` remembers a hub
(`_state.py:108`).

## 5. Proofs

`HubSlots_proofs`, for any finite set of slots and any greenlets, waits and queue size, assuming
`LoopAssumption`, `SlotsAssumption` and, in each theorem, `NobodySurvives` (`"running" \notin Fates`):
`SlotsInvariant`, and from it `TypeCorrect`, `CountExact`, `SlotsAreConserved`, `QueuedAtMostOnce`,
`NobodyLeftBehind`, and from `WaitInvariant` `NoGreenletIsLost` and `ResultsAreOwn`.

The count is not inductive by itself. When a completion is reaped, what is taken off must be what the
wait still counts for, and that depends on the shape of the wait: a suspended greenlet either holds
one slot without a group, or a set of slots that all point at a group in one of them whose `n` is
their number (`WaitShape`). That a resumed wait has nothing left in the count needs the meaning of
the ready queue: an entry names a greenlet that is scheduled, or blocked with its wait completed, or
dead (`ReadyMeans`), each once (`ReadyOnce`); it is here that a survivor of a throw breaks the
induction. `QueuedWhenDue`, the converse, gives `NobodyLeftBehind`: the loop ends with an empty
queue and an exact count of zero, so nobody is due and nobody is waiting. `FreeReset` says that
what is acquired is clean. The proof has one lemma per action; those that begin and end waits share
lemmas on cardinalities (`AddPart`, `RemovePart`) and on the queue (`AppendOccurs`, `TailOccurs`).

Whose completion it is needs a second strengthening on top, `WaitInv`. A generation is never above the
number of waits begun (`GensBound`), so that with fewer waits than generations (`MaxWaits < GenMod`, in
`SlotsAssumption`; after 2^32 waits the code itself could take an old completion for a new one) none
comes round again. Hence an entry never names a generation its slot has yet to reach, one that names a
free slot is already stale, and one that still names its slot belongs to the wait that holds it
(`EntriesOwn`); an armed slot has such an entry, one a submission does not drop (`ArmedUnderway`);
results are the wait's own (`ResultsOwn`), and who has completed has one (`CompletedHasResult`).
`NoGreenletIsLost` then follows with `QueuedWhenDue`: who is not queued has an armed slot, and by the
shape of the wait all of them are. A call that fails is the delicate step: the entries it queued stay,
and are stale only because its slots are released before anybody can take them.

`Supervisor_proofs`, for any number of workers, pids and deaths and any crash limit:
`SupervisorInvariant`, and from it `SupervisorTypes`, `SignalsOwnChildren`, `EveryWorkerAccounted`,
`LeavesNoOrphans`. The strengthening says which processes exist: every one is in `children`, or is
the child just forked (`Tracked`, `NewChild`); a worker about to be replaced has no process left
(`Replacing`); one that used up its crashes has none either (`CrashesLeft`).

It also has `ImplementsWorkforceAlways`: `Spec => ImplementsWorkforce`. As each worker has one process
at most, what happens to one process happens to its worker and to no other (`CrewShows`,
`CrewChanges`); then there is a lemma for each kind of step: a fork is `Starts`, a death or a SIGTERM `Falls`,
a reap `IsBuried` or `IsStopped`, and those that move only the parent `Opens`, `Closes`, `Ends`, `IsLost`
or nothing. It needs of the parent, beside `SupervisorInv`, that no stop is asked for before the handlers
are installed (`Unasked`).

`HttpRead_proofs`, for any connections, clients and buffers, any limits, any size classes of which
one is the largest and one the inline buffer's, and any scripts (`HttpAssumption`): `Invariant`, and
from it every safety invariant of the run: `TypeCorrect`, `Bytes`, `Requests`, `Ownership`,
`Bounded`, `Order`, `Justified`. The invariant `IInv` has a part for sessions and one for memory.
`Sessions` says of each connection what its buffer, its request object and its room are at each
point (`ConnOK`), of each client what was taken and answered (`ClientOK`), and that no client is
served twice. Three facts are there only for the induction. What a client's taken requests end at
(`EndOf`) is exactly what was consumed: so the next parse starts at the next request, and not at
leftover bytes of a body. While a receive is under way what is unconsumed is not yet a request: so a
connection that ends then has really ended early, and its 400 is just. And under `LimitsFit` a buffer
that is not inline is no larger than the class of both limits and one receive, and a receive under
way has the room it asked for: so 0 bytes mean the end of the stream. `Memory` is `BuffersOwned`; as
a growth takes the new buffer before it gives the old one back, its steps are argued with the
buffers "in hand" (`OwnedBut`). A step of one connection leaves the others as they are (`StepOfOne`);
then there is a lemma for each operation of the buffer (`CompactKeeps`, `ResetKeeps`,
`ConsumeKeeps`, `CommitKeeps`, `GrowKeeps`, `ReserveKeeps`), for each verdict of the parser
(`RefuseKeeps`, `DeliverKeeps`, `StartRecvKeeps`) and for each action.

`HttpRead_proofs` also has `Implements`: `Spec => ImplementsExchange`. Every action changes what one
client sees in one of the ways of `Exchange`, or nothing (one lemma for each way, one for each
action); that a request given to the handler is fit, and that the answer to the last one was sent
before the next is taken, is taken from `IInv` before and after the step.

`HubConns_proofs`, for any greenlets, connections, fds and operations, assuming `ConnsAssumption` and
`ServerUse`: nobody uses another's descriptor or throws (`Shared = Fates = {}`), one greenlet accepts
at a time, the sets are finite, and there are at least as many connections as fds, so that the pool is
never exhausted (without that `ClosesOwnFile` is false, section 4). From the lemma `ConnsInvAlways` it
has every property of `conns_served` and `conns_shared`: `ConnsTypeCorrect`, `PoolAlwaysConserved`,
`ConnWaitsAlwaysExact`, `NoGreenletLost`, `AlwaysOwnCompletion`, `BuffersAlwaysLive`,
`AlwaysClosesOwnFile`, `FdMapAlwaysSound`, `AlwaysReleasedOnce`. None of these is inductive alone; the
strengthening `ConnsInv` says who holds what. A descriptor names the file it was given for (`Live`) and
is held once: by one greenlet (`OwnOK`), by the accept that was fetched and not taken (`AcceptOK`), by
a connect under way (`ConnectOK`) or by a close on its way (`CloseSqeOK`). A connection that is not
free belongs to a live descriptor that maps to it, and its state says which single operation it has
outstanding and whose (`ConnOK`). An SQE names a connection that still is what it was when the SQE was
queued, in the same generation (`TransferSqeOK`, `CloseSqeOK`). A greenlet is due when it is suspended
and its operation is no longer outstanding (`Due`), and then, and only then, it is queued (`ReadyOK`).
So a completion finds its waiter, and a close its file. The pool is not exhausted by the pigeonhole
principle: connections that are taken have different fds (`PoolSuffices`). That `CloseBusy` and
`ReapCancelling` never happen in this use of the hub is a consequence (`OwnConnIdle`).

The second half of the module drops `ServerUse`: greenlets use, close and unregister each other's
descriptors, throw into each other's calls, and several may accept. What `conns_shared` checks then
holds in two cases. In a program that does not call `green_connect` (`NeverConnects`), for any throws
and any size of the pool: `SharedFdMapSound` and `SharedReleasedOnce`. The map is its own inductive
invariant there, together with the fact that no free connection is closing or about to (`MapOK`),
because every call and the loop look a connection up afresh, in the map or by its generation.

`green_connect` is the exception: when it fails or is thrown into, it releases the connection it
registered before it waited, without looking again. `ConnectingFdMapSound` and
`ConnectingReleasedOnce` are about programs that use it, with `Fates \subseteq {"dead"}` (a throw
ends the greenlet it reaches) and `NeverRejects` (no `green_accept` finds the pool exhausted). The
argument is that nobody can reach the descriptor of a socket that is being connected. `SharedInv`
says who may still use a descriptor, a greenlet it was given to, the acceptor it is on its way to, or
the one greenlet that connects it (`Held`, `HeldOnce`), and what will close an fd, an SQE or a
connection that waits for its operations to be cancelled (`Pending`, `ClosersOK`); a descriptor that
is held names its file, and nothing is about to close that (`HeldLive`). So an fd is not given out
again while somebody connects it, and its connection stays its own (`SocketsOK`). `QueueOK` adds that
`green_connect` is resumed only when its SQE is complete and that one accepted descriptor at a time
waits for its acceptor. Both hypotheses are needed for the argument: a greenlet that survives a throw
may still be in the ready queue and wakes its next wait too early, and the number of a descriptor
that was rejected is closed again by its caller (section 6).

`CoopTransfer_proofs`, for any greenlets, sizes and buffers: `TransferInvariant` and `ThreadGoesOn`
(`ThreadNeverStalls`). That no system call stops the thread needs to know when the C object is
non-blocking: once the hub has the socket, unless `accept()` made it, whatever `settimeout()` is told
(`NativeOK`); before that, every call of a plain socket is one that the timeout zero lets go straight to
the system, and nothing else runs until it has returned (`DirectOnly`, `OneRuns`); and who stalls is in
a system call of a blocking object (`StallsSomebody`).

On top of it, `ResultsInvariant` and `ResultsHold` (`ResultsTrue`). What the kernel has taken of a call's
bytes is a prefix of them, each byte once, and how long it is limits where the call may be and what it
may return (`BytesOK`, `PlaceOK`): a call that still waits, or that raises a timeout after which it may
be made again, has not sent all, and one that is done has. And a call that has waited for its
descriptor, with nobody else on it, can go on when it wakes: nobody took what it waited for
(`PolledOK`), since one greenlet reads and one writes (`ApartOK`).

`CoopSocket_proofs`, for any greenlets, sockets, lookups and numbers: `SocketInvariant`, and from it
`OwnFileHolds` (`OwnFile`), `EverythingOwnedHolds` (`EverythingOwned`) and `AnswerStoredHolds`
(`AnswerStored`). For any number of throws into lookups and into `connect()`, wherever the model has
one, and any order of finalizers; a throw out of `accept` is not among them (section 6). The invariant
`SocketInv` collects what is held in one set (`Holdings`): by a socket object, a close on its way, the program, nobody
any more, the C object of a dropped socket, or an end of a lookup's pipe. `Books` has two parts.

* `Owned`: each opening is held once; what is open is held, by a close only if its C object has not closed
  the number yet (`Lives`); a connection in the map is that of a holding, or is to be reaped, or was left.
  This is so in every state, also after a second close has struck, since a close can only take something
  out of what is open. `EverythingOwned` follows from it.
* `Named`: what is held is open, and the map has the connection of what is registered. This a strike
  ends: it closes a file that another holding is of. So it is claimed while `struck` is false, and
  `OwnFile` follows.

An action opens a file and holds it (`Opened`), hands a holding on (`HandedOn`) or closes
it (`Closed`), so the books are argued from three lemmas, whatever a number was before. Beside them: a
greenlet has the socket and the lookup of its call to itself (`CallOK`, `Alone`), and a lookup has its
pipe for as long as somebody waits for it; while no lookup was given up and no close has struck
(`Quiet`), a byte in it is from its own thread, after the answer was stored (`JobOK`), from which
`AnswerStored` follows.

`CoopSelect_proofs`, for any greenlets, numbers and files: `SelectInvariant`, and from it
`AlwaysReportsTrue` and `NothingAlwaysExplained`. So what `select_reports` shows of one greenlet that
waits holds of any number of them on one selector. The invariant `SelectInv` ties the three things a
call keeps of a number: only what was asked for is seen (`SeenAsked`); a poll is of the file that was
meant, unless that file was closed before the poll began, and then the number does not name it again
while somebody means it (`PolledMeant`); who was woken has seen something or has timed out
(`WokenFor`). With that a key that is the same when `select()` returns is of an open file (`FilesOK`),
so of the file that was polled. It is assumed that a program closes no file that is
registered (`CloseFile`).

TLC has checked the strengthenings (`SlotsInv`, `WaitInv`, `SupervisorInv`, `IInv`, `ConnsInv`, `TransferInv`,
`ResultsInv`, `SelectInv`) on the same instances, `SocketInv` on that of section 3 without a constraint, and `SharedInv` on that of `conns_shared`.

**Only model-checked**: liveness (`TimedWaitReturns`, `StopEndsLoop`, `ReadReturns`, `ShutdownEnds`,
`DeadWorkerReplaced`), which is outside what TLAPS's backends do here. Every invariant and action property of a
passing run is a theorem; `FdMapSound` and `ReleasedOnce` are not proved (nor is it claimed that they hold) for programs that share
descriptors and call `green_connect` while throws are survived or descriptors rejected.

## 6. What is not modelled

* Allocation failures of the hub itself (`ready.append`, the free lists), `MAX_FDS`, the chunks of
  the arena. In `HttpRead`: a greenlet that closes or is thrown into during a request (see
  `HubConns`), handlers that use the connection themselves, the caching of request attributes.
* `ReceiveBounded` and `AnswersJustified` suppose limits that fit (`LimitsFit`): with `max_body_size` near 16 MB and above a
  receive may be offered no room, and its 0 bytes are taken for the end of the stream (400), which
  nothing in `app.py` excludes. Also seen while modelling: a response whose status or header cannot
  be formatted gets no answer, since `_finalized` is set first (`RespondRaises`); a receive asks for
  more than the inline buffer has, so that no request is read into it; a request at both limits is
  refused when the next one is pipelined right behind it, as the limit is on all that is accumulated.
* When an SQE gets hold of its file, except for closes. Seen while modelling: a greenlet thrown into
  during `green_connect` closes its socket and releases its slot at once. If the throw comes before
  the loop has next submitted, the connect SQE is still queued (`plans/switch-failure.md:40` takes it
  for submitted): it then names an fd that may have been opened again, and an address in a slot that
  the next connect may have overwritten.
* `Hub.init`, `Hub.deinit` and reference counts, except where a dropped reference ends a greenlet.
* `green_poll_multi`'s submit in `HubConns`, which would need both kinds of wait on one ring.
  `Descriptors!Submits` has it where it matters: for closes that are executed while greenlets run.
* In `conns_shared` a descriptor that is rejected for want of a connection and closed again by its
  caller stays out of reach, as the pool has a connection for every fd: the number may be a
  `green_connect`'s by then, and `FdMapSound` and `ReleasedOnce` can break.
  With more SQEs than that run has, the pool may be exhausted all the same, since `PoolConserved` is a
  property of the server's use only: a partial send that goes on through a connection another
  greenlet has closed (`hub.zig:629`), or a throw into the call that waits on one
  (`cleanupConnSwitch`), takes the connection out of the state `closing`, so that the completion of
  the close does not release it; the next socket with its fd takes its place in the map, and the
  connection is lost.
* In the cooperative library: the paths without a hub, which are the standard library's own; urgent
  data; the addresses one `connect()` tries itself, which are one wait; `dup` modes and the file flags
  that duplicates share; names and socket options; a DNS pool with fewer threads than lookups. `monkey/__init__.py` and `_state.py` replace attributes
  and keep flags, without interleavings.
* Of `CoopSocket`: a greenlet that is thrown out of `accept` (what becomes of the operation is
  `HubConns`'; an accepted connection may be lost with it), a `RuntimeError` out of `accept`'s own hub
  call beyond its failing (`AcceptFails`), a greenlet that closes a socket another one waits on, a
  connection pool that is exhausted, and sockets that a program drops without closing them, whose
  connections stay in the hub's map as those of `create_connection`'s attempts do.
* The acceptor's loop and the signal watcher of `_serve_single`.
* Signals to the whole process group, and other children of the process that `waitpid(-1)` reaps.
* In the workers: draining on SIGTERM, which the code does not do (the default action ends them).

## 7. Plan

Done: the hub's loop, slots and connections, the read loop, the supervisor, the cooperative library;
the proofs listed above. What is left, most important first:

1. `Hub`: slots and connections on one ring and one counter, with `green_poll_multi`'s submit. The count
   is the sum of the two.
2. Proofs: the invariants of `Hub`, from those of the two kinds of wait; `SharedInv` for throws that are survived.
3. `Accept`: the acceptor, `_signal_watcher` and the drain of `_serve_single`; `Arena`: chunks and
   direct allocations; `HubTeardown`: the references the hub holds and what `deinit` frees.

## 8. Running it

    tlc -workers 2 -config MCHubSlots_safety.cfg MCHubSlots
    tlapm HubSlots_proofs.tla

`HttpRead_proofs` and `HubConns_proofs` take several minutes the first time.
