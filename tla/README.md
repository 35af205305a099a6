# Specifications of the "Mac OS X Internals" examples

The repository holds the example programs of the book *Mac OS X Internals*, one
directory per listing (`src/<chapter>-<number>/`). Most of them make one call and
print its result. A few are small systems with several processes, threads or
kernel callbacks, and those are what this directory specifies: TLA+ modules
translated from the source, configurations that check them with TLC, and proofs
checked with TLAPS.

Contents: the parts of the system (1), the modules and how they correspond to
the code (2), the runs (3), fairness and deadlock (4), the proofs (5), what is
left out (6), what remains (7).

## 1. The parts of the system

The programs share no code, so interaction happens inside each group. For every
group: its state, its operations, who it interacts with, what is hard, what
makes it correct.

**VnodeWatcher driver and vnodewatch (11-35, 11-36, 11-37).** A kernel extension
with one user client object per connection, a kauth listener that runs on every
thread that touches a vnode, and a data queue shared with the user process.
State: the driver's owner, life of each user client and its queue, kauth's table
of listeners, the global `gListenerInvocations`, the queue and its notification
port; in the program the places of `main()` and of the handler thread.
Operations: `start`, `open`, `close`, `clientClose`, `terminate`, `stop`, the
callback, `registerNotificationPort`; in the program open, handle, join, close.
Hard: callbacks on other threads during tear-down, some of them slower than the
driver expects, `kextunload` at any moment, also inside `open()`, a process that
dies, a failed allocation, a full queue, notifications that are not sent. Correct if
no callback that the driver can know of uses a released queue, no listener outlives
its process, the handler never sleeps beside events it was told of, and both sides end.

**Mach semaphores (9-72).** `main()` and three threads on two semaphores. Hard:
two kinds of report share one count, two of the three ways of signalling have no
memory, and whether a thread was created is not looked at. Correct if the chosen thread passes first, every report is waited for
once and all semaphores are unused when they are destroyed.

**dummyd (5-26).** An echo daemon started on demand by launchd: listening
sockets that outlive the daemon, `kevent`, `accept`, one thread per connection,
`readline()`. Hard: restarts with connections waiting, clients that vanish,
interrupted reads, boundary of the line buffer. Correct if what comes back is
what was sent and every connection is served.

**Descriptor passing (9-42, 9-43, 9-44).** A sender binds a name in the file
system and passes one open file to one receiver. Hard: several senders take over
one name, everybody may be killed, the sender exits with its message in flight.
Correct if a receiver reads the file of the sender it connected to, and only one
receiver per sender.

**SimpleCryptoDisk (10-35, 10-36).** A filter driver that complements what passes
through. Hard: asynchronous completion, overlapping requests, short transfers,
buffers owned by others. Correct if its client cannot tell it from a clear disk
and each allocation is freed once.

**kdebug (6-29).** A tracer that sets up a facility of the kernel which outlives
it. Hard: signals between any two steps, also inside the clean-up, failing
calls, SIGKILL and the state the next run finds. Correct if an exit undoes what
the run did and the trace is the one that was asked for.

**Factorial service (9-19, 9-20, 9-21)** and **shared memory service (8-17, 8-18,
8-19).** A Mach server with a request-reply loop, found through the bootstrap
server; in one the answer is a number, in the other a memory handle of a page
that all clients then read and write without a lock. Hard: clients that die
between request and reply, a server that goes away under waiting clients,
integer overflow, unsynchronised strings. Correct if everybody gets the answer to
his own request, the server keeps serving, and nobody reads beyond the page.

**Darwin notifications (9-57, 9-58, 9-59).** A consumer with three threads, each
registered in another way (descriptor, Mach port, signal), and producers. State:
tokens, registrations, what is under way by each route. Hard: tokens that are
used before they are assigned, a check that is true without a post, cancellation
against registration, calls that fail. Correct if what is printed was posted, what
was posted is noticed, and a cancel message ends the program.

**bootstrap_server (9-15, 9-16).** A program that makes itself a server of
launchd, run by hand and then again by launchd, or undoes that. State: the ports
of every instance, the service and the server that declared it, the shutdown
file. Hard: instances that check in at the same time, kills, launchd's restart.
Correct if one instance serves, and the shutdown file ends the service.

**Interposition at run time (9-23).** A child that suspends itself, a parent that
puts a port right into it and resumes it. Hard: a second of sleep is the only
synchronisation. Correct if the right is there before the child uses its name.

**Distributed objects chat (9-48, 9-49, 9-50).** One server object with two operands,
clients that set them and ask for the sum, call backs nested in the run loop,
clients that give up or do not get through. Correct if the sums printed are right
although the operands are shared.

**POSIX names (9-45, 9-46).** Seven programs on a named semaphore and named memory.
Hard: names are unlinked and made again under processes that have them open.

**Exception handler (9-38).** A victim thread and the thread that repairs it. Hard:
the reply lets the victim run, so what it runs must be right by then.

**Compare-and-store (3-28) and function rerouting (3-31).** A lock-free store by
reservation; a branch written over the first instruction of a function, with a
stub that runs that instruction and goes on. Hard: interleavings of reservations;
the reach of a branch and errors half way.

**Readers of what changes meanwhile.** lstasks (7-21) walks a snapshot of tasks
that end; fslogger (11-25) follows lengths through a buffer of events; lsmdquery
(11-28) prints results that Spotlight updates, of files that may be gone; kq_fwatch and kq_vfswatch (9-61,
12-33) print events that go on coming. Correct if what is reported was there, once
each, and what was allocated is released.

**vmachmon32 (6-51), srmap (8-24), cooperative threads (7-37), vm_inherit (8-14).** A
monitor that runs machine code it has written into a guest; a table of mappings
built from load commands; a chain of threads that yield to each other; a page
shared and a page copied by a fork.

The remaining groups, each with the reason for which it is not modelled, are the
components of `PROJECT.json` with status `not_modelled`; section 6 summarises them.
The hazards listed there name, line by line, what could go wrong in this code
without a test noticing; every property below answers to one of them.

## 2. The modules

| module | source | composes |
|---|---|---|
| `VnodeWatcher` | 11-35, 11-36 | - |
| `VnodeWatch` | 11-37 | extends `VnodeWatcher` |
| `MCVnodeWatch` | symmetry for TLC | extends `VnodeWatch` |
| `VnodeWatcherProofs` | theorems | extends `VnodeWatch` |
| `MachSemaphore`, `MachSemaphoreProofs` | 9-72 | - |
| `Dummyd`, `MCDummyd`, `DummydProofs` | 5-26 | - |
| `FdPassing`, `FdPassingProofs` | 9-42, 9-43, 9-44 | - |
| `PlainDisk` | abstract specification | - |
| `SimpleCryptoDisk`, `SimpleCryptoDiskProofs` | 10-35, 10-36 | implements `PlainDisk` |
| `Kdebug` | 6-29 | - |
| `MachServer` | skeleton of 9-20, 9-21 | - |
| `FactorialIPC` | 9-19, 9-20, 9-21 | extends `MachServer` |
| `MachServerProofs` | theorems | extends `FactorialIPC` |
| `ShmIPC` | 8-17, 8-18, 8-19 | instantiates `MachServer` |
| `Notify` | 9-57, 9-58, 9-59 | - |
| `MCExchanges` | - | extends `Bootstrap`; instances of `Kdebug`, `ShmIPC`, `Notify` |
| `ExchangesProofs` | theorems | extends `MCExchanges`, instantiates `MachServerProofs` |
| `ListTasks` | 7-21 | - |
| `Vmachmon` | 6-51 | - |
| `ExceptionHandler` | 9-38 | - |
| `AtomicStore` | abstract specification | - |
| `CompareAndStore` | 3-28 | implements `AtomicStore` |
| `Frr` | 3-31 | - |
| `FsLogger` | 11-25 | - |
| `Srmap` | 8-24 | - |
| `LsMdQuery` | 11-28 | - |
| `Bootstrap` | 9-16 | - |
| `Interpose` | 9-23 | - |
| `DoChat` | 9-48, 9-49, 9-50 | - |
| `PosixNames` | 9-45, 9-46 | - |
| `FileWatch` | 9-61, 12-33 | - |
| `CarbonThreads` | 7-37 | - |
| `VmInherit` | 8-14 | - |
| `MCPrograms` | - | extends `CompareAndStore`; instances of the other programs from `ListTasks` on, but `Bootstrap` |
| `ProgramsProofs` | theorems | extends `MCPrograms` |

Library and kernel services that are not in the repository (kauth, IODataQueue,
Mach ports and semaphores, sockets, launchd, the block storage provider, the
kdebug facility) are modelled by what the code relies on, and marked external
in the map.

**VnodeWatcher.** One action per driver operation, split where another thread can
come in between: `open()` is `OpenProvider` then `StartLogging`; `terminate()` and
`clientClose()` are `TerminateBegin`, `StopListening`, any number of `SleepAgain`,
`TerminateEnd`, for each of two callers that can run at once (`tpc`); `stop()` is `Stop`
(the message), then `Release`. The test, unregistration and assignment at the top of
`stopLogging()` are one step. The callback is `Dispatch` (kauth has chosen it),
`Enter` (the increment), `Report`, `Leave`. Nothing that the code does not prevent is
excluded: a dispatched callback may be slower than the one-second sleep in
`stopLogging()`, a `kextunload` may come inside `open()`, a client may call the exported
`close()`, which leaves the listener registered, and allocations fail, after which a
callback dereferences a null queue (`panicked`, the end of everything). What the driver
cannot see is recorded, and no guard reads the record: `late` holds the threads that had
been sent to a callback and had not counted themselves when a `stopLogging()` stopped
waiting, `loose` the listeners it cannot find, since they were registered too late, in an
`open()` that the termination had overtaken, or their handle was overwritten. The
safety properties say that everything else is covered. An event is a process id; an
entry keeps only the first byte, which is what the client looks at.

**VnodeWatch** adds `main` and `handler`, the places of the program's two threads,
and binds every driver call to the program's step that makes it; `sawStop` is what
the handler took for the stop message, an event or the message. Any process may
be killed (`MayDie`); the kernel then closes its connection.

**MachSemaphore.** `main` goes through the phases of `main()`; `left` is the loop
counter of `SEMAPHORE_WAIT`. A `pthread_create()` may fail, which nobody notices
(`failed`). `semaphore_signal_thread` and `semaphore_signal_all` wake waiters or nobody.
`Lost` marks the states in which a signal has come before its thread's wait.

**Dummyd.** `main()` is `CheckIn`, `Kevent`, `Accept`, `CreateThread`; a connection
thread is one action per round of `readline()` and `Write`. Bytes are a newline or
another character; `NUL` and `STALE` are what the buffer holds behind them. The
512-byte buffer is `MaxLen`; `MaxSend` and `MaxFailures` bound what clients send and
how many calls fail or are interrupted.

**FdPassing.** One action per system call of the sender and the receiver. A file is
identified by the sender that opened it.

**SimpleCryptoDisk** runs requests concurrently; the provider moves a block at a
time and may stop early (`Transfer`, then `SCDReadWriteCompletion`). **PlainDisk**
is what a client expects of any disk. The refinement mapping (`clearDisk`,
`clearData`, `clearBuffer`) complements the medium, the copied memory and the part
of a read buffer that has been transferred but not yet decoded.

**Kdebug.** A `ukdbg_` function is three steps, `Fill` (the global `mib`), `Sysctl`,
and its own treatment of the result; a signal may come before each of them. No
handler returns, so only the innermost call is kept. The facility (`enabled`,
`buffers`, `valcheck`, `pidcheck`, `flagged`) survives the program; `Start` runs it
again.

**MachServer** is the skeleton of the chapter's servers, parameterised by the data
of a request and the function that answers it. The server ends when it cannot receive
or reply. **FactorialIPC** supplies the factorial with the width of an `int`; a product
that does not fit keeps its low 32 bits, as the multiplication of the build does. **ShmIPC**
supplies a handle and adds the page: every character read or written is a step, and so
is the statement that ends a page-long string (`Terminate`). A reader that finds no end
reads on behind the page, and comes to an end there or is killed (`PrintBeyond`).

**Notify.** `at` holds the place of `main()` (which becomes the signal thread) and of
the two others. A registration is two steps, `Register` (notifyd knows it) and
`Assign` (the token is stored); posts may come between. `sighandler_USR1` may run
before any step, and `CancelAll` is one step per token. `fresh` and `checked` are
what notifyd remembers for `notify_check()`, by the comment in line 114.

**ListTasks.** One action per query of the walk (`VisitTask`, `GetProcess`, `CopyName`,
`TaskInfo`, `TaskThreads`, `ThreadInfo`); tasks and threads end between any two.

**Vmachmon** keeps the two programs as the program builds them, word by word, and
an operator for each of the few instructions they consist of. `RunGuest` is one
step of the processor; `Faults` ends the guest's time slice. `SizesAssumption` says what the
program takes for granted: the page has room for the red zone and a frame of 96 bytes
per call, the red zone for what a callee writes into its caller's frame, and the
factorial fits a register (it asks for 10).

**ExceptionHandler.** The kernel's part is in `CallBadFunction` (the exception is
raised, the message sent) and `Resume`. `repair_instruction` is its own step within
`catch_exception_raise`, before the reply.

**CompareAndStore** has one action per instruction that matters. **AtomicStore** is the
sentence of the header comment. The refinement mapping decides a call where it
loads another value than expected, or stores.

**Frr.** Addresses are numbers near the limits of a branch; `FillStub` and `Store` are
the two writes, `Error` the path that frees. **FsLogger** has the driver copy
events out item by item (`CopyEvent`, `CopyArgument`), each item with its offset, and then
steps through both loops. The name of an event of type -1 and the data of a raw argument
are used as they are: that prints something or ends the program (`BadAccess`). **Srmap**
takes libraries as sequences of load commands, of segments that may overlap or be longer
in the file than in memory; entries behind the end of the table ruin the program or do
not (`overrun`). **LsMdQuery** lets Spotlight change its results whenever updates are
enabled, and files go at any time (`Vanish`): the attributes of such a result are used
although there are none, and the program crashes.

**Bootstrap.** One action per call of launchd; `Relaunch` is launchd's restart,
`Start` resets the static ports. **Interpose** has the parent's calls one by one, and
`late` for a child that needs more than the parent's second. **DoChat** keeps one
request and one answer per client and the stack of call backs (`calls`); each client
has its own arguments, and one that has no proxy prints a sum that was never set.
**PosixNames** separates what a name stands for from what a process has open.

**FileWatch** collects events in one knote; **CarbonThreads** has one thread in control
and lets the last one yield to what may lie behind the array (`Behind`);
**VmInherit** numbers VM objects and copies on the first write.

**MCPrograms, MCExchanges.** These small programs share nothing, so one module
brings all of them together and `program` chooses, at the start, the one that runs;
the others keep their initial states. The state space is the sum of theirs, not
the product, and each property is checked over the behaviours of its own program.
Fairness is stated under the same condition.

## 3. The runs

Bounds are the smallest at which the interesting case happens, plus one actor
where the state space allows it. A run checks safety and, where its specification
is fair, liveness together. The type invariant of each module, or the inductive
invariant that contains it, is part of the module's main invariant, except that the
ones of the factorial service (`Matching`, `Single`, `InFlight`) are proved only: its run
checks what follows from them.

| run | what it shows | bounds, and why they are enough |
|---|---|---|
| `vnodewatch_shared` | `NoUseAfterFree`, `CloseReturns` (with the counter shared: a close returns unless callbacks for another process go on for ever) | 2 processes that may die, one thread, queue of 1: one closes while callbacks run for the other, a second listener is made before the first is gone |
| `vnodewatch_unload` | `NoUseAfterFree`, `NoListenerAfterStop`, `NoListenerAfterExit`, `NoMissedWakeup`, `StopComesLast`, `UnloadEndsWatch` | 1 process that may die, a `kextunload` at any step (so both callers of the tear-down, in the middle of `open()` too), 2 threads at different places of a callback, at any speed; a little-endian machine with pids 1 and 255 (the byte of the stop message); queue of 2: entries arrive in an empty, a used and a full queue. Two processes with two threads and an unload are more than 10 million states; what they would add, a close beside the callbacks of another process, is the run above, and the five invariants are proved for any number (section 5) |
| `semaphore` | `OthersAfterLast`, `ExitsUnlessLost` | 4 threads, one more than the program, each created or not |
| `dummyd` | `EchoUpToNul`, `ConnectionsKept` (none is closed under a client that stays, and `accept()` finds the one that was reported), `Served`, `Answered` | 2 listeners; one client sends up to 3 bytes into a line buffer of 3 (empty, short, exactly full, cut off, one byte more), another comes and goes; one failure, signal, interrupt or restart |
| `fd_passing` | `Delivery` (the right file, to one receiver), `ReceiverEnds` | 2 senders for one name, 3 receivers, backlog of 2: a receiver waits behind another at a sender whose name is gone |
| `crypto_disk` | `NoLeak`, `ClearSpec` | 2 requests over the whole of a 2-block medium: every overlap of reads and writes, each stopping after 0, 1 or 2 blocks. Other offsets and sizes: section 5 |
| `factorial` | `OwnAnswer`, `PrintsFactorial` (a factorial up to 12, none from 13 on), `Answered` (no client that stays waits for ever while the server is up) | 3 clients, one queued behind another and one in service; arguments 0 (out of range), 5, 12 (the last whose factorial fits an `int`) and 13 |
| `exchanges` | `CleanRuns` and `CleanupEnds` of kdebug, `OnlyWritten` of the shared page, `Accounted` and `Noticed` of the notifications, `OneServer` of bootstrap_server | kdebug: 2 runs, 2 processes, 2 signals (a second signal interrupts the handler of the first, a second run meets the leftovers of the first); page: 2 clients, 3 bytes, one string shorter than the page and one that fills it; notifications: 2 posts or stray signals and 1 failing call, in every order against the registrations and a cancel; bootstrap_server: 2 instances by hand, 3 launches, launchd's own, 2 failures, kills or changes of the file |
| `programs` | the properties of fourteen programs, below | below |

What `programs` checks, on which instance:

| property | program | instance |
|---|---|---|
| `Reports` | lstasks, fslogger, lsmdquery, kq_fwatch | 4 tasks, up to 2 threads each; 2 buffers of up to 2 events, of a valid type or -1, with 1 to 3 arguments of several lengths, raw ones with and without data; 2 files, each of which may vanish at any step, 3 updates, 2 options, valid or not; 3 kinds of event, one of them the last |
| `GuestComputes` | vmachmon32 | pages and red zone of the real size, the argument of the program (10), every failing call |
| `RepairedBeforeReply`, `VictimGoesOn` | exception | the expected exception and another |
| `Reroutes` | frr | originals below, at and beyond 32 MB and the 128 MB the code tests, targets on both sides |
| `MapsTheLibrary` | srmap | libraries with up to 3 segments, in either order, fully, partly and not at all backed by the file, longer there than in memory, overlapping, and with one entry more than the table of 3 has room for |
| `ReservationHolds`, `AtomicStoreSpec` | compare-and-store | 2 threads, 2 values: calls that agree and calls that differ |
| `RightBeforeUse` | interpose | the one parent and child |
| `SharedSum` | do_server, do_client | 3 clients, one of which sends other operands than the two others: two calls back nested in a third, sums of one's own operands and of mixed ones |
| `HandlesOutliveNames` | POSIX names | 4 processes, each any of the seven programs: two generations of a name with a user of each |
| `OneAfterTheOther` | CarbonThreadManager | 4 threads instead of 8; behind the array no thread, or `mainThread` |
| `OwnCopies` | vm_inherit | the two pages |

Three runs expect a violation: the code does not do what its comments say
(`PROJECT.json`, findings).

* `vnodewatch_two`: "only one user client allowed" (11-36, line 151), but
  `clientClose()` gives up the provider before it unregisters its listener; in
  between a second client opens and listens.
* `semaphore_late`: "wait until all three threads are ready" (9-72, line 57), but a
  thread reports before it waits; a signal in between is lost and `main()` waits for
  ever. `ExitsUnlessLost` shows that, its threads being created, nothing else keeps it
  from its end.
* `bootstrap_shutdown`: "we are destroying the service" (9-16, line 96), but the instance
  that finds the shutdown file sends its `bootstrap_register()` to `server_priv_port`,
  which only the other branch sets; the service stays (`ServiceStays`, section 5), and
  launchd starts the program again and again.

Further divergences were met while modelling. No run is kept for them; each is
reproduced by the change of constants or the formula given.

| where | what happens | how to see it |
|---|---|---|
| 11-36, line 215 | a callback that was dispatched, but is slower than one `msleep`, uses the released queue | `NoUseAfterFree` without `late` |
| 11-36, line 153 | a `kextunload` inside `open()` leaves a listener registered for a released queue, until the process ends | `NoListenerAfterStop` without `loose` |
| 11-36, line 111 | `start()` returns error codes as `bool`; the client is attached, the callback is given no queue and dereferences it | `~panicked` |
| 11-36, line 222 | the counter is shared: closing one client waits for callbacks of others, possibly for ever | `CloseReturns` without `<>[]OthersQuiet(c)` |
| 11-37, line 134 | on a little-endian machine an event of process 255 is taken for the stop message | `sawStop[c] # "event"` |
| 9-72, line 45 | a `pthread_create()` that fails leaves `main()` at its first waits for ever | `<>(main = "exit") \/ <>Lost` |
| 5-26, line 53 | a line that fills the buffer or ends with the stream is echoed with a zero byte added | `IsPrefix(got[c], sent[c])` |
| 6-29, line 257 | the process flag a killed run has left is never cleared: two processes are traced | `call = "read" /\ pid # NoPid => flagged = {pid}` |
| 9-20, line 68 | a client that dies between request and reply ends the server, and so does a failed receive | `server \in {"receive", "reply"}` is not stable |
| 9-21, line 39 | 13 to 20 pass the client's check and overflow `int`; a wrong number is printed | `client[c] = "done" => asked[c] <= 12` |
| 9-59, line 116 | a signal between the registration and the dummy check is taken for a notification although nothing was posted, and a post there may be swallowed | `received["signal"] <= due["signal"]` |
| 3-31, line 101 | a word number is compared with a limit on addresses: originals from 32 to 128 MB pass, and their stub branches to nowhere | `path` in `Reroutes` |
| 3-31, line 132 | the error path frees what it returns; `main()` goes on with the pointer | `main = "undefined"` |
| 8-24, line 79 | the header is refused only if all tests fail (`&&`) | `CheckHeader` |
| 8-24, line 101 | the table has no check of its end | `doing # "overrun"` |
| 9-16, line 74 | `mach_port_destroy()` of an uninitialised `service_rcv_port` when checking in fails | `CheckIn`, then `DestroyRight` with `kr = "error"` |
| 9-23, line 56 | after a failed `task_for_pid()` an uninitialised task is resumed, and the child stays suspended | `child_task` in `RightBeforeUse` |
| 9-45, sem_wait.c | "successful" is printed of an interrupted wait, too | `Interrupted` |
| 9-46 | `mmap()` is compared with `NULL`, so a failure is not noticed, and a string is read from memory that has no size yet | `at[p] = "crashed"` |
| 7-37, line 20 | the last thread's test for the end never holds: what it yields to lies behind the array, and NOTREACHED may be reached | `whoa = {}` |
| 9-61, line 71 | a deletion between `open()` and the registration goes unnoticed, and the program never ends | no `Happens` before `Registered` |
| 11-25, line 186 | an event of type -1 has its name looked up before the first one; at line 230 the data of a raw argument is dereferenced | `logger # "crashed"` |
| 11-28, line 50 | the attributes of a file that has gone are used and released although there are none | `running = "crashed"` with `"pList" \notin owned` |
| 9-50, line 66 | a client whose connection failed prints a sum it never got | `doStep[c] = "release" => proxy[c]` |
| 11-28, line 117 | the property list is retained before it is tested; the query of an option given twice is never released | `running = "crashed"`, `strings` |
| 8-18, line 86 | a string as long as the page leaves it unterminated for a moment, or for good if its writer is killed there, and a reader runs on | `memory[Size] = NUL` |

## 4. Fairness and deadlock

Runs with liveness properties assume weak fairness of

* the threads of a running process (`MainStep`, `HandlerStep`, `ThreadStep`,
  `ServerStep`, `Step`, ...), which the kernel's preemptive scheduler gives;
* the victim, whom the kernel resumes, and its handler thread (`ExceptionHandler`), the
  runs of kdebug and the threads of the notification consumer, in the behaviours of
  their own program;
* the kernel's own continuation of what it has begun: tear-down of a user client
  whose provider is inactive, a callback that has been dispatched, launchd's start
  of a daemon whose socket is readable, and of a server nobody holds the port of.
  `stopLogging()` looks at the counter once a second, and TLC's steps have no length:
  weak fairness of `TerminateEnd` makes it go on if the counter stays 0, not if it
  is 0 now and then, so the two properties about it assume that the callbacks for
  other processes come to an end (`OthersQuiet`).

Never assumed: that a user starts a program, that a file is touched, that a
client sends, that an unload happens, that a failing call succeeds when repeated.
No strong fairness is used anywhere. A process that may be killed is fair only
while it lives, since the actions are disabled afterwards.

`CHECK_DEADLOCK FALSE` stands where the system may really stop: servers that wait
for a request that never comes (`factorial`, `exchanges`, `dummyd`, `bootstrap_shutdown`), programs that
have all ended (`fd_passing`, `programs`), and the semaphore program, which can get stuck - the
subject of `semaphore_late`. Everywhere else deadlock is checked, with an explicit
final step for programs that have exited.

## 5. The proofs

All proofs are checked by TLAPS to the last leaf, for every value of the
constants that satisfies the named assumptions. Of the twenty-seven invariants
that the runs check, all are theorems, and so are the two refinements
(`AtomicStoreSpec`, `ClearSpec`). Each rests on an inductive invariant, named below, that
TLC had found to hold before it was proved.

**VnodeWatcherProofs.** `Invariance`: `Spec => []IInv`, with `IInv` the types, the
counter and `CookieInv`, without any condition on clients, unloading or timing. The
properties are not inductive: that no callback the driver can know of reaches a released
queue depends on the user client holding every listener that is not `loose`
(`ListenerTracked`), on a `stopLogging()` having unregistered it by the time it sleeps
(`Unlistened`), on the callbacks of a user client being over when it becomes inactive, but
for those in `late` or of a loose listener (`InactiveIsQuiet`), on a `terminate()` that has
ended lying behind every inactive one (`TerminatedByOne`: an `open()` that goes on after it
registers too late), and on only `stop()` releasing a queue (`QueueOfStopped`). From it: `CounterIsExact`, `TypeCorrect`,
`QueueOutlivesCallbacks`, `ListenerGoneAfterStop`. Needed of the constants: `Threads`
finite (the counter is a cardinality), `Capacity` and `MaxListens` positive, `Pids`
numbers.

The program comes on top. `WInv` says where its two threads can be relative to each
other (`Places`) and that every entry in the queue has been announced, or had come
before the port (`Announced`); `NoWakeupIsMissed` is a part of it. `PInv` adds that the
driver's stop message is the last entry unless a callback has escaped the wait
(`StopOrder`), and that `fListener` is the only listener of its process, gone for good
after the process's own close (`ListenerKept`): `StopIsRead`, `NoListenerIsLeft`. Both
hold on either kind of machine. The lemma `ProgramUsesDriver`, that each step of the
program is one of the driver or none, carries the driver's theorems over.

**MachSemaphoreProofs.** `Invariance` from `ReportsMatch` and `Phases` (what each
place of `main()` says about the threads). The step that counts is arithmetic:
`main()` in its last phase has taken 2N reports only if all threads are done.
From it: `LastGoesFirst`, `DestroyedWhenUnused`, `Balance`, for any finite number of
threads; and `NoThreadMissing`: past its first waits `main()` has every thread it wanted,
so a `pthread_create()` that fails shows in `main()` going no further.

**DummydProofs.** `EchoInv` has three parts. `Reported`: when `main()` is to call
`accept()`, whoever kevent reported waits still or has taken the connection back.
`Line`: where `start`, `pos` and `n` can be in `readline()`, which is why a line stays
in its buffer. `ReadSoFar` and `EchoedSoFar`: a client has been echoed as many bytes
as lines before this one took from it, plus the closing zeros among them, and each
zero ends a full line or is the last byte of all. The number of closing zeros is a
cardinality, since a bound on the bytes is not assumed; `EchoUpToNul` is stated in
the same way (byte `i` that is no zero is the byte sent at `i` less the zeros before
it), so that no filter of a sequence has to be reasoned about. `NothingIsLost` and
`EchoesWhatWasSent` hold for any clients, buffer size, number of bytes and of failures.

**FdPassingProofs.** `IInv` says whose messages exist: one in a receiver's inbox
comes from the sender it is connected to, which has accepted it and sent.
`DescriptorsAreDelivered` follows for any numbers of senders and receivers.

**SimpleCryptoDiskProofs.** `TypeCorrect`; `NothingLeaks`; `ImplementsClearDisk`:
`Spec => Clear!Spec`, one lemma per action, which shows the action of `PlainDisk`
it maps to. The rest on `Complement` being its own inverse on words.

**MachServerProofs.** `IInv` has the data of every message match what its client
asked (`Matching`), at most one message per client (`Single`) and no request lost
(`InFlight`). `ClientsGetTheirAnswer` and `RequestsAreKept` hold for any clients,
any queue limit and any answering function, hence for both services.
`AnswersAreFactorials` goes on to what the factorial service prints. The property
defines the factorial a second time, as the number of orders of a set, so the two
have to agree: `Orders(n)` is n times `Orders(n - 1)`, by a bijection that swaps the last
element with the chosen one. The run counts the orders of six things at most, the
theorem those of twenty, the largest number that both programs let pass, so no
induction is needed, and each recursion is solved by the finite function that satisfies
it. Whatever integers users give, the number printed is right if and only if it was
asked of at most 12: from 13 on, what 32 bits hold of the product is never the
factorial (section 3).

**ExchangesProofs** is about the four programs of `MCExchanges`.

* `TracerCleansUp` (kdebug). `TracerInv` follows the program call by call: the global
  `mib` belongs to the function that calls `sysctl()` even if a signal came between
  (`RequestFits`), each call finds what the earlier ones set up (`SetUp`), a run whose
  first clearing was refused has changed nothing (`Untouched`), and what cleaning has
  left is exactly what its failing calls (`lapses`) did not undo (`CleanedUp`).
* `PageServerIsMachServer` shows every step of the page's programs to be one of
  `MachServer` or none, so the theorems above hold of them as well.
  `OnlyWrittenIsPrinted` adds `Printing`, `PageWritten` and `PageEnd`, for texts of any
  length: the last character of the page is `NUL` but while a client is between the two
  statements that write a page-long text, or was killed there, and a reader gets behind
  the page only then.
* `EveryPostAccounted`. `Sums` balances what was posted with what was received, is
  under way, or was lost by a failing receive; `FirstCheck` allows the one
  `notify_check()` that is true with nothing posted to be taken for a notification
  only by a signal before `main()`'s own dummy check (`early`).
* `OneInTheLoop`, `ServiceStays` (bootstrap_server). `IInv` says which ports an instance
  can hold: one started by hand that of the server it has created in this run
  (`Creators`), launchd's the port of the declared service, and only while nobody
  else has it (`Successor`). No instance may have the name of a special port.
* `ExchangesKeepTheirPromises` puts them together: by the lemma `Apart` every step of
  `MCExchanges` is a step or a stutter of each of its programs, so `MCSpec` itself, as
  TLC checks it, has all four invariants. The hypotheses are the assumptions of the
  parts (`MCExchanges!Assumptions`) and `MachConstants` (`NoOne` is no
  client, the queue has room for a message).

**ProgramsProofs** is about the fourteen programs of `MCPrograms`, and has
the same structure; `ProgramsKeepTheirPromises` is the composition.

| theorem | the inductive invariant, and what it needs |
|---|---|
| `ReservationsProtect`, `StoresAtomically` | `ReservationHolds` is inductive; on it rests the refinement of `AtomicStore`, since a thread that still has its reservation stores over the value it compared |
| `SumsAreRight` | each client's step agrees with its request on the wire (`Matching`), with the operands (`Operands`: they are ones that clients have sent), and with the stack of call backs, which holds no client twice (`CalledBack`). If all clients send the same two, as those of do_client do, each prints its own sum. A client without a proxy prints what nobody has set, about which nothing is said |
| `ThreadsTakeTurns` | who has had control: none (`Started`), a prefix of the array (`InTurn`), all of it (`Through`) |
| `RepairComesFirst` | the joint places of victim, kernel and handler in the order the code has (`Before`, `Calls`, `Waits`, `Goes`, `Failed`) |
| `RightComesFirst` | the suspend count by the places of parent and child |
| `ChildWritesItsOwn` | which of the two processes' objects are the same, before, during and after the child's life (`Alone`, `Together`, `Over`) |
| `CallsReachTheOriginal` | what is patched and allocated at each place. The branch arithmetic is a lemma (`BranchReaches`); it needs that instructions are aligned words below 2^28 (`AddressesAssumption`) |
| `NamesComeAndGo` | the value of a semaphore is its initial one plus posts minus waits (`Accounts`, by the cardinalities of who has done which); what is in a memory is a beginning of one string (`Copies`). Any finite number of processes |
| `RegionIsTheLibrary` | the table is the set of entries of the segments handled so far (`EntriesOf(Handled)`) and as long as their number (`Needed`), whatever the libraries: segments that overlap, are longer in the file than in memory, or are too many. The theorem says what then becomes of the bytes, and that the table overflows only under a library that needs more entries than it has (`LibrariesAssumption` gives types only) |
| `SummaryIsRight` | the numbers of the summary are bounded by the cardinalities of three sets of tasks (`Sums`): those counted, those looked up among the Carbon processes, those whose threads are in. The current task joins them one after the other (`Tasked`, `Sought`, `Threaded`), and a task that ends leaves only the lower bounds. It needs that the list names no task twice, and how many buffers are out at each place (`Walk`). Any finite set of tasks |
| `EventsArePrinted` | the items of a buffer lie one after the other (`Layout`), and each event is a head, its arguments and a mark (`Grammar`) of which the driver has some still to copy (`Remainder`); as many items have been printed as lie before `off`, and the flag is set exactly after a vnode (`Progress`). Only an event of type -1 or a raw argument may end the program (`BadAccess`). It needs that an event has no more than `FSE_MAX_ARGS` arguments, and a vnode its file system next (`ArgumentsAssumption`); any number of events |
| `ChangesAreReported` | kq_fwatch: what has happened since the registration is printed, being printed or still in the knote |
| `ResultsAreListed` | the places of options, query and loop (`ChoosesQuery`, `RunsQuery`), and the results that were counted when updates were disabled (`Gathers`), any of which may be a file that has gone. Any finite set of files |
| `GuestsFinish` | that of a machine program: before instruction `k` of the factorial's call at depth `depth`, what the registers hold (`RegistersAt`), which words of its own frame are written (`FrameAt`), and what the frames of the callers waiting above hold (`Frames`); each instruction leads from one such statement to the next. The words a call uses lie at six offsets that differ modulo 96, the size of a frame (`Apart96`), so a store changes one word of one frame. It needs room in the page for `Argument + 1` frames and the red zone, and that the factorial fits a register (`SizesAssumption`) |

What stays with TLC is liveness under fairness, which the prover does not do:
`UnloadEndsWatch`, `CloseReturns`, `ExitsUnlessLost`, `Served`, `Answered` (of dummyd and of
the factorial service), `ReceiverEnds`, `CleanupEnds`, `Noticed`, `VictimGoesOn`. Induction over data, which the prover
cannot do either, is avoided: the recursions above (`factorial`, `FactorialOf`) run over a
bounded range, as the code's do, and everything else is stated without recursion.

## 6. What is not modelled

* Inside the modelled programs: texts that are printed, argument parsing beyond
  what changes control, port rights of Mach messages beyond the death of a
  receiver, `IOMalloc` results in SimpleCryptoDisk (the code never checks them).
* One-shot queries and printers (most of chapters 6, 7, 8, 10, 11 and 12): one
  call whose result is formatted.
* Toolchain and processor demonstrations (chapters 2 and 3), drawing in Open
  Firmware (chapter 4): no state, or hardware without a model.
* Wrappers of frameworks (Cocoa, Java, Core Foundation): the behaviour is the
  library's. Straight-line demonstrations of `fork`, asynchronous input, `malloc`
  hooks, remote memory and sysctl registration: what they show is the kernel's or
  the library's doing, and no state of theirs can go wrong in between.
* Generated code (the stubs of the MIG server and client, 9-26 to 9-29, are absent),
  and `9-22`, `9-24`, `9-25`, outlines with elided parts.
* Of the modelled programs: in lstasks, fslogger, lsmdquery and vmachmon32 what is
  formatted; in frr what comes of a freed pointer; in CarbonThreadManager a thread
  that could not be made ready; in vm_inherit the reference counts.

## 7. What remains

Every program listed in section 2 is modelled, and every invariant the runs check is
proved. Some programs that keep a little state are left out on purpose, for the reasons
given in section 6 and in `PROJECT.json`: the Towers of Hanoi in Open Firmware,
`DummySysctl`, `malloc_log`, the asynchronous reader, the Java, Cocoa and Carbon wrappers of
threads, the MIG service whose stubs are absent, and the outlines; and of SimpleCryptoDisk
the creation of the filtered media object, `synchronizeCache()` and a failing `IOMalloc`. The
next to model would be the asynchronous reader and `malloc_log`, with the library's part
as the environment.

What is open otherwise is in the code, not in the proofs: the three findings and the
table of section 3. Where the code does not keep a promise, the theorem says in which
case: `QueueOutlivesCallbacks` and `ListenerGoneAfterStop` except `late` callbacks and
`loose` listeners, `AnswersAreFactorials` the arguments from 13 on, `OnlyWrittenIsPrinted` a
text as long as the page.
