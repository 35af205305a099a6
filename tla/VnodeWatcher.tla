---------------------------- MODULE VnodeWatcher ----------------------------
(***************************************************************************)
(* The VnodeWatcher kernel extension (11-35/VnodeWatcher.h,                *)
(* 11-36/VnodeWatcher.cpp): an I/O Kit driver, one user client object per  *)
(* connection, and a kauth listener that every thread touching a vnode     *)
(* runs.  The listener copies the event into the IODataQueue of the user   *)
(* client it was registered for.  kauth, IODataQueue and the termination   *)
(* order of I/O Kit are external: they are modelled from their use here.   *)
(*                                                                         *)
(* A callback may need longer than stopLogging's one-second sleep to reach  *)
(* the OSIncrementAtomic at its top, a kextunload may terminate a user      *)
(* client in the middle of its open(), clients may call the exported        *)
(* close(), and allocations may fail: nothing of this is excluded.  Two     *)
(* history variables, late and loose, record what escaped stopLogging().    *)
(***************************************************************************)
EXTENDS Integers, Sequences, FiniteSets

CONSTANTS
    Clients,     \* the user clients, one per connection to the driver
    Threads,     \* the threads whose vnode operations kauth authorizes
    Pids,        \* the process ids of the reported events
    Capacity,    \* kt_kMaximumEventsToHold
    MaxListens,  \* bound: kauth registrations per user client
    BigEndian,   \* byte order of the machine
    NoOne        \* the driver is not open

ASSUME ThreadsAssumption == IsFiniteSet(Threads)
ASSUME BoundsAssumption ==
    /\ Capacity \in Nat \ {0}
    /\ MaxListens \in Nat \ {0}
    /\ Pids \subseteq Nat
ASSUME MachineAssumption == BigEndian \in BOOLEAN /\ NoOne \notin Clients

VARIABLES
    unloading,    \* the provider is inactive: a kextunload has begun
    owner,        \* the client the provider is open for
    uc,           \* state of each user client object
    opening,      \* open() has opened the provider, not yet registered
    fDataQueue,   \* the IODataQueue object: never made, usable, released
    fListener,    \* registration number held by the user client, 0 = NULL
    listens,      \* how many registrations the user client has made
    registered,   \* kauth's listeners, each <<client, registration>>
    tpc,          \* progress of terminate(), for each of its two callers
    pc,           \* each thread's place in my_vnode_authorize_callback
    lis,          \* the listener whose callback the thread runs
    gListenerInvocations,
    queue,        \* contents of the data queue
    port,         \* a notification port is registered
    notified,     \* a notification message is waiting at that port
    unannounced,  \* the empty queue got an entry while there was no port
    late,         \* history: threads sent to a callback of this user client
                  \* that had not counted themselves when its wait ended
    loose,        \* history: registrations that stopLogging() does not find
    panicked      \* the kernel has panicked

lifeVars  == <<unloading, owner, uc, opening, fDataQueue, fListener, listens,
               registered>>
termVars  == <<tpc, late, loose>>
callVars  == <<pc, lis, gListenerInvocations, panicked>>
queueVars == <<queue, port, notified, unannounced>>
vars == <<lifeVars, termVars, callVars, queueVars>>

\* terminate() runs for clientClose() and for a kextunload, possibly at once.
Callers   == {"clientClose", "unload"}
Listeners == Clients \X (1 .. MaxListens)
NoListener == <<NoOne, 0>>

\* The client reads only the first byte of an entry to tell a stop message
\* (one byte, kt_kStopListeningToMessages) from an event (whose first field is
\* the 32-bit pid).
kt_kStopListeningToMessages == 255
FirstByte(pid) == IF BigEndian THEN (pid \div 16777216) % 256 ELSE pid % 256
EventEntry(pid) == [kind |-> "event", byte |-> FirstByte(pid)]
StopEntry == [kind |-> "stop", byte |-> kt_kStopListeningToMessages]
Entries == [kind : {"event", "stop"}, byte : 0 .. 255]

Init ==
    /\ unloading = FALSE
    /\ owner = NoOne
    /\ uc = [c \in Clients |-> "none"]
    /\ opening = [c \in Clients |-> FALSE]
    /\ fDataQueue = [c \in Clients |-> "null"]
    /\ fListener = [c \in Clients |-> 0]
    /\ listens = [c \in Clients |-> 0]
    /\ registered = {}
    /\ tpc = [c \in Clients |-> [w \in Callers |-> "idle"]]
    /\ late = [c \in Clients |-> {}]
    /\ loose = {}
    /\ panicked = FALSE
    /\ pc = [t \in Threads |-> "idle"]
    /\ lis = [t \in Threads |-> NoListener]
    /\ gListenerInvocations = 0
    /\ queue = [c \in Clients |-> <<>>]
    /\ port = [c \in Clients |-> FALSE]
    /\ notified = [c \in Clients |-> FALSE]
    /\ unannounced = [c \in Clients |-> FALSE]

-----------------------------------------------------------------------------
(* IODataQueue::enqueue, external: a full queue refuses the entry; only an  *)
(* entry that makes the queue non-empty is announced at the port.           *)
Enqueue(c, e) ==
    /\ port' = port
    /\ IF Len(queue[c]) < Capacity
       THEN /\ queue' = [queue EXCEPT ![c] = Append(@, e)]
            /\ notified' = [notified EXCEPT ![c] = @ \/ (queue[c] = <<>> /\ port[c])]
            /\ unannounced' =
                 [unannounced EXCEPT ![c] = @ \/ (queue[c] = <<>> /\ ~port[c])]
       ELSE UNCHANGED <<queue, notified, unannounced>>

(* IOServiceOpen: initWithTask() and start().  The error codes that start() *)
(* returns when it has no queue or no memory descriptor are non-zero, so    *)
(* its bool result is true and the user client is attached all the same.    *)
Start(c) ==
    /\ uc[c] = "none"
    /\ ~unloading
    /\ \E made \in {"live", "null"} : fDataQueue' = [fDataQueue EXCEPT ![c] = made]
    /\ uc' = [uc EXCEPT ![c] = "active"]
    /\ UNCHANGED <<unloading, owner, opening, fListener, listens, registered,
                   termVars, callVars, queueVars>>

(* open(), first half: isInactive() and the exclusive open of the provider, *)
(* which I/O Kit refuses once the provider itself is inactive.              *)
CanOpenProvider(c) == uc[c] = "active" /\ ~unloading /\ owner = NoOne

OpenProvider(c) ==
    /\ CanOpenProvider(c)
    /\ ~opening[c]
    /\ tpc[c]["clientClose"] = "idle"
    /\ listens[c] < MaxListens
    /\ owner' = c
    /\ opening' = [opening EXCEPT ![c] = TRUE]
    /\ UNCHANGED <<unloading, uc, fDataQueue, fListener, listens, registered,
                   termVars, callVars, queueVars>>

(* open(), second half: startLogging().  kauth_listen_scope may return NULL.*)
(* A listener that fListener held is overwritten, and one that is made when *)
(* a terminate() has already unregistered what there was comes too late.    *)
StartLogging(c) ==
    /\ opening[c] /\ listens[c] < MaxListens
    /\ opening' = [opening EXCEPT ![c] = FALSE]
    /\ LET new == <<c, listens[c] + 1>>
           overwritten == {l \in registered : l = <<c, fListener[c]>>}
           tooLate == \E w \in Callers : tpc[c][w] \in {"sleep", "done"} IN
       \/ /\ listens' = [listens EXCEPT ![c] = @ + 1]
          /\ fListener' = [fListener EXCEPT ![c] = new[2]]
          /\ registered' = registered \cup {new}
          /\ loose' = loose \cup overwritten \cup (IF tooLate THEN {new} ELSE {})
       \/ /\ fListener' = [fListener EXCEPT ![c] = 0]
          /\ loose' = loose \cup overwritten
          /\ UNCHANGED <<listens, registered>>
    /\ UNCHANGED <<unloading, owner, uc, fDataQueue, tpc, late, callVars, queueVars>>

(* close() as the exported method: it leaves the listener registered.       *)
Close(c) ==
    /\ uc[c] \in {"active", "inactive"}
    /\ ~opening[c]
    /\ tpc[c]["clientClose"] = "idle"
    /\ owner = c
    /\ owner' = NoOne
    /\ UNCHANGED <<unloading, uc, opening, fDataQueue, fListener, listens,
                   registered, termVars, callVars, queueVars>>

(* registerNotificationPort().                                              *)
RegisterNotificationPort(c) ==
    /\ fDataQueue[c] = "live"
    /\ port' = [port EXCEPT ![c] = TRUE]
    /\ UNCHANGED <<lifeVars, termVars, callVars, queue, notified, unannounced>>

-----------------------------------------------------------------------------
(* A kextunload: I/O Kit first makes the provider inactive.                 *)
Unload ==
    /\ ~unloading
    /\ unloading' = TRUE
    /\ UNCHANGED <<owner, uc, opening, fDataQueue, fListener, listens,
                   registered, termVars, callVars, queueVars>>

(* clientClose() up to stopLogging(), or terminate() up to it: both give up *)
(* the provider.  A client issues its own calls one after the other.        *)
TerminateBegin(c, w) ==
    /\ tpc[c][w] = "idle"
    /\ IF w = "clientClose"
       THEN uc[c] # "none" /\ ~opening[c]
       ELSE unloading /\ uc[c] = "active"
    /\ owner' = IF owner = c THEN NoOne ELSE owner
    /\ tpc' = [tpc EXCEPT ![c][w] = "unlisten"]
    /\ UNCHANGED <<unloading, uc, opening, fDataQueue, fListener, listens,
                   registered, late, loose, callVars, queueVars>>

Dispatched == {t \in Threads : pc[t] = "dispatched"}
Inside     == {t \in Threads : pc[t] \in {"entered", "leaving"}}

(* stopLogging(): unregister the listener, if fListener holds one.          *)
StopListening_StaysRegistered(c, w) ==
    /\ tpc[c][w] = "unlisten"
    /\ fListener' = [fListener EXCEPT ![c] = 0]
    /\ tpc' = [tpc EXCEPT ![c][w] = "sleep"]
    /\ UNCHANGED <<unloading, owner, uc, opening, fDataQueue, listens,
                   registered, late, loose, callVars, queueVars>>

StopListening_SaysStop(c, w) ==
    /\ tpc[c][w] = "unlisten"
    /\ registered' = registered \ {<<c, fListener[c]>>}
    /\ fListener' = [fListener EXCEPT ![c] = 0]
    /\ tpc' = [tpc EXCEPT ![c][w] = "sleep"]
    /\ IF fDataQueue[c] = "live" THEN Enqueue(c, StopEntry) ELSE UNCHANGED queueVars
    /\ UNCHANGED <<unloading, owner, uc, opening, fDataQueue, listens,
                   late, loose, callVars>>

StopListening(c, w) ==
    /\ tpc[c][w] = "unlisten"
    /\ registered' = registered \ {<<c, fListener[c]>>}
    /\ fListener' = [fListener EXCEPT ![c] = 0]
    /\ tpc' = [tpc EXCEPT ![c][w] = "sleep"]
    /\ UNCHANGED <<unloading, owner, uc, opening, fDataQueue, listens,
                   late, loose, callVars, queueVars>>

(* ... its loop: sleep again while some invocation is counted, for whichever*)
(* client ...                                                               *)
SleepAgain(c, w) ==
    /\ tpc[c][w] = "sleep"
    /\ gListenerInvocations > 0
    /\ UNCHANGED vars

(* ... then super::terminate(), which makes the user client inactive.       *)
Terminate(c, w) ==
    /\ tpc[c][w] = "sleep"
    /\ uc' = [uc EXCEPT ![c] = IF @ = "active" THEN "inactive" ELSE @]
    /\ tpc' = [tpc EXCEPT ![c][w] = "done"]
    /\ late' = [late EXCEPT ![c] = @ \cup {t \in Dispatched : lis[t][1] = c}]
    /\ UNCHANGED <<unloading, owner, opening, fDataQueue, fListener, listens,
                   registered, loose, callVars, queueVars>>

TerminateEnd_NoWait(c, w) == Terminate(c, w)

TerminateEnd(c, w) ==
    /\ gListenerInvocations = 0
    /\ Terminate(c, w)

(* stop(), which I/O Kit calls once the user client is inactive: a last     *)
(* message for the client ...                                               *)
Stop(c) ==
    /\ uc[c] = "inactive"
    /\ IF fDataQueue[c] = "live" THEN Enqueue(c, StopEntry) ELSE UNCHANGED queueVars
    /\ uc' = [uc EXCEPT ![c] = "stopping"]
    /\ UNCHANGED <<unloading, owner, opening, fDataQueue, fListener, listens,
                   registered, termVars, callVars>>

(* ... then the memory descriptor and the queue are released.               *)
Release(c) ==
    /\ uc[c] = "stopping"
    /\ uc' = [uc EXCEPT ![c] = "stopped"]
    /\ fDataQueue' = [fDataQueue EXCEPT ![c] = IF @ = "live" THEN "freed" ELSE @]
    /\ UNCHANGED <<unloading, owner, opening, fListener, listens, registered,
                   termVars, callVars, queueVars>>

-----------------------------------------------------------------------------
(* kauth, external: a vnode operation of thread t calls a listener.         *)
Dispatch(t) ==
    /\ pc[t] = "idle"
    /\ \E l \in registered : lis' = [lis EXCEPT ![t] = l]
    /\ pc' = [pc EXCEPT ![t] = "dispatched"]
    /\ UNCHANGED <<lifeVars, termVars, gListenerInvocations, panicked, queueVars>>

(* my_vnode_authorize_callback: OSIncrementAtomic ...                       *)
Enter(t) ==
    /\ pc[t] = "dispatched"
    /\ pc' = [pc EXCEPT ![t] = "entered"]
    /\ gListenerInvocations' = gListenerInvocations + 1
    /\ UNCHANGED <<lifeVars, termVars, lis, panicked, queueVars>>

(* ... events on the client's own log file are skipped, others enqueued, if *)
(* the cookie is a queue: a user client without one has given NULL, which   *)
(* OSDynamicCast returns and the call of enqueue() dereferences; what the   *)
(* use of a released one does is undefined, up to a panic ...               *)
Report(t) ==
    /\ pc[t] = "entered"
    /\ pc' = [pc EXCEPT ![t] = "leaving"]
    /\ LET c == lis[t][1] IN
       \/ UNCHANGED <<queueVars, panicked>>
       \/ /\ fDataQueue[c] = "live"
          /\ \E pid \in Pids : Enqueue(c, EventEntry(pid))
          /\ UNCHANGED panicked
       \/ /\ fDataQueue[c] # "live"
          /\ panicked' = TRUE
          /\ UNCHANGED queueVars
    /\ UNCHANGED <<lifeVars, termVars, lis, gListenerInvocations>>

(* ... OSDecrementAtomic and return.                                        *)
Leave_NoDecrement(t) ==
    /\ pc[t] = "leaving"
    /\ pc' = [pc EXCEPT ![t] = "idle"]
    /\ lis' = [lis EXCEPT ![t] = NoListener]
    /\ UNCHANGED <<lifeVars, termVars, gListenerInvocations, panicked, queueVars>>

Leave(t) ==
    /\ pc[t] = "leaving"
    /\ pc' = [pc EXCEPT ![t] = "idle"]
    /\ lis' = [lis EXCEPT ![t] = NoListener]
    /\ gListenerInvocations' = gListenerInvocations - 1
    /\ UNCHANGED <<lifeVars, termVars, panicked, queueVars>>

-----------------------------------------------------------------------------
(* The client maps the queue and takes entries itself (external library).   *)
Consume(c) ==
    /\ port[c]
    /\ \/ /\ notified[c]
          /\ notified' = [notified EXCEPT ![c] = FALSE]
          /\ UNCHANGED <<queue, unannounced>>
       \/ /\ queue[c] # <<>>
          /\ queue' = [queue EXCEPT ![c] = Tail(@)]
          /\ unannounced' =
               [unannounced EXCEPT ![c] = @ /\ Len(queue[c]) > 1]
          /\ UNCHANGED notified
    /\ UNCHANGED <<lifeVars, termVars, callVars, port>>

(* The receive right of the notification port goes away with its task.      *)
DestroyPort(c) ==
    /\ port' = [port EXCEPT ![c] = FALSE]
    /\ notified' = [notified EXCEPT ![c] = FALSE]
    /\ UNCHANGED <<lifeVars, termVars, callVars, queue, unannounced>>

ClientCall(c) ==
    \/ Start(c) \/ OpenProvider(c) \/ StartLogging(c) \/ Close(c)
    \/ RegisterNotificationPort(c) \/ TerminateBegin(c, "clientClose")
    \/ Consume(c) \/ DestroyPort(c)

ThreadStep(t) == Dispatch(t) \/ Enter(t) \/ Report(t) \/ Leave(t)

KernelStep(c) ==
    \/ TerminateBegin(c, "unload") \/ Stop(c) \/ Release(c)
    \/ \E w \in Callers : StopListening(c, w) \/ SleepAgain(c, w) \/ TerminateEnd(c, w)

Next ==
    /\ ~panicked
    /\ \/ Unload
       \/ \E c \in Clients : ClientCall(c) \/ KernelStep(c)
       \/ \E t \in Threads : ThreadStep(t)

Spec == Init /\ [][Next]_vars

-----------------------------------------------------------------------------
TypeOK ==
    /\ unloading \in BOOLEAN
    /\ owner \in Clients \cup {NoOne}
    /\ uc \in [Clients -> {"none", "active", "inactive", "stopping", "stopped"}]
    /\ opening \in [Clients -> BOOLEAN]
    /\ fDataQueue \in [Clients -> {"null", "live", "freed"}]
    /\ fListener \in [Clients -> 0 .. MaxListens]
    /\ listens \in [Clients -> 0 .. MaxListens]
    /\ registered \subseteq Listeners
    /\ tpc \in [Clients -> [Callers -> {"idle", "unlisten", "sleep", "done"}]]
    /\ late \in [Clients -> SUBSET Threads]
    /\ loose \subseteq Listeners
    /\ panicked \in BOOLEAN
    /\ pc \in [Threads -> {"idle", "dispatched", "entered", "leaving"}]
    /\ lis \in [Threads -> Listeners \cup {NoListener}]
    /\ gListenerInvocations \in Int
    /\ queue \in [Clients -> Seq(Entries)]
    /\ port \in [Clients -> BOOLEAN]
    /\ notified \in [Clients -> BOOLEAN]
    /\ unannounced \in [Clients -> BOOLEAN]

\* A callback that can still touch the queue which stop() has released is one
\* of two kinds: a thread that kauth had sent to it, but that had not counted
\* itself yet, when the wait of a stopLogging() ended; or one that a listener
\* calls which stopLogging() did not find.  Every other callback is covered by
\* the wait, the counter and the order of terminate() and stop().
NoUseAfterFree ==
    \A t \in Threads :
       pc[t] \in {"dispatched", "entered"} /\ fDataQueue[lis[t][1]] = "freed" =>
          t \in late[lis[t][1]] \/ lis[t] \in loose

\* A listener that is still registered, with the released queue as its cookie,
\* once stop() has run was registered in an open() that the termination had
\* overtaken, or its handle was overwritten by a later open().
NoListenerAfterStop ==
    \A l \in registered : uc[l[1]] = "stopped" => l \in loose

\* The counter stopLogging() polls is exactly the number of threads between
\* the OSIncrementAtomic and the OSDecrementAtomic of the callback, whichever
\* user clients they run for.
CounterExact == gListenerInvocations = Cardinality(Inside)

(* The inductive invariant behind NoUseAfterFree, in named parts.           *)
Gone == {"inactive", "stopping", "stopped"}

ListenerTracked ==   \* the user client holds every listener that is not loose
    \A l \in registered \ loose : fListener[l[1]] = l[2] /\ uc[l[1]] = "active"
Unlistened ==        \* what a stopLogging() has achieved when it sleeps
    \A c \in Clients, w \in Callers :
       tpc[c][w] \in {"sleep", "done"} => \A l \in registered \ loose : l[1] # c
InactiveIsQuiet ==   \* what runs for a user client past its terminate()
    \A t \in Threads :
       pc[t] # "idle" /\ uc[lis[t][1]] \in Gone =>
          lis[t] \in loose \/ t \in late[lis[t][1]]
TerminatedByOne ==   \* a user client goes from active only by a terminate() that ends
    \A c \in Clients :
       /\ opening[c] => uc[c] # "none"
       /\ uc[c] \in Gone => \E w \in Callers : tpc[c][w] = "done"
QueueOfStopped ==    \* only stop() releases a queue
    \A c \in Clients : fDataQueue[c] = "freed" => uc[c] = "stopped"
RunningHasListener ==
    \A t \in Threads : pc[t] # "idle" => lis[t] \in Listeners

CookieInv ==
    /\ ListenerTracked
    /\ Unlistened
    /\ InactiveIsQuiet
    /\ TerminatedByOne
    /\ QueueOfStopped
    /\ RunningHasListener

IInv == TypeOK /\ CounterExact /\ CookieInv
=============================================================================
