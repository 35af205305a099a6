----------------------------- MODULE VnodeWatch -----------------------------
(***************************************************************************)
(* The vnodewatch program (11-37/vnodewatch.c) on top of the VnodeWatcher  *)
(* kernel extension: each client is one process whose main thread opens a  *)
(* connection, calls the open method, starts the handler thread and joins  *)
(* it; the handler registers a notification port, maps the queue and then  *)
(* alternates between waiting at the port and draining the queue.          *)
(***************************************************************************)
EXTENDS VnodeWatcher

CONSTANTS
    MayDie,     \* a process may be killed at any moment (control-C)
    MayUnload   \* somebody may do a kextunload while clients are attached

ASSUME SwitchesAssumption == MayDie \in BOOLEAN /\ MayUnload \in BOOLEAN

VARIABLES
    main,      \* place of each process's main()
    handler,   \* place of its vnodeNotificationHandler()
    sawStop    \* what the handler took for the stop message, if anything

progVars == <<main, handler, sawStop>>
allVars  == <<vars, progVars>>

MainPlaces    == {"begin", "open", "opened", "create", "join", "close", "exit"}
HandlerPlaces == {"none", "port", "map", "wait", "drain", "exit", "done"}

WInit ==
    /\ Init
    /\ main = [c \in Clients |-> "begin"]
    /\ handler = [c \in Clients |-> "none"]
    /\ sawStop = [c \in Clients |-> "no"]

GoMain(c, from, to) ==
    /\ main[c] = from
    /\ main' = [main EXCEPT ![c] = to]
    /\ UNCHANGED <<handler, sawStop>>

GoHandler(c, from, to) ==
    /\ handler[c] = from
    /\ main[c] = "join"
    /\ handler' = [handler EXCEPT ![c] = to]
    /\ UNCHANGED main

-----------------------------------------------------------------------------
(* main(): find the service and IOServiceOpen; the service may be missing.  *)
OpenService(c) ==
    \/ Start(c) /\ GoMain(c, "begin", "open")
    \/ uc[c] = "none" /\ GoMain(c, "begin", "exit") /\ UNCHANGED vars

(* The open method: it succeeds, fails inside startLogging(), or is refused.*)
CallOpen(c) ==
    \/ OpenProvider(c) /\ GoMain(c, "open", "opened")
    \/ ~CanOpenProvider(c) /\ GoMain(c, "open", "close") /\ UNCHANGED vars

OpenReturns(c) ==
    /\ StartLogging(c)
    /\ GoMain(c, "opened", IF fListener'[c] = 0 THEN "close" ELSE "create")

(* pthread_create may fail; otherwise main() joins the handler.             *)
CreateHandler(c) ==
    /\ main[c] = "create"
    /\ \/ /\ main' = [main EXCEPT ![c] = "join"]
          /\ handler' = [handler EXCEPT ![c] = "port"]
       \/ /\ main' = [main EXCEPT ![c] = "close"]
          /\ UNCHANGED handler
    /\ UNCHANGED <<vars, sawStop>>

Join(c) ==
    handler[c] = "done" /\ GoMain(c, "join", "close") /\ UNCHANGED vars

(* IOServiceClose, reached by main() or, when the process dies, by the      *)
(* kernel on its behalf; the call returns when clientClose() does.          *)
CloseService(c) ==
    /\ main[c] = "close"
    /\ TerminateBegin(c, "clientClose")
    /\ UNCHANGED progVars

Exit(c) ==
    /\ tpc[c]["clientClose"] = "done"
    /\ GoMain(c, "close", "exit")
    /\ UNCHANGED vars

Killed(c) ==
    /\ MayDie
    /\ main[c] \in {"open", "create", "join"}
    /\ main' = [main EXCEPT ![c] = "close"]
    /\ handler' = [handler EXCEPT ![c] = "none"]
    /\ DestroyPort(c)
    /\ UNCHANGED sawStop

-----------------------------------------------------------------------------
(* vnodeNotificationHandler(): register the port ...                        *)
SetPort(c) ==
    /\ \/ RegisterNotificationPort(c) /\ GoHandler(c, "port", "map")
       \/ UNCHANGED vars /\ GoHandler(c, "port", "done")
    /\ UNCHANGED sawStop

(* ... map the queue, refused once stop() has dropped the descriptor ...    *)
MapMemory(c) ==
    /\ \/ fDataQueue[c] = "live" /\ GoHandler(c, "map", "wait") /\ UNCHANGED vars
       \/ DestroyPort(c) /\ GoHandler(c, "map", "done")
    /\ UNCHANGED sawStop

(* ... IODataQueueWaitForAvailableData: receive a notification ...          *)
Wait(c) ==
    /\ GoHandler(c, "wait", "drain")
    /\ notified[c]
    /\ notified' = [notified EXCEPT ![c] = FALSE]
    /\ UNCHANGED <<lifeVars, termVars, callVars, queue, port, unannounced, sawStop>>

(* ... which may also fail, and then ends the handler's loop ...            *)
WaitFails(c) ==
    GoHandler(c, "wait", "exit") /\ UNCHANGED <<vars, sawStop>>

TakeHead(c) ==
    /\ queue[c] # <<>>
    /\ queue' = [queue EXCEPT ![c] = Tail(@)]
    /\ unannounced' = [unannounced EXCEPT ![c] = @ /\ Len(queue[c]) > 1]
    /\ UNCHANGED <<lifeVars, termVars, callVars, port, notified>>

(* ... and take entries until the queue is empty or a stop byte turns up.   *)
LooksLikeStop(e) == e.byte = kt_kStopListeningToMessages

Drain_OneEntry(c) ==
    \/ /\ TakeHead(c)
       /\ LET e == Head(queue[c]) IN
          /\ GoHandler(c, "drain", IF LooksLikeStop(e) THEN "exit" ELSE "wait")
          /\ sawStop' = [sawStop EXCEPT ![c] = IF LooksLikeStop(e) THEN e.kind ELSE @]
    \/ /\ queue[c] = <<>>
       /\ GoHandler(c, "drain", "wait")
       /\ UNCHANGED <<vars, sawStop>>

Drain(c) ==
    \/ /\ TakeHead(c)
       /\ LET e == Head(queue[c]) IN
          /\ GoHandler(c, "drain", IF LooksLikeStop(e) THEN "exit" ELSE "drain")
          /\ sawStop' = [sawStop EXCEPT ![c] = IF LooksLikeStop(e) THEN e.kind ELSE @]
    \/ /\ queue[c] = <<>>
       /\ GoHandler(c, "drain", "wait")
       /\ UNCHANGED <<vars, sawStop>>

(* exit: unmap the queue, destroy the port.                                 *)
HandlerExit(c) ==
    /\ GoHandler(c, "exit", "done")
    /\ DestroyPort(c)
    /\ UNCHANGED sawStop

HandlerStep(c) == SetPort(c) \/ MapMemory(c) \/ Wait(c) \/ Drain(c) \/ HandlerExit(c)

MainStep(c) ==
    OpenService(c) \/ CallOpen(c) \/ OpenReturns(c) \/ CreateHandler(c)
    \/ Join(c) \/ CloseService(c) \/ Exit(c)

(* Nothing is left to do: all processes have ended, or the kernel is gone.  *)
Terminated ==
    /\ panicked \/ \A c \in Clients : main[c] = "exit"
    /\ UNCHANGED allVars

WNext ==
    \/ /\ ~panicked
       /\ \/ \E c \in Clients : MainStep(c) \/ HandlerStep(c) \/ WaitFails(c) \/ Killed(c)
          \/ \E c \in Clients : KernelStep(c) /\ UNCHANGED progVars
          \/ \E t \in Threads : ThreadStep(t) /\ UNCHANGED progVars
          \/ MayUnload /\ Unload /\ UNCHANGED progVars
    \/ Terminated

WSpec == WInit /\ [][WNext]_allVars

(* Threads of one process and the kernel are scheduled fairly; a vnode      *)
(* operation once authorized runs to its end; when a kextunload starts, and *)
(* whether a file is touched or a receive fails at all, is left open.  A    *)
(* waiting stopLogging() looks at the counter once a second only: it is sure*)
(* to go on if the counter stays 0, not if it is 0 now and then.            *)
Fairness ==
    /\ \A c \in Clients :
          /\ WF_allVars(~panicked /\ MainStep(c))
          /\ WF_allVars(~panicked /\ HandlerStep(c))
          /\ WF_allVars(/\ ~panicked
                        /\ TerminateBegin(c, "unload") \/ Stop(c) \/ Release(c)
                        /\ UNCHANGED progVars)
    /\ \A c \in Clients, w \in Callers :
          /\ WF_allVars(~panicked /\ StopListening(c, w) /\ UNCHANGED progVars)
          /\ WF_allVars(~panicked /\ TerminateEnd(c, w) /\ UNCHANGED progVars)
    /\ \A t \in Threads :
          WF_allVars(~panicked /\ (Enter(t) \/ Report(t) \/ Leave(t)) /\ UNCHANGED progVars)

FairWSpec == WSpec /\ Fairness

-----------------------------------------------------------------------------
WTypeOK ==
    /\ TypeOK
    /\ gListenerInvocations \in 0 .. Cardinality(Threads)
    /\ main \in [Clients -> MainPlaces]
    /\ handler \in [Clients -> HandlerPlaces]
    /\ sawStop \in [Clients -> {"no", "event", "stop"}]

\* The handler blocks at its port with entries in the queue only if a
\* notification is on its way, or if the queue got its first entry in the time
\* between the open method and registerNotificationPort().
NoMissedWakeup ==
    /\ WTypeOK
    /\ \A c \in Clients :
          handler[c] = "wait" /\ queue[c] # <<>> => notified[c] \/ unannounced[c]

\* A process that has ended leaves no listener behind, whichever of its own
\* close and a kextunload came first and even if the unload got into the middle
\* of its open(): what startLogging() registers too late for terminate() the
\* IOServiceClose of the process still unregisters.
NoListenerAfterExit ==
    \A l \in registered : main[l[1]] # "exit"

\* A handler that ends on the driver's own stop message has read every entry
\* the driver accepted: stop() sends it behind the events of all callbacks that
\* terminate() waited for, so that only callbacks which escaped the wait can
\* have queued something behind it.  (What it takes for the stop message may
\* also be an event: then entries stay unread.)
Escaped(c) == late[c] # {} \/ \E l \in loose : l[1] = c

StopComesLast ==
    \A c \in Clients : sawStop[c] = "stop" /\ queue[c] # <<>> => Escaped(c)

\* Only one user client at a time is open and receives events.
OneClientListening ==
    \A l, m \in registered : l[1] = m[1]

StopSent(c) ==
    /\ uc[c] = "stopped" /\ port[c] /\ ~unannounced[c]
    /\ \E i \in DOMAIN queue[c] : queue[c][i].kind = "stop"

\* The counter every stopLogging() polls is shared: a close can be kept waiting
\* for ever by callbacks that run for other clients, and by nothing else.
OthersQuiet(c) == \A t \in Inside : lis[t][1] = c

\* A handler whose driver is unloaded under it ends, and so does the program,
\* provided stop() found room in the queue and the callbacks of other clients
\* come to an end.
UnloadEndsWatch ==
    \A c \in Clients :
       <>[]OthersQuiet(c) => (StopSent(c) ~> main[c] = "exit" \/ panicked)

\* IOServiceClose, at the end of main() or for a dead process, returns if the
\* callbacks of other clients come to an end; those of its own listener do not
\* keep it from that.
CloseReturns ==
    \A c \in Clients :
       <>[]OthersQuiet(c) => (main[c] = "close" ~> main[c] = "exit" \/ panicked)
=============================================================================
