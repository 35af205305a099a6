------------------------- MODULE VnodeWatcherProofs -------------------------
(***************************************************************************)
(* Proofs about the VnodeWatcher driver, for any sets of clients and       *)
(* threads, any queue capacity and any client behaviour, and about the     *)
(* vnodewatch program on top of it.                                        *)
(***************************************************************************)
EXTENDS VnodeWatch, FiniteSetTheorems, TLAPS

USE DEF lifeVars, termVars, callVars, queueVars

-----------------------------------------------------------------------------
(* IODataQueue::enqueue keeps the queue variables well typed, whatever the  *)
(* state of the queue object.                                               *)
LEMMA EnqueueType ==
    ASSUME TypeOK, NEW c \in Clients, NEW e \in Entries, Enqueue(c, e)
    PROVE  /\ queue' \in [Clients -> Seq(Entries)]
           /\ port' \in [Clients -> BOOLEAN]
           /\ notified' \in [Clients -> BOOLEAN]
           /\ unannounced' \in [Clients -> BOOLEAN]
<1>1. CASE Len(queue[c]) < Capacity
  <2>1. queue[c] \in Seq(Entries) BY DEF TypeOK
  <2>2. Append(queue[c], e) \in Seq(Entries) BY <2>1
  <2>3. QED BY <1>1, <2>2 DEF TypeOK, Enqueue
<1>2. CASE ~(Len(queue[c]) < Capacity)
  BY <1>2 DEF TypeOK, Enqueue
<1>3. QED BY <1>1, <1>2

(* Every entry the driver builds, from a pid or for stop(), is an entry.    *)
LEMMA EntryType ==
    /\ StopEntry \in Entries
    /\ \A pid \in Pids : EventEntry(pid) \in Entries
<1>1. StopEntry \in Entries
  BY DEF StopEntry, Entries, kt_kStopListeningToMessages
<1>2. ASSUME NEW pid \in Pids PROVE EventEntry(pid) \in Entries
  <2>1. pid \in Nat BY BoundsAssumption
  <2>2. FirstByte(pid) \in 0 .. 255 BY <2>1 DEF FirstByte
  <2>3. QED BY <2>2 DEF EventEntry, Entries
<1>3. QED BY <1>1, <1>2

(* The sets of threads the counter counts are finite.                       *)
LEMMA InsideFinite == IsFiniteSet(Inside)
BY ThreadsAssumption, FS_Subset DEF Inside

-----------------------------------------------------------------------------
(* Every step of the driver, its clients and the callbacks keeps the types. *)
LEMMA TypeStep == TypeOK /\ [Next]_vars => TypeOK'
<1> SUFFICES ASSUME TypeOK, [Next]_vars PROVE TypeOK' OBVIOUS
<1>1. CASE Unload BY <1>1 DEF TypeOK, Unload
<1>2. ASSUME NEW c \in Clients, ClientCall(c) PROVE TypeOK'
  <2>1. CASE Start(c) BY <2>1 DEF TypeOK, Start
  <2>2. CASE OpenProvider(c) BY <2>2 DEF TypeOK, OpenProvider
  <2>3. CASE StartLogging(c)
    <3>1. listens[c] + 1 \in 1 .. MaxListens
      BY <2>3, BoundsAssumption DEF TypeOK, StartLogging
    <3>2. 0 \in 0 .. MaxListens /\ listens[c] + 1 \in 0 .. MaxListens
      BY <3>1, BoundsAssumption
    <3>a. listens' \in [Clients -> 0 .. MaxListens]
      BY <2>3, <3>2 DEF TypeOK, StartLogging
    <3>b. fListener' \in [Clients -> 0 .. MaxListens]
      BY <2>3, <3>2 DEF TypeOK, StartLogging
    <3>c. opening' \in [Clients -> BOOLEAN]
      BY <2>3 DEF TypeOK, StartLogging
    <3>3. registered' \subseteq Listeners /\ loose' \subseteq Listeners
      BY <2>3, <3>1 DEF TypeOK, StartLogging, Listeners
    <3>4. QED BY <2>3, <3>a, <3>b, <3>c, <3>3 DEF TypeOK, StartLogging
  <2>4. CASE Close(c) BY <2>4 DEF TypeOK, Close
  <2>5. CASE RegisterNotificationPort(c) BY <2>5 DEF TypeOK, RegisterNotificationPort
  <2>6. CASE TerminateBegin(c, "clientClose")
    BY <2>6 DEF TypeOK, TerminateBegin, Callers
  <2>7. CASE Consume(c)
    <3>1. queue[c] \in Seq(Entries) BY DEF TypeOK
    <3>2. queue[c] # <<>> => Tail(queue[c]) \in Seq(Entries) BY <3>1
    <3>3. queue' \in [Clients -> Seq(Entries)] BY <2>7, <3>2 DEF TypeOK, Consume
    <3>4. /\ notified' \in [Clients -> BOOLEAN]
          /\ unannounced' \in [Clients -> BOOLEAN]
      BY <2>7 DEF TypeOK, Consume
    <3>5. QED BY <2>7, <3>3, <3>4 DEF TypeOK, Consume
  <2>8. CASE DestroyPort(c) BY <2>8 DEF TypeOK, DestroyPort
  <2>9. QED BY <1>2, <2>1, <2>2, <2>3, <2>4, <2>5, <2>6, <2>7, <2>8 DEF ClientCall
<1>3. ASSUME NEW c \in Clients, KernelStep(c) PROVE TypeOK'
  <2>1. CASE TerminateBegin(c, "unload")
    BY <2>1 DEF TypeOK, TerminateBegin, Callers
  <2>2. CASE Stop(c)
    <3>1. /\ queue' \in [Clients -> Seq(Entries)]
          /\ port' \in [Clients -> BOOLEAN]
          /\ notified' \in [Clients -> BOOLEAN]
          /\ unannounced' \in [Clients -> BOOLEAN]
      <4>1. CASE Enqueue(c, StopEntry) BY <4>1, EnqueueType, EntryType
      <4>2. CASE UNCHANGED queueVars BY <4>2 DEF TypeOK
      <4>3. QED BY <2>2, <4>1, <4>2 DEF Stop
    <3>2. QED BY <2>2, <3>1 DEF TypeOK, Stop
  <2>3. ASSUME NEW w \in Callers, StopListening(c, w) PROVE TypeOK'
    <3>1. fListener' \in [Clients -> 0 .. MaxListens]
      BY <2>3, BoundsAssumption DEF TypeOK, StopListening
    <3>2. QED BY <2>3, <3>1 DEF TypeOK, StopListening
  <2>4. CASE Release(c) BY <2>4 DEF TypeOK, Release
  <2>5. ASSUME NEW w \in Callers, TerminateEnd(c, w) PROVE TypeOK'
    BY <2>5 DEF TypeOK, TerminateEnd, Terminate, Dispatched
  <2>6. ASSUME NEW w \in Callers, SleepAgain(c, w) PROVE TypeOK'
    BY <2>6 DEF SleepAgain, vars, TypeOK
  <2>7. QED BY <1>3, <2>1, <2>2, <2>3, <2>4, <2>5, <2>6 DEF KernelStep
<1>4. ASSUME NEW t \in Threads, ThreadStep(t) PROVE TypeOK'
  <2>1. CASE Dispatch(t) BY <2>1 DEF TypeOK, Dispatch
  <2>2. CASE Enter(t) BY <2>2 DEF TypeOK, Enter
  <2>3. CASE Report(t)
    <3>1. CASE UNCHANGED queueVars BY <2>3, <3>1 DEF TypeOK, Report
    <3>2. CASE ~UNCHANGED queueVars
      <4>1. PICK pid \in Pids : Enqueue(lis[t][1], EventEntry(pid))
        BY <2>3, <3>2 DEF Report
      <4>2. CASE lis[t][1] \in Clients
        BY <2>3, <3>2, <4>1, <4>2, EnqueueType, EntryType DEF TypeOK, Report
      <4>3. CASE lis[t][1] \notin Clients
        <5>1. /\ [queue EXCEPT ![lis[t][1]] = Append(@, EventEntry(pid))] = queue
              /\ \A b : [notified EXCEPT ![lis[t][1]] = b] = notified
              /\ \A b : [unannounced EXCEPT ![lis[t][1]] = b] = unannounced
          BY <4>3 DEF TypeOK
        <5>2. UNCHANGED queueVars BY <4>1, <4>3, <5>1 DEF Enqueue, TypeOK
        <5>3. QED BY <3>2, <5>2
      <4>4. QED BY <4>2, <4>3
    <3>3. QED BY <3>1, <3>2
  <2>4. CASE Leave(t) BY <2>4 DEF TypeOK, Leave
  <2>5. QED BY <1>4, <2>1, <2>2, <2>3, <2>4 DEF ThreadStep
<1>5. CASE UNCHANGED vars BY <1>5 DEF TypeOK, vars
<1>6. QED BY <1>1, <1>2, <1>3, <1>4, <1>5 DEF Next

-----------------------------------------------------------------------------
(* OSIncrementAtomic and OSDecrementAtomic keep the counter equal to the    *)
(* number of threads inside the callback; nothing else moves either.        *)
LEMMA CounterStep == TypeOK /\ CounterExact /\ [Next]_vars => CounterExact'
<1> SUFFICES ASSUME TypeOK, CounterExact, [Next]_vars PROVE CounterExact' OBVIOUS
<1>1. CASE UNCHANGED <<pc, gListenerInvocations>>
  BY <1>1 DEF CounterExact, Inside
<1>2. ASSUME NEW t \in Threads, Dispatch(t) PROVE CounterExact'
  <2>1. Inside' = Inside BY <1>2 DEF Dispatch, Inside, TypeOK
  <2>2. QED BY <1>2, <2>1 DEF Dispatch, CounterExact
<1>3. ASSUME NEW t \in Threads, Enter(t) PROVE CounterExact'
  <2>1. Inside' = Inside \cup {t} BY <1>3 DEF Enter, Inside, TypeOK
  <2>2. t \notin Inside BY <1>3 DEF Enter, Inside
  <2>3. QED BY <1>3, <2>1, <2>2, InsideFinite, FS_AddElement DEF Enter, CounterExact
<1>4. ASSUME NEW t \in Threads, Report(t) PROVE CounterExact'
  <2>1. Inside' = Inside BY <1>4 DEF Report, Inside, TypeOK
  <2>2. QED BY <1>4, <2>1 DEF Report, CounterExact
<1>5. ASSUME NEW t \in Threads, Leave(t) PROVE CounterExact'
  <2>1. Inside' = Inside \ {t} BY <1>5 DEF Leave, Inside, TypeOK
  <2>2. t \in Inside BY <1>5 DEF Leave, Inside
  <2>3. QED BY <1>5, <2>1, <2>2, InsideFinite, FS_RemoveElement DEF Leave, CounterExact
<1>6. ASSUME NEW c \in Clients, ClientCall(c) PROVE UNCHANGED <<pc, gListenerInvocations>>
  BY <1>6 DEF ClientCall, Start, OpenProvider, StartLogging, Close,
     RegisterNotificationPort, TerminateBegin, Consume, DestroyPort
<1>7. ASSUME NEW c \in Clients, KernelStep(c) PROVE UNCHANGED <<pc, gListenerInvocations>>
  BY <1>7 DEF KernelStep, TerminateBegin, Stop, Release, StopListening, SleepAgain,
     TerminateEnd, Terminate, vars
<1>8. QED
  BY <1>1, <1>2, <1>3, <1>4, <1>5, <1>6, <1>7 DEF Next, ThreadStep, Unload, vars

-----------------------------------------------------------------------------
(* A user client that is no longer active has a terminate() behind it.      *)
LEMMA TerminatedStep ==
    ASSUME TypeOK, TerminatedByOne, [Next]_vars
    PROVE  TerminatedByOne'
<1> USE DEF TypeOK, TerminatedByOne, Gone
<1>1. CASE Unload BY <1>1 DEF Unload
<1>2. ASSUME NEW c \in Clients, ClientCall(c) PROVE TerminatedByOne'
  <2>1. CASE Start(c) BY <2>1 DEF Start
  <2>2. CASE OpenProvider(c) BY <2>2 DEF OpenProvider, CanOpenProvider
  <2>3. CASE StartLogging(c) BY <2>3 DEF StartLogging
  <2>4. CASE Close(c) BY <2>4 DEF Close
  <2>5. CASE RegisterNotificationPort(c) BY <2>5 DEF RegisterNotificationPort
  <2>6. CASE TerminateBegin(c, "clientClose") BY <2>6 DEF TerminateBegin, Callers
  <2>7. CASE Consume(c) BY <2>7 DEF Consume
  <2>8. CASE DestroyPort(c) BY <2>8 DEF DestroyPort
  <2>9. QED BY <1>2, <2>1, <2>2, <2>3, <2>4, <2>5, <2>6, <2>7, <2>8 DEF ClientCall
<1>3. ASSUME NEW c \in Clients, KernelStep(c) PROVE TerminatedByOne'
  <2>1. CASE TerminateBegin(c, "unload") BY <2>1 DEF TerminateBegin, Callers
  <2>2. CASE Stop(c) BY <2>2 DEF Stop
  <2>3. ASSUME NEW w \in Callers, StopListening(c, w) PROVE TerminatedByOne'
    BY <2>3 DEF StopListening
  <2>4. CASE Release(c) BY <2>4 DEF Release
  <2>5. ASSUME NEW w \in Callers, TerminateEnd(c, w) PROVE TerminatedByOne'
    <3>1. tpc'[c][w] = "done"
      BY <2>5 DEF TerminateEnd, Terminate
    <3>2. \A d \in Clients, v \in Callers : tpc[d][v] = "done" => tpc'[d][v] = "done"
      BY <2>5 DEF TerminateEnd, Terminate
    <3>3. \A d \in Clients : d # c => uc'[d] = uc[d]
      BY <2>5 DEF TerminateEnd, Terminate
    <3>4. opening' = opening /\ (uc[c] # "none" => uc'[c] # "none")
      BY <2>5 DEF TerminateEnd, Terminate
    <3> QED BY <3>1, <3>2, <3>3, <3>4
  <2>6. ASSUME NEW w \in Callers, SleepAgain(c, w) PROVE TerminatedByOne'
    BY <2>6 DEF SleepAgain, vars
  <2>7. QED BY <1>3, <2>1, <2>2, <2>3, <2>4, <2>5, <2>6 DEF KernelStep
<1>4. ASSUME NEW t \in Threads, ThreadStep(t) PROVE TerminatedByOne'
  BY <1>4 DEF ThreadStep, Dispatch, Enter, Report, Leave
<1>5. CASE UNCHANGED vars BY <1>5 DEF vars
<1>6. QED BY <1>1, <1>2, <1>3, <1>4, <1>5 DEF Next

(* The cookie invariant survives every step, whatever clients, unloads and  *)
(* the scheduler do: one step per action.                                   *)
LEMMA CookieStep ==
    ASSUME TypeOK, TypeOK', CounterExact, CookieInv, [Next]_vars
    PROVE  CookieInv'
<1> USE DEF CookieInv, ListenerTracked, Unlistened, InactiveIsQuiet, QueueOfStopped,
            RunningHasListener, TypeOK, Gone
<1>t. TerminatedByOne' BY TerminatedStep
<1> USE <1>t
<1>1. CASE Unload BY <1>1 DEF Unload
<1>2. ASSUME NEW c \in Clients, ClientCall(c) PROVE CookieInv'
  <2>1. CASE Start(c) 
    <3>u. /\ \A d \in Clients : uc'[d] = uc[d] \/ (d = c /\ uc'[d] = "active")
          /\ \A d \in Clients : fDataQueue'[d] = "freed" => d # c /\ fDataQueue[d] = "freed"
          /\ UNCHANGED <<registered, loose, fListener, tpc, pc, lis, late>>
      BY <2>1 DEF Start
    <3>l. \A l \in Listeners : l[1] \in Clients BY DEF Listeners
    <3>t. ListenerTracked' BY <3>u, <3>l
    <3>1. Unlistened' BY <3>u
    <3>r. RunningHasListener' BY <3>u
    <3>2. InactiveIsQuiet'
      <4>1. \A d \in Clients : uc'[d] \in Gone => uc[d] \in Gone BY <3>u
      <4>2. \A t \in Threads : pc[t] # "idle" => lis[t][1] \in Clients BY <3>l
      <4>3. QED BY <3>u, <4>1, <4>2
    <3>3. QueueOfStopped' BY <3>u
    <3>4. QED BY <3>t, <3>1, <3>2, <3>3, <3>r
  <2>2. CASE OpenProvider(c) BY <2>2 DEF OpenProvider
  <2>3. CASE StartLogging(c)
    <3>1. PICK new \in Listeners :
             /\ new[1] = c
             /\ \A l \in registered' : l \in registered \/ (l = new /\ fListener'[c] = l[2])
             /\ loose \subseteq loose'
             /\ \A l \in registered : l = <<c, fListener[c]>> => l \in loose'
             /\ (\E w \in Callers : tpc[c][w] \in {"sleep", "done"}) =>
                   registered' \subseteq registered \cup loose'
      <4>1. <<c, listens[c] + 1>> \in Listeners
        BY <2>3, BoundsAssumption DEF StartLogging, Listeners
      <4>2. CASE fListener'[c] = 0 /\ UNCHANGED registered
        BY <2>3, <4>1, <4>2 DEF StartLogging
      <4>3. CASE fListener'[c] = listens[c] + 1 /\ registered' = registered \cup {<<c, listens[c] + 1>>}
        <5>1. <<c, listens[c] + 1>>[1] = c /\ <<c, listens[c] + 1>>[2] = fListener'[c]
          BY <4>3
        <5>2. <<c, listens[c] + 1>> \in registered' BY <4>3
        <5>3. CASE registered' = registered
          BY <2>3, <4>1, <4>3, <5>1, <5>3 DEF StartLogging
        <5>4. CASE registered' # registered
          BY <2>3, <4>1, <4>3, <5>1, <5>4 DEF StartLogging
        <5>5. QED BY <5>3, <5>4
      <4>4. QED BY <2>3, <4>2, <4>3 DEF StartLogging
    <3>2. \A d \in Clients \ {c} : fListener'[d] = fListener[d]
      BY <2>3 DEF StartLogging
    <3>3. \A l \in registered \ loose' : l[1] # c
      BY <3>1 DEF Listeners
    <3>4. ListenerTracked'
      <4>1. SUFFICES ASSUME NEW l \in registered', l \notin loose'
                     PROVE  fListener'[l[1]] = l[2] /\ uc'[l[1]] = "active"
        OBVIOUS
      <4>2. CASE l \in registered
        <5>1. l[1] # c /\ l[1] \in Clients BY <3>3, <4>1, <4>2 DEF Listeners
        <5>2. l \notin loose BY <3>1, <4>1
        <5>3. QED BY <2>3, <3>2, <4>2, <5>1, <5>2 DEF StartLogging
      <4>3. CASE l \notin registered
        <5>1. l[1] = c /\ fListener'[c] = l[2] BY <3>1, <4>3
        <5>2. \A w \in Callers : tpc[c][w] \notin {"sleep", "done"} BY <3>1, <4>1, <4>3
        <5>3. uc'[c] = uc[c] /\ opening[c] BY <2>3 DEF StartLogging
        <5>4. uc[c] = "active"
          <6>1. TerminatedByOne OBVIOUS
          <6>2. uc[c] # "none" /\ ~(uc[c] \in Gone)
            BY ONLY <5>2, <5>3, <6>1, c \in Clients DEF TerminatedByOne
          <6>3. uc[c] \in {"none", "active", "inactive", "stopping", "stopped"} OBVIOUS
          <6>4. QED BY <6>2, <6>3
        <5>5. QED BY <5>1, <5>3, <5>4
      <4>4. QED BY <4>1, <4>2, <4>3
    <3>5. Unlistened' BY <2>3, <3>1, <3>3 DEF StartLogging
    <3>6. InactiveIsQuiet' BY <2>3, <3>1 DEF StartLogging
    <3>7. QueueOfStopped' /\ RunningHasListener' BY <2>3 DEF StartLogging
    <3>8. QED BY <3>4, <3>5, <3>6, <3>7
  <2>4. CASE Close(c) BY <2>4 DEF Close
  <2>5. CASE RegisterNotificationPort(c) BY <2>5 DEF RegisterNotificationPort
  <2>6. CASE TerminateBegin(c, "clientClose") BY <2>6 DEF TerminateBegin, Callers
  <2>7. CASE Consume(c) BY <2>7 DEF Consume
  <2>8. CASE DestroyPort(c) BY <2>8 DEF DestroyPort
  <2>9. QED BY <1>2, <2>1, <2>2, <2>3, <2>4, <2>5, <2>6, <2>7, <2>8 DEF ClientCall
<1>3. ASSUME NEW c \in Clients, KernelStep(c) PROVE CookieInv'
  <2>1. CASE TerminateBegin(c, "unload") BY <2>1 DEF TerminateBegin, Callers
  <2>2. CASE Stop(c) BY <2>2 DEF Stop, Enqueue
  <2>3. ASSUME NEW w \in Callers, StopListening(c, w) PROVE CookieInv'
    <3>1. \A l \in registered' \ loose' : l \in registered \ loose /\ l[1] # c
      BY <2>3 DEF StopListening, Listeners
    <3>2. ListenerTracked' BY <2>3, <3>1 DEF StopListening, Listeners
    <3>3. Unlistened' BY <2>3, <3>1 DEF StopListening
    <3>4. InactiveIsQuiet' /\ QueueOfStopped' /\ RunningHasListener'
      BY <2>3 DEF StopListening
    <3>5. QED BY <3>2, <3>3, <3>4
  <2>4. CASE Release(c) BY <2>4 DEF Release
  <2>5. ASSUME NEW w \in Callers, TerminateEnd(c, w) PROVE CookieInv'
    <3>1. Inside = {}
      BY <2>5, InsideFinite, FS_EmptySet DEF TerminateEnd, CounterExact
    <3>2. \A t \in Threads : pc[t] # "idle" /\ lis[t][1] = c => t \in late'[c]
      BY <2>5, <3>1 DEF TerminateEnd, Terminate, Inside, Dispatched
    <3>3. \A d \in Clients : late[d] \subseteq late'[d] /\ (d # c => uc'[d] = uc[d])
      BY <2>5 DEF TerminateEnd, Terminate
    <3>4. \A l \in registered \ loose : l[1] # c
      BY <2>5 DEF TerminateEnd, Terminate
    <3>5. ListenerTracked' BY <2>5, <3>3, <3>4 DEF TerminateEnd, Terminate, Listeners
    <3>6. Unlistened' BY <2>5, <3>4 DEF TerminateEnd, Terminate
    <3>7. InactiveIsQuiet'
      <4>1. \A t \in Threads : pc[t] # "idle" => lis[t][1] \in Clients BY DEF Listeners
      <4>2. UNCHANGED <<pc, lis, loose>> BY <2>5 DEF TerminateEnd, Terminate
      <4>3. QED BY <3>2, <3>3, <4>1, <4>2
    <3>8. QueueOfStopped' /\ RunningHasListener' BY <2>5 DEF TerminateEnd, Terminate
    <3>9. QED BY <3>5, <3>6, <3>7, <3>8
  <2>6. ASSUME NEW w \in Callers, SleepAgain(c, w) PROVE CookieInv'
    BY <2>6 DEF SleepAgain, vars
  <2>7. QED BY <1>3, <2>1, <2>2, <2>3, <2>4, <2>5, <2>6 DEF KernelStep
<1>4. ASSUME NEW t \in Threads, ThreadStep(t) PROVE CookieInv'
  <2>1. CASE Dispatch(t)
    <3>1. PICK l \in registered : lis' = [lis EXCEPT ![t] = l]
      BY <2>1 DEF Dispatch
    <3>2. l \in Listeners /\ (l \in loose \/ uc[l[1]] = "active") BY <3>1
    <3>3. /\ lis'[t] = l /\ pc'[t] = "dispatched"
          /\ \A u \in Threads \ {t} : lis'[u] = lis[u] /\ pc'[u] = pc[u]
      BY <2>1, <3>1 DEF Dispatch
    <3>4. ListenerTracked' /\ Unlistened' /\ QueueOfStopped' BY <2>1 DEF Dispatch
    <3>5. InactiveIsQuiet' /\ RunningHasListener' BY <2>1, <3>2, <3>3 DEF Dispatch
    <3>6. QED BY <3>4, <3>5
  <2>2. CASE Enter(t) BY <2>2 DEF Enter
  <2>3. CASE Report(t) BY <2>3 DEF Report
  <2>4. CASE Leave(t) BY <2>4 DEF Leave
  <2>5. QED BY <1>4, <2>1, <2>2, <2>3, <2>4 DEF ThreadStep
<1>5. CASE UNCHANGED vars BY <1>5 DEF vars
<1>6. QED BY <1>1, <1>2, <1>3, <1>4, <1>5 DEF Next

-----------------------------------------------------------------------------
(* The driver starts in IInv.                                               *)
LEMMA InitiallyIInv == Init => IInv
<1> SUFFICES ASSUME Init PROVE IInv OBVIOUS
<1>1. TypeOK
  <2>1. 0 \in 0 .. MaxListens BY BoundsAssumption
  <2>2. <<>> \in Seq(Entries) OBVIOUS
  <2>3. /\ queue \in [Clients -> Seq(Entries)]
        /\ fListener \in [Clients -> 0 .. MaxListens]
        /\ listens \in [Clients -> 0 .. MaxListens]
        /\ lis \in [Threads -> Listeners \cup {NoListener}]
    BY <2>1, <2>2 DEF Init
  <2>4. /\ tpc \in [Clients -> [Callers -> {"idle", "unlisten", "sleep", "done"}]]
        /\ late \in [Clients -> SUBSET Threads] /\ loose \subseteq Listeners
    BY DEF Init
  <2>5. /\ uc \in [Clients -> {"none", "active", "inactive", "stopping", "stopped"}]
        /\ fDataQueue \in [Clients -> {"null", "live", "freed"}]
        /\ pc \in [Threads -> {"idle", "dispatched", "entered", "leaving"}]
    BY DEF Init
  <2>8. /\ registered \subseteq Listeners
        /\ gListenerInvocations \in Int
    BY DEF Init
  <2>9. panicked \in BOOLEAN BY Zenon DEF Init
  <2>6. /\ unloading \in BOOLEAN /\ owner \in Clients \cup {NoOne}
        /\ opening \in [Clients -> BOOLEAN]
        /\ port \in [Clients -> BOOLEAN]
        /\ notified \in [Clients -> BOOLEAN]
        /\ unannounced \in [Clients -> BOOLEAN]
    BY DEF Init
  <2>7. QED BY <2>3, <2>4, <2>5, <2>6, <2>8, <2>9 DEF TypeOK
<1>2. Inside = {} BY DEF Init, Inside
<1>3. CounterExact BY <1>2, FS_EmptySet DEF Init, CounterExact
<1>4. CookieInv
  BY DEF Init, CookieInv, ListenerTracked, Unlistened, InactiveIsQuiet, TerminatedByOne,
         QueueOfStopped, RunningHasListener, Gone, Callers
<1>5. QED BY <1>1, <1>3, <1>4 DEF IInv

(* IInv is an invariant of the driver with every client behaviour.          *)
THEOREM Invariance == Spec => []IInv
<1>1. Init => IInv BY InitiallyIInv
<1>2. IInv /\ [Next]_vars => IInv'
  <2> SUFFICES ASSUME IInv, [Next]_vars PROVE IInv' OBVIOUS
  <2>1. TypeOK' BY TypeStep DEF IInv
  <2>2. CounterExact' BY CounterStep DEF IInv
  <2>3. CookieInv' BY <2>1, CookieStep DEF IInv
  <2>4. QED BY <2>1, <2>2, <2>3 DEF IInv
<1>3. QED BY <1>1, <1>2, PTL DEF Spec

(* The driver's state stays well typed; in particular the queue holds only  *)
(* events and stop messages.                                                *)
THEOREM TypeCorrect == Spec => []TypeOK
<1>1. IInv => TypeOK BY DEF IInv
<1>2. QED BY <1>1, Invariance, PTL

(* gListenerInvocations counts the running callbacks exactly, with no       *)
(* assumption on clients, unloading or timing.                              *)
THEOREM CounterIsExact == Spec => []CounterExact
<1>1. IInv => CounterExact BY DEF IInv
<1>2. QED BY <1>1, Invariance, PTL

(* No callback runs with a released queue as its cookie but one that had    *)
(* not counted itself when the wait ended or that stopLogging() could not   *)
(* find: for any clients, threads, unloads and timing.                      *)
THEOREM QueueOutlivesCallbacks == Spec => []NoUseAfterFree
<1>1. IInv => NoUseAfterFree
  BY DEF IInv, CookieInv, InactiveIsQuiet, QueueOfStopped, RunningHasListener,
         Listeners, NoUseAfterFree, Gone
<1>2. QED BY <1>1, Invariance, PTL

(* A stopped user client has no listener left but one that was registered   *)
(* too late for its termination, or whose handle was overwritten.           *)
THEOREM ListenerGoneAfterStop == Spec => []NoListenerAfterStop
<1>1. IInv => NoListenerAfterStop
  BY DEF IInv, CookieInv, ListenerTracked, NoListenerAfterStop
<1>2. QED BY <1>1, Invariance, PTL

-----------------------------------------------------------------------------
(* vnodewatch on top of the driver.                                         *)

(* Where the two threads of a process are, and when the port is there.      *)
Places(c) ==
    /\ main[c] \in {"begin", "open", "opened", "create"} => handler[c] = "none"
    /\ handler[c] \in {"none", "port"} => ~port[c]
    /\ handler[c] \in {"map", "wait", "drain", "exit"} => port[c]

(* A first entry that came before the port is remembered as unannounced,    *)
(* one that came after it has left a notification, until the handler waits. *)
Announced(c) ==
    /\ main[c] \in {"begin", "open", "opened", "create"} \/ handler[c] = "port" =>
          unannounced[c] \/ queue[c] = <<>>
    /\ handler[c] \in {"map", "wait"} =>
          notified[c] \/ unannounced[c] \/ queue[c] = <<>>

WInv ==
    /\ WTypeOK /\ CounterExact /\ CookieInv
    /\ \A c \in Clients : Places(c) /\ Announced(c)

(* The driver's stop message is the last entry, unless something escaped.   *)
Ending == {"stopping", "stopped"}

StopOrder(c) ==
    /\ \A i \in 1 .. Len(queue[c]) : queue[c][i].kind = "stop" =>
          uc[c] \in Ending /\ (i = Len(queue[c]) \/ Escaped(c))
    /\ sawStop[c] = "stop" => uc[c] \in Ending /\ (queue[c] = <<>> \/ Escaped(c))

(* fListener is the only listener of a process, made by the second half of  *)
(* its open and gone for good when its own close has unregistered it.       *)
Listening(c) == \E l \in registered : l[1] = c

ListenerKept(c) ==
    /\ \A l \in registered : l[1] = c => fListener[c] = l[2]
    /\ main[c] \in {"begin", "open", "opened", "exit"} => ~Listening(c)
    /\ opening[c] => main[c] = "opened"
    /\ tpc[c]["clientClose"] # "idle" => main[c] \in {"close", "exit"}
    /\ tpc[c]["clientClose"] \in {"sleep", "done"} => ~Listening(c)

PInv == WInv /\ \A c \in Clients : StopOrder(c) /\ ListenerKept(c)

-----------------------------------------------------------------------------
(* Whatever vnodewatch does, it does with the driver what the driver's      *)
(* specification lets a client do; the handler touches the queue only while *)
(* it has its port.                                                         *)
LEMMA DriverStep ==
    ASSUME \A c \in Clients : Places(c), [WNext]_allVars
    PROVE  [Next]_vars
<1>1. ASSUME ~panicked, NEW c \in Clients, MainStep(c) PROVE [Next]_vars
  <2>1. CASE OpenService(c)
    BY <1>1, <2>1 DEF OpenService, Next, ClientCall
  <2>2. CASE CallOpen(c) BY <1>1, <2>2 DEF CallOpen, Next, ClientCall
  <2>3. CASE OpenReturns(c) BY <1>1, <2>3 DEF OpenReturns, Next, ClientCall
  <2>4. CASE CreateHandler(c) \/ Join(c) \/ Exit(c) BY <2>4 DEF CreateHandler, Join, Exit
  <2>5. CASE CloseService(c) BY <1>1, <2>5 DEF CloseService, Next, ClientCall
  <2>6. QED BY <1>1, <2>1, <2>2, <2>3, <2>4, <2>5 DEF MainStep
<1>2. ASSUME ~panicked, NEW c \in Clients, HandlerStep(c) PROVE [Next]_vars
  <2>1. CASE SetPort(c) BY <1>2, <2>1 DEF SetPort, Next, ClientCall
  <2>2. CASE MapMemory(c) BY <1>2, <2>2 DEF MapMemory, Next, ClientCall
  <2>3. CASE Wait(c)
    <3>1. port[c] BY <2>3 DEF Wait, GoHandler, Places
    <3>2. Consume(c) BY <2>3, <3>1 DEF Wait, Consume
    <3>3. QED BY <1>2, <3>2 DEF Next, ClientCall
  <2>4. CASE Drain(c)
    <3>1. CASE TakeHead(c)
      <4>1. port[c] BY <2>4 DEF Drain, GoHandler, Places
      <4>2. Consume(c) BY <3>1, <4>1 DEF TakeHead, Consume
      <4>3. QED BY <1>2, <4>2 DEF Next, ClientCall
    <3>2. CASE UNCHANGED vars BY <3>2
    <3>3. QED BY <2>4, <3>1, <3>2 DEF Drain
  <2>5. CASE HandlerExit(c) BY <1>2, <2>5 DEF HandlerExit, Next, ClientCall
  <2>6. QED BY <1>2, <2>1, <2>2, <2>3, <2>4, <2>5 DEF HandlerStep
<1>3. ASSUME ~panicked, NEW c \in Clients, WaitFails(c) \/ Killed(c) PROVE [Next]_vars
  BY <1>3 DEF WaitFails, Killed, Next, ClientCall
<1>4. ASSUME ~panicked, NEW c \in Clients, KernelStep(c) PROVE Next BY <1>4 DEF Next
<1>5. ASSUME ~panicked, NEW t \in Threads, ThreadStep(t) PROVE Next BY <1>5 DEF Next
<1>6. ASSUME ~panicked, Unload PROVE Next BY <1>6 DEF Next
<1>7. CASE UNCHANGED allVars BY <1>7 DEF allVars
<1>8. QED BY <1>1, <1>2, <1>3, <1>4, <1>5, <1>6, <1>7 DEF WNext, Terminated

(* What a step of the kernel or of a callback may do to the queue of c: add *)
(* an entry, announced if the queue was empty and the port is there.        *)
Grows(c) ==
    \E e \in Entries :
       /\ queue'[c] = Append(queue[c], e)
       /\ notified[c] => notified'[c]
       /\ unannounced[c] => unannounced'[c]
       /\ queue[c] = <<>> => IF port[c] THEN notified'[c] ELSE unannounced'[c]
       /\ \/ e = StopEntry /\ uc[c] = "inactive" /\ uc'[c] = "stopping"
          \/ e.kind = "event" /\ (uc[c] \in Ending => Escaped(c))

Stays(c) ==
    queue'[c] = queue[c] /\ notified'[c] = notified[c] /\ unannounced'[c] = unannounced[c]

LEMMA EnqueueGrows ==
    ASSUME TypeOK, NEW d \in Clients, NEW e \in Entries, Enqueue(d, e),
           \/ e = StopEntry /\ uc[d] = "inactive" /\ uc'[d] = "stopping"
           \/ e.kind = "event" /\ (uc[d] \in Ending => Escaped(d))
    PROVE  port' = port /\ \A c \in Clients : Grows(c) \/ Stays(c)
<1>1. CASE Len(queue[d]) < Capacity
  <2>1. \A c \in Clients \ {d} : Stays(c)
    BY <1>1 DEF Enqueue, TypeOK, Stays
  <2>2. /\ queue'[d] = Append(queue[d], e)
        /\ notified'[d] = (notified[d] \/ (queue[d] = <<>> /\ port[d]))
        /\ unannounced'[d] = (unannounced[d] \/ (queue[d] = <<>> /\ ~port[d]))
    BY <1>1 DEF Enqueue, TypeOK
  <2>3. Grows(d) BY <2>2 DEF Grows, TypeOK
  <2>4. QED BY <2>1, <2>3 DEF Enqueue
<1>2. CASE ~(Len(queue[d]) < Capacity)
  BY <1>2 DEF Enqueue, Stays
<1>3. QED BY <1>1, <1>2

LEMMA OthersStep ==
    ASSUME TypeOK, CookieInv,
           Unload \/ (\E c \in Clients : KernelStep(c)) \/ (\E t \in Threads : ThreadStep(t))
    PROVE  port' = port /\ \A c \in Clients : Grows(c) \/ Stays(c)
<1>1. CASE UNCHANGED queueVars BY <1>1 DEF Stays
<1>2. ASSUME NEW d \in Clients, KernelStep(d), ~UNCHANGED queueVars
      PROVE  port' = port /\ \A c \in Clients : Grows(c) \/ Stays(c)
  <2>1. Stop(d)
    BY <1>2 DEF KernelStep, TerminateBegin, StopListening, Release, SleepAgain, vars,
                TerminateEnd, Terminate
  <2>2. Enqueue(d, StopEntry) /\ uc[d] = "inactive" /\ uc'[d] = "stopping"
    BY <1>2, <2>1 DEF Stop, TypeOK
  <2>3. QED BY <2>2, EnqueueGrows, EntryType
<1>3. ASSUME NEW t \in Threads, ThreadStep(t), ~UNCHANGED queueVars
      PROVE  port' = port /\ \A c \in Clients : Grows(c) \/ Stays(c)
  <2>1. Report(t) BY <1>3 DEF ThreadStep, Dispatch, Enter, Leave
  <2>2. PICK pid \in Pids : Enqueue(lis[t][1], EventEntry(pid)) BY <1>3, <2>1 DEF Report
  <2>3. lis[t] \in Listeners /\ pc[t] # "idle"
    BY <2>1 DEF Report, CookieInv, RunningHasListener
  <2>4. lis[t][1] \in Clients BY <2>3 DEF Listeners
  <2>5. uc[lis[t][1]] \in Ending => Escaped(lis[t][1])
    BY <2>3, <2>4 DEF CookieInv, InactiveIsQuiet, Gone, Ending, Escaped
  <2>6. EventEntry(pid).kind = "event" BY DEF EventEntry
  <2>7. QED BY <2>2, <2>4, <2>5, <2>6, EnqueueGrows, EntryType
<1>4. CASE Unload BY <1>4 DEF Unload, Stays
<1>5. QED BY <1>1, <1>2, <1>3, <1>4

(* The steps of the two threads of a process, and what is killed with it,   *)
(* keep their places in order and each first entry announced.               *)
LEMMA AnnouncedStep ==
    ASSUME WInv, [WNext]_allVars, NEW c \in Clients
    PROVE  Places(c)' /\ Announced(c)'
<1> USE DEF WInv, WTypeOK, Places, Announced
<1>1. ASSUME NEW d \in Clients, MainStep(d) PROVE Places(c)' /\ Announced(c)'
  <2> USE DEF GoMain
  <2>1. CASE OpenService(d) BY <2>1 DEF OpenService, Start, TypeOK, vars
  <2>2. CASE CallOpen(d) BY <2>2 DEF CallOpen, OpenProvider, vars
  <2>3. CASE OpenReturns(d) BY <2>3 DEF OpenReturns, StartLogging
  <2>4. CASE CreateHandler(d) BY <2>4 DEF CreateHandler, vars
  <2>5. CASE Join(d) BY <2>5 DEF Join, vars
  <2>6. CASE CloseService(d) BY <2>6 DEF CloseService, TerminateBegin, progVars
  <2>7. CASE Exit(d) BY <2>7 DEF Exit, vars
  <2>8. QED BY <1>1, <2>1, <2>2, <2>3, <2>4, <2>5, <2>6, <2>7 DEF MainStep
<1>2. ASSUME NEW d \in Clients, HandlerStep(d) PROVE Places(c)' /\ Announced(c)'
  <2> USE DEF GoHandler, TypeOK
  <2>1. CASE SetPort(d) BY <2>1 DEF SetPort, RegisterNotificationPort, vars
  <2>2. CASE MapMemory(d) BY <2>2 DEF MapMemory, DestroyPort, vars
  <2>3. CASE Wait(d) BY <2>3 DEF Wait
  <2>4. CASE Drain(d)
    <3>1. CASE queue[d] = <<>> /\ GoHandler(d, "drain", "wait") /\ UNCHANGED vars
      BY <3>1 DEF vars
    <3>2. CASE TakeHead(d) /\ handler'[d] \in {"exit", "drain"} /\ main[d] = "join"
      BY <2>4, <3>2 DEF Drain, TakeHead
    <3>3. QED BY <2>4, <3>1, <3>2 DEF Drain
  <2>5. CASE HandlerExit(d) BY <2>5 DEF HandlerExit, DestroyPort
  <2>6. QED BY <1>2, <2>1, <2>2, <2>3, <2>4, <2>5 DEF HandlerStep
<1>3. ASSUME NEW d \in Clients, WaitFails(d) PROVE Places(c)' /\ Announced(c)'
  BY <1>3 DEF WaitFails, GoHandler, vars
<1>4. ASSUME NEW d \in Clients, Killed(d) PROVE Places(c)' /\ Announced(c)'
  BY <1>4 DEF Killed, DestroyPort, TypeOK
<1>5. ASSUME Unload \/ (\E d \in Clients : KernelStep(d)) \/ (\E t \in Threads : ThreadStep(t)),
             UNCHANGED progVars
      PROVE  Places(c)' /\ Announced(c)'
  <2>1. port' = port /\ (Grows(c) \/ Stays(c)) BY <1>5, OthersStep
  <2>2. Places(c)' BY <1>5, <2>1 DEF progVars
  <2>3. Announced(c)' BY <1>5, <2>1 DEF progVars, Grows, Stays, TypeOK
  <2>4. QED BY <2>2, <2>3
<1>6. CASE UNCHANGED allVars BY <1>6 DEF allVars, vars, progVars
<1>7. QED BY <1>1, <1>2, <1>3, <1>4, <1>5, <1>6 DEF WNext, Terminated

ProgramTypeOK ==
    /\ main \in [Clients -> MainPlaces]
    /\ handler \in [Clients -> HandlerPlaces]
    /\ sawStop \in [Clients -> {"no", "event", "stop"}]

LEMMA ProgramTypes ==
    ASSUME WInv, [WNext]_allVars
    PROVE  WTypeOK' /\ CounterExact' /\ CookieInv'
<1>1. [Next]_vars BY DriverStep DEF WInv
<1>2. TypeOK' /\ CounterExact' BY <1>1, TypeStep, CounterStep DEF WInv, WTypeOK
<1>6. CookieInv' BY <1>1, <1>2, CookieStep DEF WInv, WTypeOK
<1>3. gListenerInvocations' \in 0 .. Cardinality(Threads)
  <2>1. Inside' \subseteq Threads BY DEF Inside
  <2>2. /\ Cardinality(Inside') \in Nat /\ Cardinality(Threads) \in Nat
        /\ Cardinality(Inside') <= Cardinality(Threads)
    BY <2>1, ThreadsAssumption, FS_Subset, FS_CardinalityType
  <2>3. QED BY <1>2, <2>2 DEF CounterExact
<1>4. ProgramTypeOK'
  <2> USE DEF WInv, WTypeOK, ProgramTypeOK, MainPlaces, HandlerPlaces, GoMain, GoHandler
  <2>1. ASSUME NEW d \in Clients, MainStep(d) PROVE ProgramTypeOK'
    BY <2>1 DEF MainStep, OpenService, CallOpen, OpenReturns, CreateHandler, Join,
                CloseService, Exit, progVars
  <2>2. ASSUME NEW d \in Clients, HandlerStep(d) PROVE ProgramTypeOK'
    <3>1. CASE SetPort(d) \/ MapMemory(d) \/ Wait(d) \/ HandlerExit(d)
      BY <3>1 DEF SetPort, MapMemory, Wait, HandlerExit
    <3>2. CASE Drain(d)
      <4>1. CASE TakeHead(d)
        <5>1. queue[d] \in Seq(Entries) /\ queue[d] # <<>> BY <4>1 DEF TakeHead, TypeOK
        <5>2. Head(queue[d]) \in Entries BY <5>1
        <5>3. Head(queue[d]).kind \in {"event", "stop"} BY <5>2 DEF Entries
        <5>4. QED BY <3>2, <4>1, <5>3 DEF Drain
      <4>2. CASE GoHandler(d, "drain", "wait") /\ UNCHANGED sawStop BY <4>2
      <4>3. QED BY <3>2, <4>1, <4>2 DEF Drain
    <3>3. QED BY <2>2, <3>1, <3>2 DEF HandlerStep
  <2>3. ASSUME NEW d \in Clients, WaitFails(d) \/ Killed(d) PROVE ProgramTypeOK'
    BY <2>3 DEF WaitFails, Killed
  <2>4. CASE UNCHANGED progVars BY <2>4 DEF progVars
  <2>5. QED BY <2>1, <2>2, <2>3, <2>4 DEF WNext, Terminated, allVars
<1>5. QED BY <1>2, <1>3, <1>4, <1>6 DEF WTypeOK, ProgramTypeOK

LEMMA ProgramInit == WInit => WInv
<1> SUFFICES ASSUME WInit PROVE WInv OBVIOUS
<1>1. IInv BY InitiallyIInv DEF WInit
<1>2. gListenerInvocations \in 0 .. Cardinality(Threads)
  BY ThreadsAssumption, FS_CardinalityType DEF WInit, Init
<1>3. ProgramTypeOK BY DEF WInit, ProgramTypeOK, MainPlaces, HandlerPlaces
<1>4. \A c \in Clients : Places(c) /\ Announced(c)
  BY DEF WInit, Init, Places, Announced
<1>5. QED BY <1>1, <1>2, <1>3, <1>4 DEF WInv, WTypeOK, ProgramTypeOK, IInv

(* WInv is an invariant of vnodewatch, killed or not, whatever the          *)
(* environment of the driver does.                                          *)
LEMMA ProgramInvariance == WSpec => []WInv
<1>1. WInv /\ [WNext]_allVars => WInv' BY AnnouncedStep, ProgramTypes DEF WInv
<1>2. QED BY <1>1, ProgramInit, PTL DEF WSpec

(* The handler never sleeps over entries it has not been told of, except    *)
(* for those that came before its port.                                     *)
THEOREM NoWakeupIsMissed == WSpec => []NoMissedWakeup
<1>1. WInv => NoMissedWakeup BY DEF WInv, Announced, NoMissedWakeup
<1>2. QED BY <1>1, ProgramInvariance, PTL

(* vnodewatch uses the driver as its specification allows, so that what is  *)
(* proved of the driver holds of both together.                             *)
LEMMA ProgramUsesDriver == WSpec => Spec
<1>1. WInit => Init BY DEF WInit
<1>2. WInv /\ [WNext]_allVars => [Next]_vars BY DriverStep DEF WInv
<1>3. QED BY <1>1, <1>2, ProgramInvariance, PTL DEF WSpec, Spec

-----------------------------------------------------------------------------
(* What has escaped stays recorded, and a termination is never undone.      *)
LEMMA EscapesStay ==
    ASSUME WInv, [WNext]_allVars, NEW c \in Clients
    PROVE  (Escaped(c) => Escaped(c)') /\ (uc[c] \in Ending => uc'[c] \in Ending)
<1>1. [Next]_vars BY DriverStep DEF WInv
<1>t. TypeOK BY DEF WInv, WTypeOK
<1>2. loose \subseteq loose' /\ late[c] \subseteq late'[c]
  <2> USE DEF TypeOK
  <2>1. ASSUME NEW d \in Clients, ClientCall(d) PROVE loose \subseteq loose' /\ late' = late
    BY <2>1 DEF ClientCall, Start, OpenProvider, StartLogging, Close, RegisterNotificationPort,
       TerminateBegin, Consume, DestroyPort
  <2>2. ASSUME NEW d \in Clients, KernelStep(d) PROVE loose' = loose /\ late[c] \subseteq late'[c]
    <3>1. CASE \E w \in Callers : TerminateEnd(d, w)
      BY <1>t, <3>1 DEF TerminateEnd, Terminate
    <3>2. CASE UNCHANGED <<loose, late>> BY <3>2
    <3>3. QED
      BY <2>2, <3>1, <3>2 DEF KernelStep, TerminateBegin, Stop, Release, StopListening,
                               SleepAgain, vars
  <2>3. ASSUME NEW t \in Threads, ThreadStep(t) PROVE UNCHANGED <<loose, late>>
    BY <2>3 DEF ThreadStep, Dispatch, Enter, Report, Leave
  <2>4. CASE Unload \/ UNCHANGED vars BY <2>4 DEF Unload, vars
  <2>5. QED BY <1>1, <2>1, <2>2, <2>3, <2>4 DEF Next
<1>u. uc[c] \in Ending => uc'[c] \in Ending
  <2> USE DEF TypeOK, Ending
  <2>1. ASSUME NEW d \in Clients, ClientCall(d) PROVE uc[c] \in Ending => uc'[c] \in Ending
    BY <1>t, <2>1 DEF ClientCall, Start, OpenProvider, StartLogging, Close,
       RegisterNotificationPort, TerminateBegin, Consume, DestroyPort
  <2>2. ASSUME NEW d \in Clients, KernelStep(d) PROVE uc[c] \in Ending => uc'[c] \in Ending
    BY <1>t, <2>2 DEF KernelStep, TerminateBegin, Stop, Release, StopListening, SleepAgain,
                     vars, TerminateEnd, Terminate
  <2>3. ASSUME NEW t \in Threads, ThreadStep(t) PROVE UNCHANGED uc
    BY <2>3 DEF ThreadStep, Dispatch, Enter, Report, Leave
  <2>4. CASE Unload \/ UNCHANGED vars BY <2>4 DEF Unload, vars
  <2>5. QED BY <1>1, <2>1, <2>2, <2>3, <2>4 DEF Next
<1>3. QED BY <1>2, <1>u DEF Escaped

LEMMA StopOrderStep ==
    ASSUME WInv, [WNext]_allVars, NEW c \in Clients, StopOrder(c)
    PROVE  StopOrder(c)'
<1> USE DEF StopOrder
<1>a. queue[c] \in Seq(Entries) BY DEF WInv, WTypeOK, TypeOK
<1>b. (Escaped(c) => Escaped(c)') /\ (uc[c] \in Ending => uc'[c] \in Ending)
  BY EscapesStay
<1>2. ASSUME sawStop'[c] = sawStop[c], queue'[c] = queue[c] PROVE StopOrder(c)'
  BY <1>b, <1>2
<1>3. ASSUME NEW d \in Clients, MainStep(d) PROVE UNCHANGED <<sawStop, queue>>
  BY <1>3 DEF MainStep, OpenService, Start, CallOpen, OpenProvider, OpenReturns, StartLogging,
     CreateHandler, Join, CloseService, TerminateBegin, Exit, GoMain, vars, progVars
<1>4. ASSUME NEW d \in Clients,
             SetPort(d) \/ MapMemory(d) \/ Wait(d) \/ HandlerExit(d) \/ WaitFails(d) \/ Killed(d)
      PROVE  UNCHANGED <<sawStop, queue>>
  BY <1>4 DEF SetPort, RegisterNotificationPort, MapMemory, Wait, HandlerExit, WaitFails,
     Killed, DestroyPort, GoHandler, vars
<1>5. ASSUME NEW d \in Clients, Drain(d) PROVE StopOrder(c)'
  <2>1. CASE queue[d] = <<>> /\ UNCHANGED <<vars, sawStop>> BY <1>2, <2>1 DEF vars
  <2>2. CASE d # c /\ TakeHead(d)
    <3>1. queue'[c] = queue[c] /\ sawStop'[c] = sawStop[c]
      BY <1>5, <2>2 DEF TakeHead, Drain, vars, WInv, WTypeOK, TypeOK
    <3>2. QED BY <1>2, <3>1
  <2>3. CASE d = c /\ TakeHead(c)
    <3>1. queue[c] # <<>> /\ queue'[c] = Tail(queue[c])
      BY <2>3 DEF TakeHead, WInv, WTypeOK, TypeOK
    <3>2. /\ Len(queue[c]) \in Nat /\ Len(queue[c]) >= 1 /\ Head(queue[c]) = queue[c][1]
          /\ Len(queue'[c]) = Len(queue[c]) - 1
          /\ \A i \in 1 .. Len(queue'[c]) : queue'[c][i] = queue[c][i + 1]
          /\ Len(queue'[c]) = 0 => queue'[c] = <<>>
      BY <1>a, <3>1
    <3>3. \A i \in 1 .. Len(queue'[c]) : queue'[c][i].kind = "stop" =>
             uc[c] \in Ending /\ (i = Len(queue'[c]) \/ Escaped(c))
      BY <3>2
    <3>4. sawStop'[c] = "stop" => sawStop[c] = "stop" \/ Head(queue[c]).kind = "stop"
      BY <1>5, <2>3, <3>1 DEF Drain, WInv, WTypeOK, vars
    <3>5. sawStop'[c] = "stop" => uc[c] \in Ending /\ (queue'[c] = <<>> \/ Escaped(c))
      BY <3>1, <3>2, <3>4
    <3>6. QED BY <1>b, <3>3, <3>5
  <2>4. QED BY <1>5, <2>1, <2>2, <2>3 DEF Drain
<1>6. ASSUME Unload \/ (\E d \in Clients : KernelStep(d)) \/ (\E t \in Threads : ThreadStep(t)),
             UNCHANGED progVars
      PROVE  StopOrder(c)'
  <2>1. Grows(c) \/ Stays(c) BY <1>6, OthersStep DEF WInv, WTypeOK
  <2>2. CASE Stays(c) BY <1>2, <1>6, <2>2 DEF Stays, progVars
  <2>3. CASE Grows(c)
    <3>1. PICK e \in Entries :
             /\ queue'[c] = Append(queue[c], e)
             /\ \/ e = StopEntry /\ uc[c] = "inactive" /\ uc'[c] = "stopping"
                \/ e.kind = "event" /\ (uc[c] \in Ending => Escaped(c))
      BY <2>3 DEF Grows
    <3>2. /\ Len(queue[c]) \in Nat /\ Len(queue'[c]) = Len(queue[c]) + 1
          /\ \A i \in 1 .. Len(queue'[c]) :
                \/ i \in 1 .. Len(queue[c]) /\ queue'[c][i] = queue[c][i]
                \/ i = Len(queue'[c]) /\ queue'[c][i] = e
      BY <1>a, <3>1
    <3>3. CASE e = StopEntry /\ uc[c] = "inactive" /\ uc'[c] = "stopping"
      <4>1. uc[c] \notin Ending /\ uc'[c] \in Ending BY <3>3 DEF Ending
      <4>2. \A i \in 1 .. Len(queue[c]) : queue[c][i].kind # "stop" BY <4>1
      <4>3. sawStop'[c] # "stop" BY <1>6, <4>1 DEF progVars
      <4>4. \A i \in 1 .. Len(queue'[c]) :
               queue'[c][i].kind = "stop" => i = Len(queue'[c])
        BY <3>2, <4>2
      <4>5. QED BY <4>1, <4>3, <4>4
    <3>4. CASE e.kind = "event" /\ (uc[c] \in Ending => Escaped(c))
      <4>1. \A i \in 1 .. Len(queue'[c]) : queue'[c][i].kind = "stop" =>
               uc[c] \in Ending /\ Escaped(c)
        BY <3>2, <3>4
      <4>2. sawStop'[c] = "stop" => uc[c] \in Ending /\ Escaped(c)
        BY <1>6, <3>4 DEF progVars
      <4>3. QED BY <1>b, <4>1, <4>2
    <3>5. QED BY <3>1, <3>3, <3>4
  <2>4. QED BY <2>1, <2>2, <2>3
<1>7. CASE UNCHANGED allVars BY <1>2, <1>7 DEF allVars, vars, progVars
<1>8. QED BY <1>2, <1>3, <1>4, <1>5, <1>6, <1>7 DEF WNext, HandlerStep, Terminated

LEMMA ListenerKeptStep ==
    ASSUME WInv, [WNext]_allVars, NEW c \in Clients, ListenerKept(c)
    PROVE  ListenerKept(c)'
<1> USE DEF ListenerKept, Listening
<1>a. TypeOK BY DEF WInv, WTypeOK
<1>2. ASSUME UNCHANGED <<registered, fListener, opening, tpc>>, UNCHANGED main
      PROVE  ListenerKept(c)'
  BY <1>2
<1>3. ASSUME NEW d \in Clients, MainStep(d) PROVE ListenerKept(c)'
  <2> USE DEF GoMain
  <2>t. main \in [Clients -> MainPlaces] BY DEF WInv, WTypeOK
  <2>1. CASE OpenService(d) BY <2>1, <2>t DEF OpenService, Start, vars
  <2>2. CASE CallOpen(d)
    BY <2>2, <2>t, <1>a DEF CallOpen, OpenProvider, vars, TypeOK
  <2>3. CASE OpenReturns(d)
    <3>1. main[d] = "opened" /\ main' = [main EXCEPT ![d] = main'[d]]
          /\ main'[d] \in {"close", "create"} /\ opening' = [opening EXCEPT ![d] = FALSE]
          /\ tpc' = tpc
      BY <2>3, <2>t DEF OpenReturns, StartLogging
    <3>2. CASE d = c
      <4>1. \A l \in registered' : l[1] = c => fListener'[c] = l[2]
        BY <2>3, <3>1, <3>2, <1>a DEF OpenReturns, StartLogging, TypeOK
      <4>2. ~opening'[c] BY <3>1, <3>2, <1>a DEF TypeOK
      <4>3. tpc'[c]["clientClose"] = "idle" BY <3>1, <3>2
      <4>4. main'[c] \in {"close", "create"} BY <3>1, <3>2
      <4>5. QED BY <4>1, <4>2, <4>3, <4>4
    <3>3. CASE d # c
      <4>1. \A l \in registered' : l[1] = c => l \in registered
        BY <2>3, <3>3 DEF OpenReturns, StartLogging
      <4>2. fListener'[c] = fListener[c] /\ opening'[c] = opening[c] /\ main'[c] = main[c]
        BY <2>3, <3>1, <3>3, <2>t, <1>a DEF OpenReturns, StartLogging, TypeOK
      <4>3. QED BY <3>1, <4>1, <4>2
    <3>4. QED BY <3>2, <3>3
  <2>4. CASE CreateHandler(d) BY <2>4, <2>t DEF CreateHandler, vars
  <2>5. CASE Join(d) BY <2>5, <2>t DEF Join, vars
  <2>6. CASE CloseService(d)
    BY <2>6, <1>a DEF CloseService, TerminateBegin, progVars, TypeOK, Callers
  <2>7. CASE Exit(d) BY <2>7, <2>t DEF Exit, vars
  <2>8. QED BY <1>3, <2>1, <2>2, <2>3, <2>4, <2>5, <2>6, <2>7 DEF MainStep
<1>4. ASSUME NEW d \in Clients, HandlerStep(d) \/ WaitFails(d) PROVE ListenerKept(c)'
  <2>1. UNCHANGED <<registered, fListener, opening, tpc>> /\ UNCHANGED main
    BY <1>4 DEF HandlerStep, SetPort, RegisterNotificationPort, MapMemory, Wait, Drain,
       TakeHead, HandlerExit, WaitFails, DestroyPort, GoHandler, vars
  <2>2. QED BY <1>2, <2>1
<1>5. ASSUME NEW d \in Clients, Killed(d) PROVE ListenerKept(c)'
  <2>1. main \in [Clients -> MainPlaces] BY DEF WInv, WTypeOK
  <2>2. QED BY <1>5, <2>1 DEF Killed, DestroyPort
<1>6. ASSUME NEW d \in Clients, KernelStep(d), UNCHANGED progVars PROVE ListenerKept(c)'
  <2>1. CASE TerminateBegin(d, "unload")
    BY <2>1, <1>6, <1>a DEF TerminateBegin, progVars, TypeOK, Callers
  <2>2. CASE Stop(d) \/ Release(d) BY <1>2, <1>6, <2>2 DEF Stop, Release, progVars
  <2>3. ASSUME NEW w \in Callers, StopListening(d, w) PROVE ListenerKept(c)'
    <3>1. registered' \subseteq registered BY <2>3 DEF StopListening
    <3>2. \A l \in registered' : l \in Listeners BY <3>1, <1>a DEF TypeOK
    <3>3. \A l \in registered' : l[1] = d => d # c
      BY <2>3, <3>1, <3>2 DEF StopListening, Listeners
    <3>4. CASE d = c
      BY <2>3, <3>1, <3>3, <3>4, <1>6, <1>a DEF StopListening, progVars, TypeOK, Callers
    <3>5. CASE d # c
      BY <2>3, <3>1, <3>5, <1>6, <1>a DEF StopListening, progVars, TypeOK, Callers
    <3>6. QED BY <3>4, <3>5
  <2>4. ASSUME NEW w \in Callers, TerminateEnd(d, w) PROVE ListenerKept(c)'
    BY <2>4, <1>6, <1>a DEF TerminateEnd, Terminate, progVars, TypeOK, Callers
  <2>5. ASSUME NEW w \in Callers, SleepAgain(d, w) PROVE ListenerKept(c)'
    BY <1>2, <1>6, <2>5 DEF SleepAgain, vars, progVars
  <2>6. QED BY <1>6, <2>1, <2>2, <2>3, <2>4, <2>5 DEF KernelStep
<1>7. ASSUME NEW t \in Threads, ThreadStep(t), UNCHANGED progVars PROVE ListenerKept(c)'
  BY <1>2, <1>7 DEF ThreadStep, Dispatch, Enter, Report, Leave, progVars
<1>8. ASSUME Unload, UNCHANGED progVars PROVE ListenerKept(c)'
  BY <1>2, <1>8 DEF Unload, progVars
<1>9. CASE UNCHANGED allVars BY <1>2, <1>9 DEF allVars, vars, progVars
<1>10. QED BY <1>3, <1>4, <1>5, <1>6, <1>7, <1>8, <1>9 DEF WNext, Terminated

LEMMA WatchInvariance == WSpec => []PInv
<1>1. WInit => PInv
  <2> SUFFICES ASSUME WInit PROVE PInv OBVIOUS
  <2>1. \A c \in Clients : StopOrder(c) BY DEF WInit, Init, StopOrder
  <2>2. \A c \in Clients : ListenerKept(c)
    BY DEF WInit, Init, ListenerKept, Listening, Callers
  <2>3. QED BY <2>1, <2>2, ProgramInit DEF PInv
<1>2. PInv /\ [WNext]_allVars => PInv'
  <2> SUFFICES ASSUME PInv, [WNext]_allVars PROVE PInv' OBVIOUS
  <2>1. WInv' BY AnnouncedStep, ProgramTypes DEF PInv, WInv
  <2>2. \A c \in Clients : StopOrder(c)' BY StopOrderStep DEF PInv
  <2>3. \A c \in Clients : ListenerKept(c)' BY ListenerKeptStep DEF PInv
  <2>4. QED BY <2>1, <2>2, <2>3 DEF PInv
<1>3. QED BY <1>1, <1>2, PTL DEF WSpec

(* For any clients, threads and pids on either kind of machine, killed or   *)
(* not: a handler that ends on the driver's own stop message has read all   *)
(* the driver accepted, unless a callback escaped the wait.                 *)
THEOREM StopIsRead == WSpec => []StopComesLast
<1>1. PInv => StopComesLast BY DEF PInv, StopOrder, StopComesLast
<1>2. QED BY <1>1, WatchInvariance, PTL

(* An unload in the middle of an open() leaves a listener behind its stop,  *)
(* but none outlives the process.                                           *)
THEOREM NoListenerIsLeft == WSpec => []NoListenerAfterExit
<1>1. PInv => NoListenerAfterExit
  <2> SUFFICES ASSUME PInv, NEW l \in registered, main[l[1]] = "exit" PROVE FALSE
    BY DEF NoListenerAfterExit
  <2>1. l[1] \in Clients
    BY DEF PInv, WInv, WTypeOK, TypeOK, Listeners
  <2>2. QED BY <2>1 DEF PInv, ListenerKept, Listening
<1>2. QED BY <1>1, WatchInvariance, PTL
=============================================================================
