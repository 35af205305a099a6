------------------------- MODULE MachSemaphoreProofs ------------------------
(***************************************************************************)
(* MachSemaphore for any finite set of threads, prompt or not.  main()     *)
(* tells the reports of its threads apart only by counting them: the proof *)
(* keeps the balance of reports and waits (ReportsMatch) beside what each  *)
(* place of main() says about the threads (Phases).                        *)
(***************************************************************************)
EXTENDS MachSemaphore, FiniteSetTheorems, TLAPS

(* Both sets of reporters are finite and no larger than Threads.            *)
LEMMA Sizes ==
    /\ N \in Nat \ {0}
    /\ IsFiniteSet(Reported) /\ Cardinality(Reported) \in 0 .. N
    /\ Cardinality(Reported) = N => Reported = Threads
    /\ IsFiniteSet(Done) /\ Cardinality(Done) \in 0 .. N
    /\ Cardinality(Done) = N => Done = Threads
<1>1. /\ N \in Nat
      /\ Reported \subseteq Threads /\ Done \subseteq Threads
  BY ThreadsAssumption, FS_CardinalityType DEF N, Reported, Done
<1>2. N # 0
  BY ThreadsAssumption, FS_EmptySet DEF N
<1>3. /\ IsFiniteSet(Reported) /\ Cardinality(Reported) <= N
      /\ Cardinality(Reported) = N => Reported = Threads
      /\ IsFiniteSet(Done) /\ Cardinality(Done) <= N
      /\ Cardinality(Done) = N => Done = Threads
  BY <1>1, ThreadsAssumption, FS_Subset DEF N
<1>4. Cardinality(Reported) \in Nat /\ Cardinality(Done) \in Nat
  BY <1>3, FS_CardinalityType
<1> QED BY <1>1, <1>2, <1>3, <1>4

(* A report of t, first or second, makes one of the sets larger by one.     *)
LEMMA ReportCounts ==
    ASSUME TypeOK, NEW t \in Threads, NEW from, NEW to, Report(t, from, to),
           \/ from = "report" /\ to = "wait"
           \/ from = "woken" /\ to = "done"
    PROVE  Cardinality(Reported') + Cardinality(Done')
             = Cardinality(Reported) + Cardinality(Done) + 1
<1>1. CASE from = "report"
  <2>1. Reported' = Reported \cup {t} /\ Done' = Done /\ t \notin Reported
    BY <1>1 DEF TypeOK, Report, Reported, Done
  <2>2. Cardinality(Reported \cup {t}) = Cardinality(Reported) + 1
    BY <2>1, Sizes, FS_AddElement
  <2>3. Cardinality(Reported') = Cardinality(Reported) + 1 /\ Cardinality(Done') = Cardinality(Done)
    BY <2>1, <2>2
  <2> QED BY <2>3, Sizes
<1>2. CASE from = "woken"
  <2>1. Reported' = Reported /\ Done' = Done \cup {t} /\ t \notin Done
    BY <1>2 DEF TypeOK, Report, Reported, Done
  <2>2. Cardinality(Done \cup {t}) = Cardinality(Done) + 1
    BY <2>1, Sizes, FS_AddElement
  <2>3. Cardinality(Done') = Cardinality(Done) + 1 /\ Cardinality(Reported') = Cardinality(Reported)
    BY <2>1, <2>2
  <2> QED BY <2>3, Sizes
<1> QED BY <1>1, <1>2

(* Steps that only move threads between places with the same reports.       *)
LEMMA WakeCounts ==
    ASSUME TypeOK, NEW ts, Wake(ts)
    PROVE  Reported' = Reported /\ Done' = Done
BY DEF TypeOK, Wake, Reported, Done

(* What TypeOK says of the steps.                                           *)
LEMMA TypeStep == TypeOK /\ Phases /\ [Next]_vars => TypeOK'
<1> SUFFICES ASSUME TypeOK, Phases, [Next]_vars PROVE TypeOK'
  OBVIOUS
<1> USE Sizes
<1>1. CASE Create BY <1>1 DEF Create, TypeOK, MainPlaces
<1>2. ASSUME NEW t \in Threads, Spawn(t) PROVE TypeOK'
  BY <1>2 DEF Spawn, TypeOK, MainPlaces, ThreadPlaces, N
<1>3. ASSUME NEW p, NEW next, MainWait(p, next), next \in MainPlaces,
             p \in {"ready", "waitLast", "waitRest"}
      PROVE  TypeOK'
  BY <1>3 DEF MainWait, TypeOK, Phases
<1>4. ASSUME NEW ts, Wake(ts), main' \in MainPlaces, left' \in 0 .. N, count' = count
      PROVE  TypeOK'
  BY <1>4 DEF Wake, TypeOK, ThreadPlaces
<1>5. CASE SignalThread BY <1>4, <1>5 DEF SignalThread, MainPlaces
<1>6. CASE SignalAll BY <1>4, <1>6 DEF SignalAll, MainPlaces, N
<1>7. CASE Out BY <1>7 DEF Out, TypeOK, MainPlaces
<1>8. ASSUME NEW t \in Threads, NEW from, NEW to, Report(t, from, to),
             from # "waiting", to \in {"wait", "done"}
      PROVE  TypeOK'
  BY <1>8 DEF Report, TypeOK, ThreadPlaces
<1>9. ASSUME NEW t \in Threads, Wait(t) PROVE TypeOK'
  BY <1>9 DEF Wait, TypeOK, ThreadPlaces
<1>10. CASE UNCHANGED vars BY <1>10 DEF vars, TypeOK
<1> QED
  BY <1>1, <1>2, <1>3, <1>5, <1>6, <1>7, <1>8, <1>9, <1>10
  DEF Next, MainStep, ThreadStep, Exited, MainPlaces

LEMMA IInvStep == IInv /\ [Next]_vars => IInv'
<1> SUFFICES ASSUME IInv, [Next]_vars PROVE IInv'
  OBVIOUS
<1> USE Sizes
<1>0. TypeOK /\ ReportsMatch /\ Phases /\ NoneLeftWaiting
  BY DEF IInv
<1>t. TypeOK' BY <1>0, TypeStep
<1> SUFFICES (ReportsMatch /\ Phases /\ NoneLeftWaiting)'
  BY <1>t DEF IInv
<1>1. CASE Create
  <2>1. Reported' = Reported /\ Done' = Done
    BY <1>1 DEF Create, Reported, Done
  <2>2. ReportsMatch'
    BY <1>0, <1>1, <2>1, ThreadsAssumption DEF Create, ReportsMatch, Taken, Phases
  <2> QED BY <1>0, <1>1, <2>2, ThreadsAssumption DEF Create, Phases, NoneLeftWaiting, MainPlaces, Through, Created
<1>2. ASSUME NEW t \in Threads, Spawn(t) PROVE (ReportsMatch /\ Phases /\ NoneLeftWaiting)'
  <2>1. Reported' = Reported /\ Done' = Done
    BY <1>0, <1>2 DEF Spawn, Reported, Done, TypeOK
  <2>2. ReportsMatch'
    BY <1>0, <1>2, <2>1 DEF Spawn, ReportsMatch, Taken, N
  <2>3. Phases' /\ NoneLeftWaiting'
    BY <1>0, <1>2, ThreadsAssumption DEF Spawn, Phases, NoneLeftWaiting, MainPlaces, Through, Created, TypeOK, N
  <2> QED BY <2>2, <2>3
<1>3. CASE MainWait("ready", "signalThread")
  <2>1. Reported' = Reported /\ Done' = Done
    BY <1>3 DEF MainWait, Reported, Done
  <2>2. ReportsMatch'
    BY <1>0, <1>3, <2>1 DEF MainWait, ReportsMatch, Taken, TypeOK, Phases
  <2>3. CASE left = 1
    <3>1. Done = {}
      BY <1>0, <1>3 DEF MainWait, Phases, Through, Created, Done
    <3>2. Cardinality(Reported) = N
      BY <1>0, <1>3, <2>3, <3>1, FS_EmptySet DEF MainWait, ReportsMatch, Taken, TypeOK
    <3>3. Created
      BY <3>2 DEF Reported, Created
    <3> QED BY <1>0, <1>3, <2>2, <2>3, <3>3 DEF MainWait, Phases, NoneLeftWaiting, MainPlaces, Through, Created, TypeOK
  <2>4. CASE left # 1
    BY <1>0, <1>3, <2>2, <2>4 DEF MainWait, Phases, NoneLeftWaiting, MainPlaces, Through, Created, TypeOK
  <2> QED BY <2>3, <2>4
<1>4. CASE MainWait("waitLast", "signalAll")
  <2>1. Reported' = Reported /\ Done' = Done
    BY <1>4 DEF MainWait, Reported, Done
  <2>2. left = 1 /\ main' = "signalAll" /\ count >= 1
    BY <1>0, <1>4 DEF MainWait, Phases, TypeOK
  <2>3. Cardinality(Done) >= 1
    BY <1>0, <1>4, <2>2 DEF MainWait, ReportsMatch, Taken, TypeOK
  <2>4. PICK t \in Done : TRUE
    BY <2>3, FS_EmptySet
  <2>5. pc[Last] = "done"
    BY <1>0, <1>4, <2>4 DEF MainWait, Phases, Done, Through, Created
  <2> QED BY <1>0, <1>4, <2>1, <2>2, <2>5 DEF MainWait, ReportsMatch, Taken, Phases, NoneLeftWaiting, MainPlaces, Through, Created, TypeOK
<1>5. CASE MainWait("waitRest", "out")
  <2>1. Reported' = Reported /\ Done' = Done
    BY <1>5 DEF MainWait, Reported, Done
  <2>2. ReportsMatch'
    BY <1>0, <1>5, <2>1, ThreadsAssumption DEF MainWait, ReportsMatch, Taken, Phases, TypeOK, MainPlaces
  <2>3. CASE left = 1
    <3>1. Cardinality(Done) = N
      BY <1>0, <1>5, <2>3 DEF MainWait, ReportsMatch, Taken, TypeOK
    <3>2. \A t \in Threads : pc[t] = "done"
      BY <3>1 DEF Done
    <3> QED BY <1>0, <1>5, <2>2, <2>3, <3>2 DEF MainWait, Phases, NoneLeftWaiting, MainPlaces
  <2>4. CASE left # 1
    BY <1>0, <1>5, <2>2, <2>4 DEF MainWait, Phases, NoneLeftWaiting, MainPlaces, Through, Created, TypeOK
  <2> QED BY <2>3, <2>4
<1>6. CASE SignalThread
  <2>1. Reported' = Reported /\ Done' = Done
    BY <1>0, <1>6, WakeCounts DEF SignalThread
  <2>2. ReportsMatch'
    BY <1>0, <1>6, <2>1 DEF SignalThread, ReportsMatch, Taken
  <2> QED BY <1>0, <1>6, <2>2 DEF SignalThread, Wake, Phases, NoneLeftWaiting, MainPlaces, Through, Created, TypeOK
<1>7. CASE SignalAll
  <2>1. Reported' = Reported /\ Done' = Done
    BY <1>0, <1>7, WakeCounts DEF SignalAll
  <2>2. Threads = {Last} => N = 1
    BY FS_Singleton DEF N
  <2>3. Threads # {Last} => N # 1
    BY FS_Singleton, ThreadsAssumption DEF N
  <2>4. pc'[Last] = "done"
    BY <1>0, <1>7, ThreadsAssumption DEF SignalAll, Wake, TypeOK, Phases
  <2>5. ReportsMatch'
    BY <1>0, <1>7, <2>1, <2>2, <2>4 DEF SignalAll, ReportsMatch, Taken, N
  <2>6. NoneLeftWaiting'
    BY <1>7, <2>4 DEF SignalAll, NoneLeftWaiting
  <2>7. Phases'
    BY <1>0, <1>7, <2>3, <2>4 DEF SignalAll, Wake, Phases, MainPlaces, Through, Created, TypeOK, N
  <2> QED BY <2>5, <2>6, <2>7
<1>8. CASE Out
  <2>1. Reported' = Reported /\ Done' = Done
    BY <1>8 DEF Out, Reported, Done
  <2> QED BY <1>0, <1>8, <2>1 DEF Out, ReportsMatch, Taken, Phases, NoneLeftWaiting, MainPlaces
<1>9. ASSUME NEW t \in Threads, NEW from, NEW to, Report(t, from, to), main # "exit",
             \/ from = "report" /\ to = "wait"
             \/ from = "woken" /\ to = "done"
      PROVE (ReportsMatch /\ Phases /\ NoneLeftWaiting)'
  <2>0. Taken' = Taken
    BY <1>0, <1>9, ThreadsAssumption DEF Report, Taken, TypeOK, N
  <2>a. Cardinality(Reported') + Cardinality(Done')
          = Cardinality(Reported) + Cardinality(Done) + 1
    BY <1>0, <1>9, ReportCounts
  <2>b. count' = count + 1 /\ count + Taken = Cardinality(Reported) + Cardinality(Done)
    BY <1>0, <1>9 DEF Report, ReportsMatch
  <2>c. Taken \in Int
    BY <1>0 DEF Taken, TypeOK, MainPlaces
  <2>1. ReportsMatch'
    BY <1>0, <2>0, <2>a, <2>b, <2>c DEF ReportsMatch, TypeOK
  <2>2. Phases' /\ NoneLeftWaiting'
    BY <1>0, <1>9 DEF Report, Phases, NoneLeftWaiting, MainPlaces, Through, Created, TypeOK
  <2> QED BY <2>1, <2>2
<1>10. ASSUME NEW t \in Threads, Wait(t), main # "exit"
       PROVE (ReportsMatch /\ Phases /\ NoneLeftWaiting)'
  <2>1. Reported' = Reported /\ Done' = Done
    BY <1>0, <1>10 DEF Wait, Reported, Done, TypeOK
  <2>3. Taken' = Taken /\ count' = count
    BY <1>0, <1>10, ThreadsAssumption DEF Wait, Taken, TypeOK, N
  <2>2. ReportsMatch'
    BY <1>0, <2>1, <2>3 DEF ReportsMatch
  <2> QED BY <1>0, <1>10, <2>2 DEF Wait, Phases, NoneLeftWaiting, MainPlaces, Through, Created, TypeOK
<1>11. CASE UNCHANGED vars
  <2>1. Taken' = Taken /\ count' = count /\ Reported' = Reported /\ Done' = Done
    BY <1>11 DEF vars, Taken, Reported, Done, N
  <2>2. ReportsMatch' BY <1>0, <2>1 DEF ReportsMatch
  <2> QED BY <1>0, <1>11, <2>2 DEF vars, Phases, NoneLeftWaiting, Through, Created
<1> QED
  BY <1>1, <1>2, <1>3, <1>4, <1>5, <1>6, <1>7, <1>8, <1>9, <1>10, <1>11
  DEF Next, MainStep, ThreadStep, Exited

LEMMA IInvInit == Init => IInv
<1> SUFFICES ASSUME Init PROVE IInv
  OBVIOUS
<1>1. Reported = {} /\ Done = {}
  BY DEF Init, Reported, Done
<1>2. Cardinality(Reported) = 0 /\ Cardinality(Done) = 0
  BY <1>1, FS_EmptySet
<1> QED BY <1>2, Sizes DEF Init, IInv, TypeOK, ReportsMatch, Taken, Phases, NoneLeftWaiting, MainPlaces, ThreadPlaces, Through, Created

(* Every reachable state satisfies the inductive invariant.                 *)
THEOREM Invariance == Spec => []IInv
<1>1. IInv /\ [Next]_vars => IInv' BY IInvStep
<1> QED BY IInvInit, <1>1, PTL DEF Spec

(* semaphore_signal_thread lets thread3 alone through, whatever the order   *)
(* in which the threads run: the others pass only after it is done.         *)
THEOREM LastGoesFirst == Spec => []OthersAfterLast
<1>1. IInv => OthersAfterLast
  BY ThreadsAssumption DEF IInv, Phases, TypeOK, OthersAfterLast, Through, Created, MainPlaces, NoneLeftWaiting
<1> QED BY Invariance, <1>1, PTL

(* If main() gets to its end, no thread still needs the semaphores it then  *)
(* destroys.                                                                *)
THEOREM DestroyedWhenUnused == Spec => []NoneLeftWaiting
<1>1. IInv => NoneLeftWaiting BY DEF IInv
<1> QED BY Invariance, <1>1, PTL

(* Only main() with all its threads created gets past its first waits: after *)
(* a pthread_create that failed it signals nobody and destroys nothing.      *)
THEOREM NoThreadMissing ==
    Spec => [](main \in {"signalThread", "waitLast", "signalAll", "waitRest", "out", "exit"} => Created)
<1>1. IInv => (main \in {"signalThread", "waitLast", "signalAll", "waitRest", "out", "exit"} => Created)
  BY DEF IInv, Phases, NoneLeftWaiting, Created
<1> QED BY Invariance, <1>1, PTL

(* No report is used for two waits of main(), and none is lost.             *)
THEOREM Balance == Spec => []ReportsMatch
<1>1. IInv => ReportsMatch BY DEF IInv
<1> QED BY Invariance, <1>1, PTL
=============================================================================
