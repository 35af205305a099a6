--------------------------- MODULE MachSemaphore ----------------------------
(***************************************************************************)
(* 9-72/mach_semaphore.c: main() creates two semaphores and some threads;  *)
(* each thread reports on sem[1] that it is ready, waits on sem[0] and     *)
(* reports again.  main() counts the first reports, wakes the last thread  *)
(* alone with semaphore_signal_thread, waits for its second report, wakes  *)
(* the others with semaphore_signal_all and waits for theirs.  The Mach    *)
(* semaphores are external: semaphore_signal raises the count when nobody  *)
(* waits, the two other ways of signalling have no effect then.            *)
(***************************************************************************)
EXTENDS Integers, FiniteSets

CONSTANTS
    Threads,  \* the threads main() creates, three in the program
    Last      \* the one created last, thread3

ASSUME ThreadsAssumption == IsFiniteSet(Threads) /\ Last \in Threads

VARIABLES
    main,     \* main()'s place
    left,     \* how often its current SEMAPHORE_WAIT still has to wait
    pc,       \* each thread's place
    waiters,  \* the threads waiting on sem[0]
    count     \* the count of sem[1]

vars == <<main, left, pc, waiters, count>>

Init ==
    /\ main = "create" /\ left = 0
    /\ pc = [t \in Threads |-> "unborn"]
    /\ waiters = {}
    /\ count = 0

(* The two semaphore_create calls; a failure goes to out.                   *)
Create ==
    /\ main = "create"
    /\ main' \in {"spawn", "out"}
    /\ UNCHANGED <<left, pc, waiters, count>>

(* pthread_create, thread after thread, each failure ignored; then as many  *)
(* waits are to be done as threads were asked for.                          *)
Spawn(t) ==
    /\ main = "spawn" /\ pc[t] = "unborn"
    /\ t = Last => \A u \in Threads \ {Last} : pc[u] # "unborn"
    /\ \E place \in {"report", "failed"} : pc' = [pc EXCEPT ![t] = place]
    /\ main' = IF t = Last THEN "ready" ELSE main
    /\ left' = IF t = Last THEN Cardinality(Threads) ELSE left
    /\ UNCHANGED <<waiters, count>>

(* One semaphore_wait(sem[1]) of main(), in phase p of its waits.           *)
MainWait_Event(p, next) ==
    /\ main = p
    /\ IF count > 0
       THEN /\ count' = 0
            /\ left' = left - 1
            /\ main' = IF left = 1 THEN next ELSE p
       ELSE UNCHANGED <<count, left, main>>
    /\ UNCHANGED <<pc, waiters>>

MainWait(p, next) ==
    /\ main = p
    /\ count > 0
    /\ count' = count - 1
    /\ left' = left - 1
    /\ main' = IF left = 1 THEN next ELSE p
    /\ UNCHANGED <<pc, waiters>>

Wake(ts) ==
    /\ waiters' = waiters \ ts
    /\ pc' = [t \in Threads |-> IF t \in waiters \cap ts THEN "woken" ELSE pc[t]]

SignalThread_All ==
    /\ main = "signalThread"
    /\ Wake(Threads)
    /\ main' = "waitLast" /\ left' = 1
    /\ UNCHANGED count

SignalThread ==
    /\ main = "signalThread"
    /\ Wake({Last})
    /\ main' = "waitLast" /\ left' = 1
    /\ UNCHANGED count

SignalAll ==
    /\ main = "signalAll"
    /\ Wake(Threads)
    /\ main' = IF Threads = {Last} THEN "out" ELSE "waitRest"
    /\ left' = Cardinality(Threads) - 1
    /\ UNCHANGED count

(* out: the semaphores are destroyed and the process exits.                 *)
Out ==
    /\ main = "out"
    /\ main' = "exit"
    /\ UNCHANGED <<left, pc, waiters, count>>

MainStep ==
    \/ Create \/ SignalThread \/ SignalAll \/ Out
    \/ \E t \in Threads : Spawn(t)
    \/ MainWait("ready", "signalThread") \/ MainWait("waitLast", "signalAll")
    \/ MainWait("waitRest", "out")

(* start_routine.                                                           *)
Report(t, from, to) ==
    /\ pc[t] = from
    /\ pc' = [pc EXCEPT ![t] = to]
    /\ count' = count + 1
    /\ UNCHANGED <<main, left, waiters>>

Wait(t) ==
    /\ pc[t] = "wait"
    /\ pc' = [pc EXCEPT ![t] = "waiting"]
    /\ waiters' = waiters \cup {t}
    /\ UNCHANGED <<main, left, count>>

ThreadStep(t) ==
    /\ main # "exit"
    /\ Report(t, "report", "wait") \/ Wait(t) \/ Report(t, "woken", "done")

Exited == main = "exit" /\ UNCHANGED vars

Next == MainStep \/ (\E t \in Threads : ThreadStep(t)) \/ Exited

Spec == Init /\ [][Next]_vars

(* Every thread of the process is scheduled again and again.                *)
FairSpec == Spec /\ WF_vars(MainStep) /\ \A t \in Threads : WF_vars(ThreadStep(t))

-----------------------------------------------------------------------------
N == Cardinality(Threads)
MainPlaces == {"create", "spawn", "ready", "signalThread", "waitLast",
               "signalAll", "waitRest", "out", "exit"}
ThreadPlaces == {"unborn", "failed", "report", "wait", "waiting", "woken", "done"}

TypeOK ==
    /\ main \in MainPlaces
    /\ left \in 0 .. N
    /\ pc \in [Threads -> ThreadPlaces]
    /\ waiters = {t \in Threads : pc[t] = "waiting"}
    /\ count \in Nat

Reported == {t \in Threads : pc[t] \in {"wait", "waiting", "woken", "done"}}
Done     == {t \in Threads : pc[t] = "done"}
Created  == \A t \in Threads : pc[t] # "failed"

(* How many reports main() has waited for, by its place and loop counter.   *)
Taken ==
    CASE main \in {"create", "spawn"} -> 0
      [] main = "ready"        -> N - left
      [] main = "signalThread" -> N
      [] main = "waitLast"     -> N + 1 - left
      [] main = "signalAll"    -> N + 1
      [] main = "waitRest"     -> 2 * N - left
      [] main \in {"out", "exit"} -> IF pc[Last] = "unborn" THEN 0 ELSE 2 * N

\* Every report is either still counted by sem[1] or was waited for: no wait
\* of main() is satisfied by a report that another wait has already used.
ReportsMatch == count + Taken = Cardinality(Reported) + Cardinality(Done)

\* thread3 alone is let through first: no other thread gets past sem[0]
\* before thread3 has finished, although both use the same two semaphores.
OthersAfterLast ==
    \A t \in Threads \ {Last} : pc[t] \in {"woken", "done"} => pc[Last] = "done"

\* When main() destroys the semaphores, every thread it created is through
\* with them.
NoneLeftWaiting ==
    main \in {"out", "exit"} =>
        (\A t \in Threads : pc[t] = "done") \/ (\A t \in Threads : pc[t] = "unborn")

(* The invariant that makes these inductive: what each place of main()      *)
(* says about the threads.                                                  *)
Through(t) == pc[t] \in {"woken", "done"}
Phases ==
    /\ main = "create" => \A t \in Threads : pc[t] = "unborn"
    /\ main = "spawn" => pc[Last] = "unborn"
    /\ main \in {"create", "spawn", "ready", "signalThread"} =>
          \A t \in Threads : ~Through(t)
    /\ main \in MainPlaces \ {"create", "spawn", "out", "exit"} =>
          \A t \in Threads : pc[t] # "unborn"
    /\ main \in {"signalThread", "waitLast", "signalAll", "waitRest"} => Created
    /\ main = "waitLast" => \A t \in Threads \ {Last} : ~Through(t)
    /\ main \in {"signalAll", "waitRest"} => pc[Last] = "done"
    /\ main = "ready" => left \in 1 .. N
    /\ main = "waitLast" => left = 1
    /\ main = "waitRest" => left \in 1 .. (N - 1)
IInv == TypeOK /\ ReportsMatch /\ Phases /\ NoneLeftWaiting

\* main() has signalled a thread that was not waiting yet.
Lost ==
    \/ main = "waitLast" /\ pc[Last] = "wait"
    \/ main = "waitRest" /\ \E t \in Threads \ {Last} : pc[t] = "wait"

\* "wait until all three threads are ready", then for each of them: with its
\* threads created, the demonstration ends.
MainExits == []Created => <>(main = "exit")

\* Two things keep main() from its end, and no order of reports, waits and
\* signals does otherwise: a signal that came before its thread waited, and a
\* pthread_create that failed unnoticed, after which main() stays at its first
\* waits for ever, and never gets to signal a thread that does not exist.
ExitsUnlessLost ==
    <>(main = "exit") \/ <>Lost \/ <>[](main = "ready" /\ ~Created)
=============================================================================
