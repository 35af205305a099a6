--------------------------- MODULE CarbonThreads ----------------------------
(***************************************************************************)
(* The cooperative threads of 7-37/CarbonThreadManager.c: main() makes     *)
(* MAXTHREADS of them and yields to the first, each yields to the next,    *)
(* and the last is meant to yield to main() - but its number is            *)
(* MAXTHREADS - 1, so that it yields to what lies behind the array.  The   *)
(* Thread Manager is external: one thread has control at a time, and       *)
(* yielding to no thread in particular gives it to any that is ready.      *)
(***************************************************************************)
EXTENDS Integers

CONSTANTS
    MAXTHREADS,
    Behind        \* what may lie behind the array: no thread, or mainThread

\* Assumed of the constants where they get their values.
ThreadsAssumption == MAXTHREADS \in Nat \ {0} /\ Behind \subseteq {-2, -1}

Main    == -1
None    == -2      \* kNoThreadID
Indices == 0 .. (MAXTHREADS - 1)

VARIABLES
    control,      \* the thread that has it
    main,         \* where main() is
    place,        \* where each thread is
    created,      \* newThreads[0 .. created - 1] are set
    whoa          \* threads that went on behind NOTREACHED

vars == <<control, main, place, created, whoa>>

Init ==
    /\ control = Main /\ main = "create" /\ created = 0
    /\ place = [i \in Indices |-> "none"] /\ whoa = {}

(* NewThread() and SetThreadState(), which makes the thread ready           *)
NewThread ==
    /\ main = "create" /\ created < MAXTHREADS
    /\ \/ /\ place' = [place EXCEPT ![created] = "ready"] /\ created' = created + 1
          /\ UNCHANGED main
       \/ main' = "out" /\ UNCHANGED <<place, created>>
    /\ UNCHANGED <<control, whoa>>

Ready == {Main} \cup {i \in Indices : place[i] \in {"ready", "yielded"}}

(* YieldToThread()                                                          *)
YieldTo(thread) == IF thread = None THEN control' \in Ready' ELSE control' = thread

MainYields ==
    /\ main = "create" /\ created = MAXTHREADS /\ main' = "yielded" /\ control' = 0
    /\ UNCHANGED <<place, created, whoa>>

(* The thread a thread yields to; its own test for the end never holds.     *)
Following_Main(i) == IF i = MAXTHREADS \div 2 THEN {Main} ELSE IF i + 1 \in Indices THEN {i + 1} ELSE Behind

Following(i) == IF i = MAXTHREADS THEN {Main} ELSE IF i + 1 \in Indices THEN {i + 1} ELSE Behind

threadFunction(i) ==
    /\ control = i /\ place[i] = "ready" /\ place' = [place EXCEPT ![i] = "yielded"]
    /\ \E thread \in Following(i) : YieldTo(thread)
    /\ UNCHANGED <<main, created, whoa>>

(* Control comes back to a thread, which says so and returns.               *)
Whoa(i) ==
    /\ control = i /\ place[i] = "yielded" /\ place' = [place EXCEPT ![i] = "ended"]
    /\ whoa' = whoa \cup {i} /\ control' \in Ready'
    /\ UNCHANGED <<main, created>>

MainBack ==
    /\ control = Main /\ main = "yielded" /\ main' = "out"
    /\ UNCHANGED <<control, place, created, whoa>>

(* Every thread whose ID was stored is disposed of, the ended ones too.     *)
DisposeThreads ==
    /\ main = "out" /\ main' = "exit"
    /\ place' = [i \in Indices |-> IF i < created THEN "disposed" ELSE place[i]]
    /\ UNCHANGED <<control, created, whoa>>

Next ==
    \/ NewThread \/ MainYields \/ MainBack \/ DisposeThreads
    \/ \E i \in Indices : threadFunction(i) \/ Whoa(i)

Spec == Init /\ [][Next]_vars

-----------------------------------------------------------------------------
TypeOK ==
    /\ control \in {Main} \cup Indices /\ main \in {"create", "yielded", "out", "exit"}
    /\ place \in [Indices -> {"none", "ready", "yielded", "ended", "disposed"}]
    /\ created \in 0 .. MAXTHREADS /\ whoa \subseteq Indices

\* The threads have control one after the other, in the order of the array, and
\* main() gets it back when all had it.  No thread comes back behind NOTREACHED
\* before the last one has run over the end of the array, and then the thread
\* is one that has yielded, never one that has not started.
OneAfterTheOther ==
    /\ TypeOK
    /\ \A i, j \in Indices : i < j /\ place[j] \in {"yielded", "ended"} => place[i] \in {"yielded", "ended"}
    /\ whoa # {} \/ (main \in {"out", "exit"} /\ created = MAXTHREADS) =>
          \A i \in Indices : place[i] \in {"yielded", "ended", "disposed"}
    /\ main = "exit" => \A i \in Indices : place[i] = "disposed" <=> i < created
=============================================================================
