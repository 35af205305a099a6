----------------------------- MODULE ListTasks -----------------------------
(***************************************************************************)
(* lstasks (7-21/lstasks.c): lists the tasks of the processor set, with    *)
(* the process and the Carbon process of each and, when verbose, their     *)
(* threads.  Nothing is suspended meanwhile: a task or a thread seen a     *)
(* moment ago may be gone at the next query.  The kernel and the Carbon    *)
(* Process Manager are external.                                           *)
(***************************************************************************)
EXTENDS Integers, Sequences, FiniteSets, Functions

CONSTANTS
    Tasks, Self,    \* the tasks of the machine; Self is this program's
    Processes,      \* those that are BSD processes with a pid above 0
    Carbon,         \* those that the Carbon Process Manager knows
    MaxThreads      \* bound: threads of a task

\* Assumed of the constants where they get their values.
TasksAssumption ==
    IsFiniteSet(Tasks) /\ Self \in Tasks /\ Carbon \subseteq Processes /\ Processes \subseteq Tasks /\ MaxThreads \in Nat

VARIABLES
    alive,       \* tasks that have not ended
    threads,     \* number of threads of each task
    place,       \* where main() is
    options,     \* summary, verbose, and onetask as a set of at most one task
    task_list,   \* what processor_set_tasks() returned
    i,           \* tasks of it that main() is done with
    thread_list, \* threads of the current task that are still to be shown
    stat,        \* stat_task, stat_proc, stat_cpm, stat_thread
    buffers,     \* out-of-line buffers not deallocated yet
    nameRef,     \* "unset", "released", or "reused": used again after that
    died         \* some task has ended since the snapshot

vars == <<alive, threads, place, options, task_list, i, thread_list, stat, buffers, nameRef, died>>
kernel == <<alive, threads, died>>

Init ==
    /\ alive = Tasks /\ threads = [t \in Tasks |-> MaxThreads]
    /\ place = "options" /\ options = [summary |-> FALSE, verbose |-> FALSE, onetask |-> {}]
    /\ task_list = <<>> /\ i = 0 /\ thread_list = 0
    /\ stat = [task |-> 0, proc |-> 0, cpm |-> 0, thread |-> 0]
    /\ buffers = 0 /\ nameRef = "unset" /\ died = FALSE

-----------------------------------------------------------------------------
(* The rest of the machine goes on.                                         *)
TaskEnds(t) ==
    /\ t \in alive \ {Self} /\ place # "exit"
    /\ alive' = alive \ {t} /\ threads' = [threads EXCEPT ![t] = 0]
    /\ died' = (died \/ place # "options")
    /\ UNCHANGED <<place, options, task_list, i, thread_list, stat, buffers, nameRef>>

ThreadEnds(t) ==
    /\ t \in alive \ {Self} /\ threads[t] > 1 /\ place # "exit"
    /\ threads' = [threads EXCEPT ![t] = @ - 1]
    /\ UNCHANGED <<alive, place, options, task_list, i, thread_list, stat, buffers, nameRef, died>>

-----------------------------------------------------------------------------
(* getopt() and task_for_pid(), which ends the program for a pid that is    *)
(* nobody's.  "can't have both" -s and -v.                                  *)
Options ==
    /\ place = "options"
    /\ \E summary, verbose \in BOOLEAN, one \in {{}} \cup {{t} : t \in Processes} :
          /\ options' = [summary |-> summary, verbose |-> verbose, onetask |-> one]
          /\ place' = IF (summary /\ verbose) \/ ~(one \subseteq alive) THEN "exit" ELSE "snapshot"
    /\ UNCHANGED <<kernel, task_list, i, thread_list, stat, buffers, nameRef>>

Snapshot ==
    /\ place = "snapshot"
    /\ \/ /\ task_list' = CHOOSE s \in Injection(1 .. Cardinality(alive), alive) : TRUE
          /\ buffers' = buffers + 1 /\ place' = "task"
       \/ place' = "exit" /\ UNCHANGED <<task_list, buffers>>     \* not privileged
    /\ UNCHANGED <<kernel, options, i, thread_list, stat, nameRef>>

Counted(t) == t # Self /\ (options.onetask = {} \/ t \in options.onetask)
Current == task_list[i + 1]

(* One more task: pid_for_task() gives the pid of a process that still is.  *)
SkipTask ==
    /\ place = "task" /\ i < Len(task_list) /\ ~ Counted(Current)
    /\ i' = i + 1
    /\ UNCHANGED <<kernel, place, options, task_list, thread_list, stat, buffers, nameRef>>

VisitTask ==
    /\ place = "task" /\ i < Len(task_list) /\ Counted(Current)
    /\ LET process == Current \in Processes \cap alive IN
          /\ stat' = [stat EXCEPT !.task = @ + 1, !.proc = IF process THEN @ + 1 ELSE @]
          /\ place' = CASE process -> "carbon" [] ~process /\ options.verbose -> "info" [] OTHER -> "threads"
    /\ UNCHANGED <<kernel, options, task_list, i, thread_list, buffers, nameRef>>

(* GetProcessForPID(), and when verbose CopyProcessName(), the result of    *)
(* which is not looked at: if the process has ended in between, nameRef is  *)
(* what an earlier task left, and has been released.                        *)
GetProcess ==
    /\ place = "carbon"
    /\ LET found == Current \in Carbon \cap alive IN
          /\ stat' = [stat EXCEPT !.cpm = IF found THEN @ + 1 ELSE @]
          /\ place' = IF ~options.verbose THEN "threads" ELSE IF found THEN "name" ELSE "info"
    /\ UNCHANGED <<kernel, options, task_list, i, thread_list, buffers, nameRef>>

CopyName ==
    /\ place = "name" /\ place' = "info"
    /\ nameRef' = IF Current \in alive /\ nameRef # "reused" THEN "released" ELSE "reused"
    /\ UNCHANGED <<kernel, options, task_list, i, thread_list, stat, buffers>>

NextTask_Break == i' = Len(task_list) /\ place' = "task"   \* mutant: break for continue

NextTask == i' = i + 1 /\ place' = "task"

(* Six queries about the task; without the first one it is given up.        *)
TaskInfo ==
    /\ place = "info"
    /\ IF Current \in alive THEN place' = "threads" /\ UNCHANGED i ELSE NextTask
    /\ UNCHANGED <<kernel, options, task_list, thread_list, stat, buffers, nameRef>>

(* task_threads(): only verbose mode gets as far as freeing its answer.     *)
TaskThreads ==
    /\ place = "threads"
    /\ IF Current \notin alive
       THEN NextTask /\ UNCHANGED <<thread_list, stat, buffers>>
       ELSE /\ stat' = [stat EXCEPT !.thread = @ + threads[Current]]
            /\ buffers' = buffers + 1
            /\ IF options.verbose THEN /\ thread_list' = threads[Current] /\ place' = "each"
                                       /\ UNCHANGED i
                                  ELSE NextTask /\ UNCHANGED thread_list
    /\ UNCHANGED <<kernel, options, task_list, nameRef>>

(* One thread: its policy, its state, or an error if it has ended.          *)
ThreadInfo ==
    /\ place = "each" /\ thread_list > 0
    /\ thread_list' = thread_list - 1
    /\ UNCHANGED <<kernel, place, options, task_list, i, stat, buffers, nameRef>>

ThreadsDone ==
    /\ place = "each" /\ thread_list = 0
    /\ buffers' = buffers - 1 /\ NextTask
    /\ UNCHANGED <<kernel, options, task_list, thread_list, stat, nameRef>>

Summary ==
    /\ place = "task" /\ i = Len(task_list)
    /\ buffers' = buffers - 1 /\ place' = "exit"
    /\ UNCHANGED <<kernel, options, task_list, i, thread_list, stat, nameRef>>

Main == \/ Options \/ Snapshot \/ SkipTask \/ VisitTask \/ GetProcess \/ CopyName \/ TaskInfo
        \/ TaskThreads \/ ThreadInfo \/ ThreadsDone \/ Summary

Next == Main \/ \E t \in Tasks : TaskEnds(t) \/ ThreadEnds(t)

Spec == Init /\ [][Next]_vars

-----------------------------------------------------------------------------
TypeOK ==
    /\ alive \subseteq Tasks /\ threads \in [Tasks -> 0 .. MaxThreads]
    /\ options.onetask \subseteq Processes
    /\ i \in 0 .. Len(task_list) /\ thread_list \in 0 .. MaxThreads
    /\ buffers \in 0 .. Cardinality(Tasks) /\ nameRef \in {"unset", "released", "reused"}

Listed == {t \in Range(task_list) : Counted(t)}

(* The threads that some tasks still have.                                  *)
ThreadsOf(some) == {n \in some \X (1 .. MaxThreads) : n[2] <= threads[n[1]]}

\* The summary agrees with the machine although it is never stopped: every
\* task of the snapshot is in it, every process that lasts and none that never
\* was; verbose mode has freed all that the kernel handed out; and a name is
\* used after its release only if a task has ended meanwhile.
SummaryAgrees ==
    /\ TypeOK
    /\ stat.cpm <= stat.proc /\ stat.proc <= stat.task
    /\ nameRef = "reused" => died
    /\ place = "exit" /\ task_list # <<>> =>
          /\ stat.task = Cardinality(Listed)
          /\ stat.proc \in Cardinality(Listed \cap Processes \cap alive)
                              .. Cardinality(Listed \cap Processes)
          /\ stat.cpm >= Cardinality(Listed \cap Carbon \cap alive)
          /\ stat.thread \in Cardinality(ThreadsOf(Listed))
                               .. Cardinality(Listed) * MaxThreads
          /\ options.verbose => buffers = 0
=============================================================================
