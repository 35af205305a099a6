----------------------------- MODULE Interpose ------------------------------
(***************************************************************************)
(* interpose (9-23/interpose.c): the child suspends itself; the parent     *)
(* sleeps for a second, moves the send right to the host's privileged port *)
(* into the child, under the name 0x1234 that the child is going to use,   *)
(* and resumes it.  Nothing but the second makes sure that the child has   *)
(* suspended itself by then.  The kernel is external.                      *)
(***************************************************************************)
EXTENDS Integers

VARIABLES
    parent, child,    \* where each of them is
    suspend_count,    \* of the child
    child_task,       \* the parent has the child's task port
    refused,          \* a call of the parent's failed
    name_0x1234,      \* the child holds the right under this name
    late,             \* the parent was through before the child suspended itself
    counted           \* what the child printed

vars == <<parent, child, suspend_count, child_task, refused, name_0x1234, late, counted>>

Init ==
    /\ parent = "fork" /\ child = "none" /\ suspend_count = 0
    /\ child_task = FALSE /\ refused = FALSE /\ name_0x1234 = FALSE /\ late = FALSE
    /\ counted = "nothing"

Fork ==
    /\ parent = "fork"
    /\ \/ parent' = "sleep" /\ child' = "run"
       \/ parent' = "exit" /\ UNCHANGED child
    /\ UNCHANGED <<suspend_count, child_task, refused, name_0x1234, late, counted>>

Runs == suspend_count = 0

(* Mutant: the child does not wait for its parent.                          *)
SuspendItself_Not ==
    /\ child = "run" /\ Runs /\ child' = "count"
    /\ UNCHANGED <<parent, suspend_count, child_task, refused, name_0x1234, late, counted>>

SuspendItself ==
    /\ child = "run" /\ Runs /\ child' = "count" /\ suspend_count' = 1
    /\ UNCHANGED <<parent, child_task, refused, name_0x1234, late, counted>>

(* host_processors() on a name that somebody else has put there             *)
print_processor_count ==
    /\ child = "count" /\ Runs /\ child' = "exit"
    /\ counted' = IF name_0x1234 THEN "processors" ELSE "error"
    /\ UNCHANGED <<parent, suspend_count, child_task, refused, name_0x1234, late>>

(* The parent's calls are refused unless it runs as root; a refused call    *)
(* goes to out, except the last.                                            *)
Wake ==
    /\ parent = "sleep" /\ parent' = "task"
    /\ UNCHANGED <<child, suspend_count, child_task, refused, name_0x1234, late, counted>>

TaskForPid ==
    /\ parent = "task"
    /\ \/ parent' = "host" /\ child_task' = TRUE /\ UNCHANGED refused
       \/ parent' = "out" /\ refused' = TRUE /\ UNCHANGED child_task
    /\ UNCHANGED <<child, suspend_count, name_0x1234, late, counted>>

HostPrivPort ==
    /\ parent = "host"
    /\ \/ parent' = "insert" /\ UNCHANGED refused
       \/ parent' = "out" /\ refused' = TRUE
    /\ UNCHANGED <<child, suspend_count, child_task, name_0x1234, late, counted>>

InsertRight ==
    /\ parent = "insert" /\ parent' = "out"
    /\ \/ name_0x1234' = TRUE /\ UNCHANGED refused
       \/ refused' = TRUE /\ UNCHANGED name_0x1234
    /\ UNCHANGED <<child, suspend_count, child_task, late, counted>>

(* task_resume(), which has no effect on a task that is not suspended, nor  *)
(* through a child_task that task_for_pid() has not set.                    *)
ResumeChild ==
    /\ parent = "out" /\ parent' = "exit" /\ late' = (child = "run")
    /\ suspend_count' = IF child_task THEN 0 ELSE suspend_count
    /\ UNCHANGED <<child, child_task, refused, name_0x1234, counted>>

Next ==
    \/ Fork \/ SuspendItself \/ print_processor_count
    \/ Wake \/ TaskForPid \/ HostPrivPort \/ InsertRight \/ ResumeChild

Fairness ==
    /\ WF_vars(SuspendItself) /\ WF_vars(print_processor_count)
    /\ WF_vars(Wake \/ TaskForPid \/ HostPrivPort \/ InsertRight \/ ResumeChild)

Spec == Init /\ [][Next]_vars

-----------------------------------------------------------------------------
TypeOK ==
    /\ parent \in {"fork", "sleep", "task", "host", "insert", "out", "exit"}
    /\ child \in {"none", "run", "count", "exit"} /\ suspend_count \in {0, 1}
    /\ {child_task, refused, name_0x1234, late} \subseteq BOOLEAN
    /\ counted \in {"nothing", "processors", "error"}

\* The child does not use the name before the right is there: it asks for the
\* processors only after the parent has resumed it, and is told them unless a
\* call of the parent's was refused.  It is left suspended, with nobody to
\* resume it, just if it needed more than the parent's second or the parent
\* never got its task port.
RightBeforeUse ==
    /\ TypeOK
    /\ counted = "error" => refused
    /\ child = "exit" => parent = "exit" /\ ~late /\ child_task
    /\ parent = "exit" /\ suspend_count = 1 => late \/ ~child_task
=============================================================================
