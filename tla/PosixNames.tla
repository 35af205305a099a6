----------------------------- MODULE PosixNames -----------------------------
(***************************************************************************)
(* The programs for POSIX named semaphores (9-45: sem_create, sem_post,    *)
(* sem_wait, sem_unlink) and for shared memory (9-46: shm_create,          *)
(* shm_info, shm_unlink), run by any processes in any order on one name of *)
(* each kind.  What a name stands for outlives the processes, and what a   *)
(* process has open outlives the name.  The kernel is external.            *)
(***************************************************************************)
EXTENDS Integers, Sequences, FiniteSets, Functions

CONSTANTS
    Processes,    \* each runs one program
    Values,       \* initial values of semaphores
    Strings,      \* to be shared
    NoName        \* stands for no object

\* Assumed of the constants where they get their values.
NamesAssumption ==
    /\ IsFiniteSet(Processes) /\ NoName \notin Processes
    /\ Values \subseteq Nat
    /\ Strings # {} /\ \A s \in Strings : s \in Seq(Range(s))

VARIABLES
    at,           \* what each process is about to do, or how it ended
    handle,       \* what it has, or had, open; objects are named after their creators
    semaphore,    \* the one that has the name
    initial,      \* value that each was created with
    value,
    memory,       \* the object that has the name
    string,       \* argument of shm_create
    content,      \* of each object, a byte at a time
    size,         \* of each object, 0 until ftruncate()
    printed       \* by shm_info

vars == <<at, handle, semaphore, initial, value, memory, string, content, size, printed>>
semaphores == <<semaphore, initial, value>>
memories   == <<memory, string, content, size, printed>>

All(x) == [p \in Processes |-> x]

Init ==
    /\ at = All("start") /\ handle = All(NoName)
    /\ semaphore = NoName /\ initial = All(0) /\ value = All(0)
    /\ memory = NoName /\ string = All(<<>>) /\ content = All(<<>>) /\ size = All(0)
    /\ printed = All(<<>>)

Goto(p, place) == at' = [at EXCEPT ![p] = place]
Open(p, s)     == handle' = [handle EXCEPT ![p] = s]

(* sem_open() or shm_open() of an existing object, which may not be there   *)
OpenExisting(p, s, places) ==
    /\ at[p] = "start"
    /\ IF s = NoName
       THEN Goto(p, "failed") /\ UNCHANGED handle
       ELSE (\E place \in places : Goto(p, place)) /\ Open(p, s)
    /\ UNCHANGED <<semaphores, memories>>

-----------------------------------------------------------------------------
(* Semaphores.  O_CREAT | O_EXCL: an existing one is left alone.            *)
sem_create(p) ==
    /\ at[p] = "start"
    /\ IF semaphore = NoName
       THEN \E val \in Values :
               /\ semaphore' = p /\ Goto(p, "created")
               /\ value' = [value EXCEPT ![p] = val] /\ initial' = [initial EXCEPT ![p] = val]
       ELSE Goto(p, "failed") /\ UNCHANGED semaphores
    /\ UNCHANGED <<handle, memories>>

sem_open(p) == OpenExisting(p, semaphore, {"post", "wait"})

sem_post(p) ==
    /\ at[p] = "post" /\ Goto(p, "posted")
    /\ value' = [value EXCEPT ![handle[p]] = @ + 1]
    /\ UNCHANGED <<handle, semaphore, initial, memories>>

(* Mutant: the semaphore is looked up again.                                *)
sem_wait_ByName(p) ==
    /\ at[p] = "wait" /\ semaphore # NoName /\ value[semaphore] > 0 /\ Goto(p, "waited")
    /\ value' = [value EXCEPT ![semaphore] = @ - 1]
    /\ UNCHANGED <<handle, semaphore, initial, memories>>

sem_wait(p) ==
    /\ at[p] = "wait" /\ value[handle[p]] > 0 /\ Goto(p, "waited")
    /\ value' = [value EXCEPT ![handle[p]] = @ - 1]
    /\ UNCHANGED <<handle, semaphore, initial, memories>>

(* A failed sem_wait(); the program says "successful" all the same.         *)
Interrupted(p) ==
    /\ at[p] = "wait" /\ Goto(p, "failed")
    /\ UNCHANGED <<handle, semaphores, memories>>

sem_unlink(p) ==
    /\ at[p] = "start" /\ Goto(p, "unlinked") /\ semaphore' = NoName
    /\ UNCHANGED <<handle, initial, value, memories>>

-----------------------------------------------------------------------------
(* Shared memory: the name is there before the object has a size, and the   *)
(* size before the string.                                                  *)
shm_create(p) ==
    /\ at[p] = "start"
    /\ IF memory = NoName
       THEN /\ memory' = p /\ Goto(p, "truncate")
            /\ \E s \in Strings : string' = [string EXCEPT ![p] = s]
       ELSE Goto(p, "failed") /\ UNCHANGED <<memory, string>>
    /\ UNCHANGED <<handle, semaphores, content, size, printed>>

(* ftruncate() and mmap(): room for the string and its NUL, all zero.  The  *)
(* test for failure of mmap() is of NULL, which is not what it returns.     *)
Truncate(p) ==
    /\ at[p] = "truncate" /\ Goto(p, "copy")
    /\ size' = [size EXCEPT ![p] = Len(string[p]) + 1]
    /\ UNCHANGED <<handle, semaphores, memory, string, content, printed>>

(* snprintf(), a byte at a time; its bound of len + 1 is never reached.     *)
Copy(p) ==
    /\ at[p] = "copy"
    /\ IF Len(content[p]) < Len(string[p])
       THEN /\ content' = [content EXCEPT ![p] = Append(@, string[p][Len(@) + 1])]
            /\ UNCHANGED at
       ELSE Goto(p, "copied") /\ UNCHANGED content
    /\ UNCHANGED <<handle, semaphores, memory, string, size, printed>>

shm_open(p) == OpenExisting(p, memory, {"stat"})

(* fstat(), print_stat_info() and mmap(): nothing of an object of size 0    *)
(* can be mapped, and printf() then follows MAP_FAILED.                     *)
Stat(p) ==
    /\ at[p] = "stat" /\ Goto(p, IF size[handle[p]] = 0 THEN "crashed" ELSE "contents")
    /\ UNCHANGED <<handle, semaphores, memories>>

(* Mutant: the object that has the name by now.                             *)
Contents_ByName(p) ==
    /\ at[p] = "contents" /\ Goto(p, "printed")
    /\ printed' = [printed EXCEPT ![p] = IF memory = NoName THEN <<>> ELSE content[memory]]
    /\ UNCHANGED <<handle, semaphores, memory, string, content, size>>

Contents(p) ==
    /\ at[p] = "contents" /\ Goto(p, "printed")
    /\ printed' = [printed EXCEPT ![p] = content[handle[p]]]
    /\ UNCHANGED <<handle, semaphores, memory, string, content, size>>

shm_unlink(p) ==
    /\ at[p] = "start" /\ Goto(p, "unlinked") /\ memory' = NoName
    /\ UNCHANGED <<handle, semaphores, string, content, size, printed>>

Next == \E p \in Processes :
    \/ sem_create(p) \/ sem_open(p) \/ sem_post(p) \/ sem_wait(p) \/ Interrupted(p)
    \/ sem_unlink(p)
    \/ shm_create(p) \/ Truncate(p) \/ Copy(p) \/ shm_open(p) \/ Stat(p) \/ Contents(p)
    \/ shm_unlink(p)

Spec == Init /\ [][Next]_vars

-----------------------------------------------------------------------------
TypeOK ==
    /\ at \in [Processes -> {"start", "failed", "created", "post", "posted", "wait", "waited",
                             "unlinked", "truncate", "copy", "copied", "stat", "crashed",
                             "contents", "printed"}]
    /\ handle \in [Processes -> Processes \cup {NoName}]
    /\ semaphore \in Processes \cup {NoName} /\ memory \in Processes \cup {NoName}
    /\ initial \in [Processes -> Nat] /\ value \in [Processes -> Nat]
    /\ string \in [Processes -> Strings \cup {<<>>}] /\ size \in [Processes -> Nat]

Ended(s, how) == Cardinality({p \in Processes : handle[p] = s /\ at[p] = how})

\* Names come and go under the processes that have something open: posts and
\* waits are accounted on the semaphore that was opened, so that a waiter of an
\* unlinked one never takes what was posted to its successor; and shm_info
\* prints of the memory it opened, as much of the string as had been copied by
\* then, never what another process has since put under the name.
HandlesOutliveNames ==
    /\ TypeOK
    /\ \A s \in Processes : value[s] + Ended(s, "waited") = initial[s] + Ended(s, "posted")
    /\ \A p \in Processes :
          /\ at[p] = "copied" => content[p] = string[p]
          /\ at[p] = "printed" =>
                \E n \in 0 .. Len(string[handle[p]]) : printed[p] = SubSeq(string[handle[p]], 1, n)
          /\ at[p] = "crashed" => at[handle[p]] \in {"truncate", "copy", "copied"}
=============================================================================
