----------------------------- MODULE FileWatch ------------------------------
(***************************************************************************)
(* kq_fwatch (9-61/kq_fwatch.c) prints what happens to a file until it is  *)
(* deleted; kq_vfswatch (12-33/kq_vfswatch.c) is the same loop on the      *)
(* events of file systems, none of which is the last.  The kernel collects *)
(* the kinds of event in one knote, from its registration on and until the *)
(* next kevent() takes them; files and kernel are external.                *)
(***************************************************************************)
EXTENDS Integers

CONSTANTS
    Kinds,        \* the events that are described
    LastOnes      \* those that end the program

VARIABLES
    doing,        \* where main() is
    fflags,       \* kinds collected in the knote
    kl,           \* what kevent() has put into the changelist
    happened,     \* kinds that occurred since the registration
    printed,      \* kinds described on the output
    failed        \* a call returned an error

vars == <<doing, fflags, kl, happened, printed, failed>>

Init ==
    /\ doing = "kqueue" /\ fflags = {} /\ kl = {} /\ happened = {} /\ printed = {}
    /\ failed = FALSE

Registered == doing \in {"wait", "process"}

(* An event before the registration goes unnoticed, be it the last.         *)
Happens(kind) ==
    /\ Registered /\ fflags' = fflags \cup {kind} /\ happened' = happened \cup {kind}
    /\ UNCHANGED <<doing, kl, printed, failed>>

(* kqueue(), open() and the registering kevent(), in this order             *)
Setup ==
    /\ doing \in {"kqueue", "open", "register"}
    /\ \/ /\ doing' = CASE doing = "kqueue" -> "open" [] doing = "open" -> "register"
                        [] doing = "register" -> "wait"
          /\ UNCHANGED failed
       \/ doing' = "exit" /\ failed' = TRUE
    /\ UNCHANGED <<fflags, kl, happened, printed>>

Kevent ==
    /\ doing = "wait" /\ fflags # {} /\ doing' = "process"
    /\ kl' = fflags /\ fflags' = {}
    /\ UNCHANGED <<happened, printed, failed>>

KeventFails ==
    /\ doing = "wait" /\ doing' = "exit" /\ failed' = TRUE
    /\ UNCHANGED <<fflags, kl, happened, printed>>

(* Mutant: it stops at the first kind that fits.                            *)
process_events_First ==
    /\ doing = "process" /\ \E kind \in kl : printed' = printed \cup {kind}
    /\ doing' = IF kl \cap LastOnes # {} THEN "exit" ELSE "wait"
    /\ UNCHANGED <<fflags, kl, happened, failed>>

process_events ==
    /\ doing = "process" /\ printed' = printed \cup kl
    /\ doing' = IF kl \cap LastOnes # {} THEN "exit" ELSE "wait"
    /\ UNCHANGED <<fflags, kl, happened, failed>>

Next == (\E kind \in Kinds : Happens(kind)) \/ Setup \/ Kevent \/ KeventFails \/ process_events

Spec == Init /\ [][Next]_vars

-----------------------------------------------------------------------------
TypeOK ==
    /\ doing \in {"kqueue", "open", "register", "wait", "process", "exit"}
    /\ {fflags, kl, happened, printed} \subseteq SUBSET Kinds /\ failed \in BOOLEAN

\* Events that come while others are being printed are not lost: what happened
\* since the registration has been printed, is being printed, or waits in the
\* knote.  The program ends of itself only when it has printed a last one.
ReportsChanges ==
    /\ TypeOK
    /\ happened = printed \cup fflags \cup IF doing = "process" THEN kl ELSE {}
    /\ doing = "exit" /\ ~failed => printed \cap LastOnes # {}
    /\ doing = "wait" => printed \cap LastOnes = {}
=============================================================================
