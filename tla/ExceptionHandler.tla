-------------------------- MODULE ExceptionHandler --------------------------
(***************************************************************************)
(* exception (9-38/exception.c): the main thread jumps to an address that  *)
(* holds no code; the kernel stops it and sends its exception port a       *)
(* message; a second thread answers it after having pointed the victim's   *)
(* program counter at graceful_dead().  The kernel, which takes exceptions *)
(* nobody answers for the end of the task, is external.  The three         *)
(* architectures differ in the exception that is expected.                 *)
(***************************************************************************)
EXTENDS Naturals

CONSTANTS
    Exceptions,   \* what jumping to such an address may raise
    Expected      \* EXC_BAD_INSTRUCTION on PowerPC, EXC_BAD_ACCESS elsewhere

\* Assumed of the constants where they get their values.
ExpectedAssumption == Expected \in Exceptions

VARIABLES
    victim,      \* where the main thread is
    handler,     \* where the exception thread is
    rights,      \* to exception_port
    mask,        \* exceptions of the victim sent to that port
    raised,      \* the exception of the stopped victim, or "none"
    queued,      \* the message waits at the port
    counter,     \* program counter the victim goes on at
    answered,    \* the kernel has the reply: KERN_SUCCESS
    ended        \* "no", "return", "error", "unexpected", "killed"

vars == <<victim, handler, rights, mask, raised, queued, counter, answered, ended>>

Init ==
    /\ victim = "allocate" /\ handler = "none" /\ rights = {} /\ mask = {}
    /\ raised = "none" /\ queued = FALSE /\ counter = "main" /\ answered = FALSE /\ ended = "no"

Exit(how) == ended' = how

-----------------------------------------------------------------------------
(* main() up to the creation of the thread: the first call that fails exits *)
(* (EXIT_ON_MACH_ERROR), a later one goes to "out".                         *)
AllocatePort ==
    /\ ended = "no" /\ victim = "allocate"
    /\ \/ rights' = {"receive"} /\ victim' = "insert" /\ UNCHANGED ended
       \/ Exit("error") /\ UNCHANGED <<rights, victim>>
    /\ UNCHANGED <<handler, mask, raised, queued, counter, answered>>

InsertSendRight ==
    /\ ended = "no" /\ victim = "insert"
    /\ \/ rights' = rights \cup {"send"} /\ victim' = "set"
       \/ victim' = "out" /\ UNCHANGED rights
    /\ UNCHANGED <<handler, mask, raised, queued, counter, answered, ended>>

SetExceptionPorts ==
    /\ ended = "no" /\ victim = "set"
    /\ \/ mask' = {Expected} /\ victim' = "create"
       \/ victim' = "out" /\ UNCHANGED mask
    /\ UNCHANGED <<handler, rights, raised, queued, counter, answered, ended>>

CreateThread ==
    /\ ended = "no" /\ victim = "create"
    /\ \/ handler' = "receive" /\ victim' = "call"
       \/ victim' = "out" /\ UNCHANGED handler
    /\ UNCHANGED <<rights, mask, raised, queued, counter, answered, ended>>

(* function_with_bad_instruction(): the kernel stops the thread.  An        *)
(* exception outside of the mask goes to the default handler, the end.      *)
CallBadFunction ==
    /\ ended = "no" /\ victim = "call" /\ raised = "none"
    /\ \E e \in Exceptions :
          IF e \in mask
          THEN /\ raised' = e /\ queued' = TRUE /\ counter' = "bad" /\ victim' = "stopped"
               /\ answered' = FALSE /\ UNCHANGED ended
          ELSE Exit("killed") /\ UNCHANGED <<raised, queued, counter, victim, answered>>
    /\ UNCHANGED <<handler, rights, mask>>

(* The kernel has its answer: the victim goes on at its program counter.    *)
Resume ==
    /\ ended = "no" /\ victim = "stopped" /\ answered
    /\ raised' = "none"
    /\ victim' = IF counter = "graceful_dead" THEN "dying" ELSE "call"   \* the same jump again
    /\ UNCHANGED <<handler, rights, mask, queued, counter, answered, ended>>

(* It returns to where the call would have returned.                        *)
graceful_dead ==
    /\ ended = "no" /\ victim = "dying" /\ victim' = "out" /\ counter' = "main"
    /\ UNCHANGED <<handler, rights, mask, raised, queued, answered, ended>>

Out ==
    /\ ended = "no" /\ victim = "out"
    /\ rights' = rights \ {"send"} /\ Exit("return")
    /\ UNCHANGED <<victim, handler, mask, raised, queued, counter, answered>>

-----------------------------------------------------------------------------
(* exception_handler(): one message, one answer, and the thread ends.       *)
Receive ==
    /\ ended = "no" /\ handler = "receive"
    /\ \/ queued /\ queued' = FALSE /\ handler' = "catch" /\ UNCHANGED ended
       \/ Exit("error") /\ UNCHANGED <<queued, handler>>
    /\ UNCHANGED <<victim, rights, mask, raised, counter, answered>>

(* Mutant: KERN_SUCCESS without a repair.                                   *)
catch_exception_raise_NoRepair ==
    /\ ended = "no" /\ handler = "catch" /\ handler' = "reply"
    /\ UNCHANGED <<victim, rights, mask, raised, queued, counter, answered, ended>>

catch_exception_raise ==
    /\ ended = "no" /\ handler = "catch"
    /\ IF raised # Expected THEN Exit("unexpected") /\ UNCHANGED handler
                            ELSE handler' = "repair" /\ UNCHANGED ended
    /\ UNCHANGED <<victim, rights, mask, raised, queued, counter, answered>>

(* thread_get_state(), then thread_set_state() with another counter.        *)
repair_instruction ==
    /\ ended = "no" /\ handler \in {"repair", "repair set"}
    /\ \/ handler = "repair" /\ handler' = "repair set" /\ UNCHANGED <<counter, ended>>
       \/ handler = "repair set" /\ handler' = "reply" /\ counter' = "graceful_dead" /\ UNCHANGED ended
       \/ Exit("error") /\ UNCHANGED <<handler, counter>>
    /\ UNCHANGED <<victim, rights, mask, raised, queued, answered>>

(* Mutant: no reply is sent.                                                *)
Reply_Quiet ==
    /\ ended = "no" /\ handler = "reply" /\ handler' = "ended"
    /\ UNCHANGED <<victim, rights, mask, raised, queued, counter, answered, ended>>

Reply ==
    /\ ended = "no" /\ handler = "reply"
    /\ \/ answered' = TRUE /\ handler' = "ended" /\ UNCHANGED ended
       \/ Exit("error") /\ UNCHANGED <<answered, handler>>
    /\ UNCHANGED <<victim, rights, mask, raised, queued, counter>>

Victim == \/ AllocatePort \/ InsertSendRight \/ SetExceptionPorts \/ CreateThread
          \/ CallBadFunction \/ Resume \/ graceful_dead \/ Out

Handler == Receive \/ catch_exception_raise \/ repair_instruction \/ Reply

Next == Victim \/ Handler

Fairness == WF_vars(Victim) /\ WF_vars(Handler)

Spec == Init /\ [][Next]_vars

-----------------------------------------------------------------------------
TypeOK ==
    /\ rights \subseteq {"receive", "send"} /\ mask \subseteq {Expected}
    /\ raised \in Exceptions \cup {"none"} /\ queued \in BOOLEAN
    /\ counter \in {"main", "bad", "graceful_dead"} /\ answered \in BOOLEAN

\* A stopped victim runs on only at graceful_dead(), so that the one message
\* the thread receives is the only one there ever is, no exception but the
\* expected one comes to it, and main() returns with the send right released.
RepairedBeforeReply ==
    /\ TypeOK
    /\ answered => counter # "bad" /\ ~queued
    /\ handler = "ended" => victim # "call"
    /\ queued => handler = "receive" /\ victim = "stopped" /\ raised = Expected
    /\ ended # "unexpected"
    /\ ended = "return" => rights \subseteq {"receive"}

\* A victim that the kernel has stopped does not stay stopped.
VictimGoesOn == victim = "stopped" ~> victim # "stopped" \/ ended # "no"
=============================================================================
