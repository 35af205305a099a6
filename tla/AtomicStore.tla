---------------------------- MODULE AtomicStore ----------------------------
(***************************************************************************)
(* What hw_compare_and_store() promises (3-28/hw_cs.s, lines 8 to 12):     *)
(* "Performs the following atomically: Compares old value to the one at    *)
(* address, and if they are equal, stores new value, returning true (1)."  *)
(***************************************************************************)
CONSTANTS
    Threads, Values,
    Initial,     \* what the word holds at first
    Unknown      \* argument of a thread that has not called yet

VARIABLES
    word,        \* *address
    phase,       \* each thread: idle, called, or decided
    old, new,    \* the arguments of its call
    result       \* of a decided call

vars == <<word, phase, old, new, result>>

Init ==
    /\ word = Initial
    /\ phase = [t \in Threads |-> "idle"]
    /\ old = [t \in Threads |-> Unknown] /\ new = [t \in Threads |-> Unknown]
    /\ result = [t \in Threads |-> 0]

Call(t) ==
    /\ phase[t] = "idle" /\ phase' = [phase EXCEPT ![t] = "called"]
    /\ \E o, n \in Values : old' = [old EXCEPT ![t] = o] /\ new' = [new EXCEPT ![t] = n]
    /\ UNCHANGED <<word, result>>

CompareAndStore(t) ==
    /\ phase[t] = "called" /\ phase' = [phase EXCEPT ![t] = "decided"]
    /\ \/ word = old[t] /\ word' = new[t] /\ result' = [result EXCEPT ![t] = 1]
       \/ word # old[t] /\ UNCHANGED <<word, result>>
    /\ UNCHANGED <<old, new>>

Return(t) ==
    /\ phase[t] = "decided" /\ phase' = [phase EXCEPT ![t] = "idle"]
    /\ result' = [result EXCEPT ![t] = 0]
    /\ UNCHANGED <<word, old, new>>

Next == \E t \in Threads : Call(t) \/ CompareAndStore(t) \/ Return(t)

Spec == Init /\ [][Next]_vars
=============================================================================
