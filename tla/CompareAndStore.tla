-------------------------- MODULE CompareAndStore --------------------------
(***************************************************************************)
(* hw_compare_and_store() (3-28/hw_cs.s): compare-and-store built from the *)
(* PowerPC's load-and-reserve (lwarx) and store-conditional (stwcx.), run  *)
(* by any number of threads on one word.  A reservation belongs to a       *)
(* processor and goes when somebody stores to the word, when its own       *)
(* processor does a stwcx. to any address, or for reasons of its own (the  *)
(* processor is external).                                                 *)
(***************************************************************************)
CONSTANTS
    Threads,
    Values,      \* of the word
    Initial,     \* what the word holds at first
    Unknown      \* a register that has not been loaded yet

\* Assumed of the constants where they get their values.
ValuesAssumption == Initial \in Values /\ Unknown \notin Values

VARIABLES
    word,        \* *address
    reserved,    \* threads that hold a reservation on it
    pc,          \* where each thread is
    old, new,    \* the arguments of its call: r7 and r4
    r9,          \* what lwarx loaded
    r3           \* the return value

vars == <<word, reserved, pc, old, new, r9, r3>>

Results == {0, 1}

Init ==
    /\ word = Initial /\ reserved = {}
    /\ pc = [t \in Threads |-> "idle"]
    /\ old = [t \in Threads |-> Unknown] /\ new = [t \in Threads |-> Unknown]
    /\ r9 = [t \in Threads |-> Unknown]
    /\ r3 = [t \in Threads |-> 0]

Goto(t, place) == pc' = [pc EXCEPT ![t] = place]

Call(t) ==
    /\ pc[t] = "idle" /\ Goto(t, "lwarx")
    /\ \E o, n \in Values : old' = [old EXCEPT ![t] = o] /\ new' = [new EXCEPT ![t] = n]
    /\ UNCHANGED <<word, reserved, r9, r3>>

(* lwarx r9,0,r5 and li r3,1                                                *)
lwarx(t) ==
    /\ pc[t] = "lwarx" /\ Goto(t, "cmplw")
    /\ r9' = [r9 EXCEPT ![t] = word] /\ r3' = [r3 EXCEPT ![t] = 1]
    /\ reserved' = reserved \cup {t}
    /\ UNCHANGED <<word, old, new>>

(* cmplw and bne-- fail                                                     *)
cmplw(t) ==
    /\ pc[t] = "cmplw"
    /\ Goto(t, IF r9[t] = old[t] THEN "stwcx" ELSE "fail")
    /\ UNCHANGED <<word, reserved, old, new, r9, r3>>

(* Mutant: an ordinary store.                                               *)
stwcx_Plain(t) ==
    /\ pc[t] = "stwcx" /\ word' = new[t] /\ reserved' = {} /\ Goto(t, "blr")
    /\ UNCHANGED <<old, new, r9, r3>>

(* stwcx. r4,0,r5 and, without the reservation, bne-- looptry               *)
stwcx(t) ==
    /\ pc[t] = "stwcx"
    /\ IF t \in reserved
       THEN /\ word' = new[t] /\ reserved' = {} /\ Goto(t, "blr")
       ELSE Goto(t, "lwarx") /\ UNCHANGED <<word, reserved>>
    /\ UNCHANGED <<old, new, r9, r3>>

(* Mutant: the reservation is kept.                                         *)
Fail_NoDummy(t) ==
    /\ pc[t] = "fail" /\ Goto(t, "blr") /\ r3' = [r3 EXCEPT ![t] = 0]
    /\ UNCHANGED <<word, reserved, old, new, r9>>

(* stwcx. to the dummy address, to be rid of the reservation; li r3,0       *)
Fail(t) ==
    /\ pc[t] = "fail" /\ Goto(t, "blr")
    /\ reserved' = reserved \ {t} /\ r3' = [r3 EXCEPT ![t] = 0]
    /\ UNCHANGED <<word, old, new, r9>>

blr(t) ==
    /\ pc[t] = "blr" /\ Goto(t, "idle")
    /\ UNCHANGED <<word, reserved, old, new, r9, r3>>

Lose(t) ==
    /\ t \in reserved /\ reserved' = reserved \ {t}
    /\ UNCHANGED <<word, pc, old, new, r9, r3>>

Step(t) == lwarx(t) \/ cmplw(t) \/ stwcx(t) \/ Fail(t) \/ blr(t)

Next == \E t \in Threads : Call(t) \/ Step(t) \/ Lose(t)

Spec == Init /\ [][Next]_vars

-----------------------------------------------------------------------------
TypeOK ==
    /\ word \in Values /\ reserved \subseteq Threads
    /\ pc \in [Threads -> {"idle", "lwarx", "cmplw", "stwcx", "fail", "blr"}]
    /\ old \in [Threads -> Values \cup {Unknown}] /\ new \in [Threads -> Values \cup {Unknown}]
    /\ r9 \in [Threads -> Values \cup {Unknown}] /\ r3 \in [Threads -> Results]

\* A reservation is held only by a thread on its way to the store, and the word
\* is then still what that thread has loaded; it stores only over the value it
\* was given, and no reservation outlives the call.
ReservationHolds ==
    /\ TypeOK
    /\ \A t \in reserved : pc[t] \in {"cmplw", "stwcx", "fail"} /\ r9[t] = word
    /\ \A t \in Threads :
          /\ pc[t] = "stwcx" => r9[t] = old[t]
          /\ pc[t] = "fail" => r9[t] # old[t]
          /\ pc[t] \in {"cmplw", "stwcx", "fail"} => r3[t] = 1
          /\ pc[t] # "idle" => old[t] \in Values /\ new[t] \in Values

(* A call has been decided by the load that found another value or by the   *)
(* store that succeeded.                                                    *)
Decided(t) == pc[t] \in {"fail", "blr"} \/ (pc[t] = "cmplw" /\ r9[t] # old[t])

Phase(t) == IF pc[t] = "idle" THEN "idle" ELSE IF Decided(t) THEN "decided" ELSE "called"

Atomic == INSTANCE AtomicStore WITH
    phase  <- [t \in Threads |-> Phase(t)],
    result <- [t \in Threads |-> IF pc[t] = "blr" THEN r3[t] ELSE 0]

\* What happens at lwarx and stwcx. amounts to one atomic step per call, with
\* the result the function returns, whatever the threads and the lost
\* reservations do in between.
AtomicStoreSpec == Atomic!Spec
=============================================================================
