-------------------------- MODULE ProgramsProofs ----------------------------
(***************************************************************************)
(* What the programs of MCPrograms promise, for every value of their       *)
(* constants, each for its own specification: compare-and-store, the chat, *)
(* cooperative threads, the exception handler, interposition, inheritance, *)
(* rerouting, named semaphores and memory, the shared region, the file     *)
(* watcher, the query, the list of tasks, the file system events and the   *)
(* virtual machine; and at the end for the programs together, as they are  *)
(* model-checked.                                                          *)
(***************************************************************************)
EXTENDS MCPrograms, FiniteSetTheorems, TLAPS

(* With no thread on its way, nothing is reserved.                          *)
LEMMA ReservationInit == ValuesAssumption /\ Init => ReservationHolds
BY DEF ValuesAssumption, Init, ReservationHolds, TypeOK, Results

(* ReservationHolds is inductive.  The step that matters is a successful    *)
(* stwcx: it takes the reservation from every other thread, whose r9 may    *)
(* now differ from the word.                                                *)
LEMMA ReservationStep ==
  ASSUME ValuesAssumption, ReservationHolds, [Next]_vars
  PROVE  ReservationHolds'
<1> USE DEF ReservationHolds, TypeOK, Results, Goto
<1>1. ASSUME NEW t \in Threads, Call(t) PROVE ReservationHolds'
  BY <1>1 DEF Call
<1>2. ASSUME NEW t \in Threads, lwarx(t) PROVE ReservationHolds'
  BY <1>2 DEF lwarx
<1>3. ASSUME NEW t \in Threads, cmplw(t) PROVE ReservationHolds'
  BY <1>3 DEF cmplw
<1>4. ASSUME NEW t \in Threads, stwcx(t) PROVE ReservationHolds'
  <2>1. CASE t \in reserved
    BY <1>4, <2>1 DEF stwcx
  <2>2. CASE t \notin reserved
    BY <1>4, <2>2 DEF stwcx
  <2> QED BY <2>1, <2>2
<1>5. ASSUME NEW t \in Threads, Fail(t) PROVE ReservationHolds'
  BY <1>5 DEF Fail
<1>6. ASSUME NEW t \in Threads, blr(t) PROVE ReservationHolds'
  BY <1>6 DEF blr
<1>7. ASSUME NEW t \in Threads, Lose(t) PROVE ReservationHolds'
  BY <1>7 DEF Lose
<1>8. CASE UNCHANGED vars
  BY <1>8 DEF vars
<1> QED BY <1>1, <1>2, <1>3, <1>4, <1>5, <1>6, <1>7, <1>8 DEF Next, Step

(* No reservation outlives a change of the word or the call it was made in. *)
THEOREM ReservationsProtect ==
  ASSUME ValuesAssumption
  PROVE  Spec => []ReservationHolds
<1>1. Init => ReservationHolds
  BY ReservationInit
<1>2. ReservationHolds /\ [Next]_vars => ReservationHolds'
  BY ReservationStep
<1> QED BY <1>1, <1>2, PTL DEF Spec

-----------------------------------------------------------------------------

LEMMA AtomicInit == Init => Atomic!Init
BY DEF Init, Atomic!Init, Phase

(* A step of a thread leaves the phase and the result of the others alone.  *)
LEMMA AtomicStep ==
  ASSUME ReservationHolds, [Next]_vars
  PROVE  [Atomic!Next]_Atomic!vars
<1> USE DEF ReservationHolds, TypeOK, Results, Goto, Phase, Decided
<1>1. ASSUME NEW t \in Threads, Call(t) PROVE Atomic!Call(t)
  <2>1. pc[t] = "idle" /\ pc' = [pc EXCEPT ![t] = "lwarx"] /\ UNCHANGED <<word, r3>>
    BY <1>1 DEF Call
  <2>2. [q \in Threads |-> Phase(q)]' = [[q \in Threads |-> Phase(q)] EXCEPT ![t] = "called"]
    BY <1>1, <2>1, Zenon DEF Call
  <2>3. [q \in Threads |-> IF pc[q] = "blr" THEN r3[q] ELSE 0]' =
           [q \in Threads |-> IF pc[q] = "blr" THEN r3[q] ELSE 0]
    BY <2>1
  <2> QED BY <1>1, <2>1, <2>2, <2>3 DEF Call, Atomic!Call
<1>2. ASSUME NEW t \in Threads, lwarx(t) PROVE [Atomic!Next]_Atomic!vars
  <2>1. CASE word = old[t]
    BY <1>2, <2>1 DEF lwarx, Atomic!vars
  <2>2. CASE word # old[t]
    <3>1. Atomic!CompareAndStore(t)
      BY <1>2, <2>2 DEF lwarx, Atomic!CompareAndStore
    <3> QED BY <3>1 DEF Atomic!Next
  <2> QED BY <2>1, <2>2
<1>3. ASSUME NEW t \in Threads, cmplw(t) PROVE UNCHANGED Atomic!vars
  BY <1>3 DEF cmplw, Atomic!vars
<1>4. ASSUME NEW t \in Threads, stwcx(t) PROVE [Atomic!Next]_Atomic!vars
  <2>1. CASE t \in reserved
    <3>1. Atomic!CompareAndStore(t)
      BY <1>4, <2>1, Zenon DEF stwcx, Atomic!CompareAndStore
    <3> QED BY <3>1 DEF Atomic!Next
  <2>2. CASE t \notin reserved
    BY <1>4, <2>2 DEF stwcx, Atomic!vars
  <2> QED BY <2>1, <2>2
<1>5. ASSUME NEW t \in Threads, Fail(t) PROVE UNCHANGED Atomic!vars
  BY <1>5 DEF Fail, Atomic!vars
<1>6. ASSUME NEW t \in Threads, blr(t) PROVE Atomic!Return(t)
  BY <1>6 DEF blr, Atomic!Return
<1>7. ASSUME NEW t \in Threads, Lose(t) PROVE UNCHANGED Atomic!vars
  BY <1>7 DEF Lose, Atomic!vars
<1>8. CASE UNCHANGED vars
  BY <1>8 DEF vars, Atomic!vars
<1> QED
  BY <1>1, <1>2, <1>3, <1>4, <1>5, <1>6, <1>7, <1>8 DEF Next, Step, Atomic!Next

(* "Performs the following atomically", whatever the other threads do.      *)
THEOREM StoresAtomically ==
  ASSUME ValuesAssumption
  PROVE  Spec => AtomicStoreSpec
<1>1. Init => Atomic!Init
  BY AtomicInit
<1>2. ReservationHolds /\ [Next]_vars => [Atomic!Next]_Atomic!vars
  BY AtomicStep
<1> QED BY ReservationsProtect, <1>1, <1>2, PTL DEF Spec, AtomicStoreSpec, Atomic!Spec

-----------------------------------------------------------------------------
Single(s) == \A m, n \in 1..Len(s) : s[m] = s[n] => m = n

(* A request is that of the step its client is in, unless it has given up. *)
Matching(c) ==
    /\ wire[c] # Chat!None => doAnswer[c] = {} /\ (Chat!Waits(c) => wire[c] = doStep[c])
    /\ doStep[c] = "off" => wire[c] = Chat!None /\ doAnswer[c] = {}

(* What clients may have sent as the operands, and what a client knows of  *)
(* them from the step it has reached.                                      *)
SentA == {Arguments[d].a : d \in Chat!Started}
SentB == {Arguments[d].b : d \in Chat!Started}

Operands(c) ==
    /\ doStep[c] \in {"setB", "getSum"} \/ (doStep[c] = "setA" /\ doAnswer[c] # {}) => a \in SentA
    /\ doStep[c] = "getSum" \/ (doStep[c] = "setB" /\ doAnswer[c] # {}) => b \in SentB
    /\ doStep[c] = "getSum" => doAnswer[c] \subseteq Chat!Sums
    /\ doStep[c] = "release" /\ proxy[c] => doShown[c] # {} /\ doShown[c] \subseteq Chat!Sums

(* The server calls a client back once, while it waits for its hello or has*)
(* given up: the answer to that call is taken for no other.                *)
CalledBack(c) ==
    /\ doStep[c] \in {"off", "rootProxy"} \/ wire[c] \in {"rootProxy", "helloFromClient"} =>
          c \notin Chat!Range(calls)
    /\ c \in Chat!Range(calls) /\ Chat!Waits(c) =>
          doStep[c] = "helloFromClient" /\ wire[c] = Chat!None /\ doAnswer[c] = {}
    /\ doStep[c] = "helloFromClient" /\ wire[c] = Chat!None /\ doAnswer[c] = {} => c \in Chat!Range(calls)

ChatInv ==
    /\ Chat!TypeOK /\ Single(calls)
    /\ \A c \in Clients : Matching(c) /\ Operands(c) /\ CalledBack(c)

-----------------------------------------------------------------------------
(* The messages, and the one that follows each of them.                    *)
LEMMA Asked ==
    /\ Chat!Range(Chat!Messages) = {"rootProxy", "helloFromClient", "setA", "setB", "getSum"}
    /\ Chat!Following("rootProxy") = "helloFromClient" /\ Chat!Following("helloFromClient") = "setA"
    /\ Chat!Following("setA") = "setB" /\ Chat!Following("setB") = "getSum"
<1>1. Chat!Range(Chat!Messages) = {"rootProxy", "helloFromClient", "setA", "setB", "getSum"}
  BY DEF Chat!Range, Chat!Messages
<1>2. \A m \in 2..5 : m = 2 \/ m = 3 \/ m = 4 \/ m = 5
  OBVIOUS
<1>3. ASSUME NEW k \in 2..5 PROVE Chat!Following(Chat!Messages[k - 1]) = Chat!Messages[k]
  <2>1. \A m \in 2..5 : Chat!Messages[m - 1] = Chat!Messages[k - 1] => m = k
    BY <1>2 DEF Chat!Messages
  <2> QED BY <2>1 DEF Chat!Following
<1> QED BY <1>1, <1>3 DEF Chat!Messages

(* The stack of calls grows at its end, by a client it does not hold yet...*)
LEMMA Grown ==
    ASSUME NEW s \in Seq(Clients), Single(s), NEW c \in Clients, c \notin Chat!Range(s)
    PROVE  /\ Append(s, c) \in Seq(Clients) /\ Single(Append(s, c))
           /\ Chat!Range(Append(s, c)) = Chat!Range(s) \cup {c}
<1> DEFINE t == Append(s, c)
<1>1. t \in Seq(Clients) /\ Len(t) = Len(s) + 1 /\ t[Len(s) + 1] = c
      /\ \A m \in 1..Len(s) : t[m] = s[m]
  OBVIOUS
<1>2. \A m \in 1..Len(s) : s[m] # c
  BY DEF Chat!Range
<1>3. \A m \in 1..Len(t) : m \in 1..Len(s) \/ m = Len(s) + 1
  BY <1>1
<1>4. Single(t)
  BY <1>1, <1>2, <1>3 DEF Single
<1>5. Chat!Range(t) = Chat!Range(s) \cup {c}
  BY <1>1, <1>3 DEF Chat!Range
<1> QED BY <1>1, <1>4, <1>5

(* ... and shrinks there.                                                  *)
LEMMA Shrunk ==
    ASSUME NEW s \in Seq(Clients), Single(s), s # <<>>
    PROVE  /\ s[Len(s)] \in Clients /\ s[Len(s)] \in Chat!Range(s)
           /\ SubSeq(s, 1, Len(s) - 1) \in Seq(Clients) /\ Single(SubSeq(s, 1, Len(s) - 1))
           /\ Chat!Range(SubSeq(s, 1, Len(s) - 1)) = Chat!Range(s) \ {s[Len(s)]}
<1> DEFINE t == SubSeq(s, 1, Len(s) - 1)
<1>1. Len(s) \in Nat \ {0} /\ \A m \in 1..Len(s) : s[m] \in Clients
  OBVIOUS
<1>2. t = [m \in 1..(Len(s) - 1) |-> s[m]]
  BY <1>1
<1> HIDE DEF t
<1>3. t \in Seq(Clients) /\ Len(t) = Len(s) - 1
  BY <1>1, <1>2
<1>4. Single(t)
  BY <1>1, <1>2, <1>3 DEF Single
<1>5. Chat!Range(t) = Chat!Range(s) \ {s[Len(s)]}
  BY <1>1, <1>2 DEF Chat!Range, Single
<1>6. s[Len(s)] \in Clients /\ s[Len(s)] \in Chat!Range(s)
  BY <1>1 DEF Chat!Range
<1> QED BY <1>3, <1>4, <1>5, <1>6 DEF t

(* Who has come has come, and what was sent stays so.                      *)
LEMMA MoreSent ==
    ASSUME Chat!Started \subseteq Chat!Started'
    PROVE  SentA \subseteq SentA' /\ SentB \subseteq SentB' /\ Chat!Sums \subseteq Chat!Sums'
BY DEF SentA, SentB, Chat!Sums

LEMMA SumOfSent ==
    ASSUME NEW x \in SentA, NEW y \in SentB
    PROVE  x + y \in Chat!Sums
BY DEF SentA, SentB, Chat!Sums

(* Nobody has asked for anything at first.                                 *)
LEMMA ChatInit == Chat!Init => ChatInv
BY Asked DEF Chat!Init, ChatInv, Chat!TypeOK, Single, Matching, Operands, CalledBack, Chat!Waits, Chat!None, Chat!Range

(* Without a proxy anything is printed.                                    *)
LEMMA NilTested ==
    ASSUME Chat!ArgumentsAssumption, Chat!TypeOK, NEW c \in Clients, Chat!TestNil(c)
    PROVE  /\ doStep' \in [Clients -> {"off", "release", "exit", "killed"} \cup Chat!Range(Chat!Messages)]
           /\ proxy' \in [Clients -> BOOLEAN] /\ doShown' \in [Clients -> SUBSET Nat]
<1>1. PICK float \in Undefined : doShown' = [doShown EXCEPT ![c] = {float}]
  BY DEF Chat!TestNil
<1>2. {float} \in SUBSET Nat
  BY DEF Chat!ArgumentsAssumption
<1>3. doShown' \in [Clients -> SUBSET Nat]
  BY <1>1, <1>2 DEF Chat!TypeOK
<1>4. /\ doStep' \in [Clients -> {"off", "release", "exit", "killed"} \cup Chat!Range(Chat!Messages)]
      /\ proxy' \in [Clients -> BOOLEAN]
  BY DEF Chat!TestNil, Chat!TypeOK
<1> QED BY <1>3, <1>4

(* The first request, or none at all.                                      *)
LEMMA ConnectStep ==
    ASSUME Chat!ArgumentsAssumption, ChatInv, NEW c \in Clients, Chat!connect(c)
    PROVE  ChatInv'
<1> USE Asked DEF Chat!ArgumentsAssumption, ChatInv, Chat!TypeOK, Chat!None, Chat!Void, Chat!Waits
<1>1. Chat!TypeOK'
  BY NilTested DEF Chat!connect, Chat!Send
<1>2. Single(calls)'
  BY DEF Chat!connect, Single
<1>3. SentA \subseteq SentA' /\ SentB \subseteq SentB' /\ Chat!Sums \subseteq Chat!Sums'
  <2>1. Chat!Started \subseteq Chat!Started'
    BY DEF Chat!Started, Chat!connect, Chat!Send, Chat!TestNil
  <2> QED BY <2>1, MoreSent
<1>4. ASSUME NEW d \in Clients PROVE (Matching(d) /\ Operands(d) /\ CalledBack(d))'
  <2>1. CASE d = c
    <3>1. Matching(d)'
      BY <2>1 DEF Chat!connect, Chat!Send, Chat!TestNil, Matching, CalledBack
    <3>2. Operands(d)'
      BY <1>3, <2>1 DEF Chat!connect, Chat!Send, Chat!TestNil, Matching, Operands, CalledBack
    <3>3. CalledBack(d)'
      BY <2>1 DEF Chat!connect, Chat!Send, Chat!TestNil, Matching, CalledBack
    <3> QED BY <3>1, <3>2, <3>3
  <2>2. CASE d # c
    <3>1. Matching(d)'
      BY <2>2 DEF Chat!connect, Chat!Send, Chat!TestNil, Matching
    <3>2. Operands(d)'
      BY <1>3, <2>2 DEF Chat!connect, Chat!Send, Chat!TestNil, Operands
    <3>3. CalledBack(d)'
      BY <2>2 DEF Chat!connect, Chat!Send, Chat!TestNil, CalledBack
    <3> QED BY <3>1, <3>2, <3>3
  <2> QED BY <2>1, <2>2
<1> QED BY <1>1, <1>2, <1>4

(* The next request, when the one before has been answered.                *)
LEMMA AnsweredStep ==
    ASSUME Chat!ArgumentsAssumption, ChatInv, NEW c \in Clients, Chat!Answered(c)
    PROVE  ChatInv'
<1> USE Asked DEF Chat!ArgumentsAssumption, ChatInv, Chat!TypeOK, Chat!None, Chat!Void, Chat!Waits
<1>1. Chat!TypeOK'
  BY DEF Chat!Answered, Chat!Send
<1>2. Single(calls)'
  BY DEF Chat!Answered, Single
<1>3. SentA \subseteq SentA' /\ SentB \subseteq SentB' /\ Chat!Sums \subseteq Chat!Sums'
  <2>1. Chat!Started \subseteq Chat!Started'
    BY DEF Chat!Started, Chat!Answered, Chat!Send
  <2> QED BY <2>1, MoreSent
<1>4. ASSUME NEW d \in Clients PROVE (Matching(d) /\ Operands(d) /\ CalledBack(d))'
  <2>1. CASE d = c
    <3>1. Matching(d)'
      BY <2>1 DEF Chat!Answered, Chat!Send, Matching, CalledBack
    <3>2. Operands(d)'
      BY <1>3, <2>1 DEF Chat!Answered, Chat!Send, Matching, Operands, CalledBack
    <3>3. CalledBack(d)'
      BY <2>1 DEF Chat!Answered, Chat!Send, Matching, CalledBack
    <3> QED BY <3>1, <3>2, <3>3
  <2>2. CASE d # c
    <3>1. Matching(d)'
      BY <2>2 DEF Chat!Answered, Chat!Send, Matching
    <3>2. Operands(d)'
      BY <1>3, <2>2 DEF Chat!Answered, Chat!Send, Operands
    <3>3. CalledBack(d)'
      BY <2>2 DEF Chat!Answered, Chat!Send, CalledBack
    <3> QED BY <3>1, <3>2, <3>3
  <2> QED BY <2>1, <2>2
<1> QED BY <1>1, <1>2, <1>4

(* The sum is printed.                                                     *)
LEMMA PrintStep ==
    ASSUME Chat!ArgumentsAssumption, ChatInv, NEW c \in Clients, Chat!PrintSum(c)
    PROVE  ChatInv'
<1> USE Asked DEF Chat!ArgumentsAssumption, ChatInv, Chat!TypeOK, Chat!None, Chat!Void, Chat!Waits
<1>1. Chat!TypeOK'
  BY DEF Chat!PrintSum
<1>2. Single(calls)'
  BY DEF Chat!PrintSum, Single
<1>3. SentA \subseteq SentA' /\ SentB \subseteq SentB' /\ Chat!Sums \subseteq Chat!Sums'
  <2>1. Chat!Started \subseteq Chat!Started'
    BY DEF Chat!Started, Chat!PrintSum
  <2> QED BY <2>1, MoreSent
<1>4. ASSUME NEW d \in Clients PROVE (Matching(d) /\ Operands(d) /\ CalledBack(d))'
  <2>1. CASE d = c
    <3>1. Matching(d)'
      BY <2>1 DEF Chat!PrintSum, Matching, CalledBack
    <3>2. Operands(d)'
      BY <1>3, <2>1 DEF Chat!PrintSum, Matching, Operands, CalledBack
    <3>3. CalledBack(d)'
      BY <2>1 DEF Chat!PrintSum, Matching, CalledBack
    <3> QED BY <3>1, <3>2, <3>3
  <2>2. CASE d # c
    <3>1. Matching(d)'
      BY <2>2 DEF Chat!PrintSum, Matching
    <3>2. Operands(d)'
      BY <1>3, <2>2 DEF Chat!PrintSum, Operands
    <3>3. CalledBack(d)'
      BY <2>2 DEF Chat!PrintSum, CalledBack
    <3> QED BY <3>1, <3>2, <3>3
  <2> QED BY <2>1, <2>2
<1> QED BY <1>1, <1>2, <1>4

(* What it had is released.                                                *)
LEMMA ReleaseStep ==
    ASSUME Chat!ArgumentsAssumption, ChatInv, NEW c \in Clients, Chat!Release(c)
    PROVE  ChatInv'
<1> USE Asked DEF Chat!ArgumentsAssumption, ChatInv, Chat!TypeOK, Chat!None, Chat!Void, Chat!Waits
<1>1. Chat!TypeOK'
  BY DEF Chat!Release
<1>2. Single(calls)'
  BY DEF Chat!Release, Single
<1>3. SentA \subseteq SentA' /\ SentB \subseteq SentB' /\ Chat!Sums \subseteq Chat!Sums'
  <2>1. Chat!Started \subseteq Chat!Started'
    BY DEF Chat!Started, Chat!Release
  <2> QED BY <2>1, MoreSent
<1>4. ASSUME NEW d \in Clients PROVE (Matching(d) /\ Operands(d) /\ CalledBack(d))'
  <2>1. CASE d = c
    <3>1. Matching(d)'
      BY <2>1 DEF Chat!Release, Matching, CalledBack
    <3>2. Operands(d)'
      BY <1>3, <2>1 DEF Chat!Release, Matching, Operands, CalledBack
    <3>3. CalledBack(d)'
      BY <2>1 DEF Chat!Release, Matching, CalledBack
    <3> QED BY <3>1, <3>2, <3>3
  <2>2. CASE d # c
    <3>1. Matching(d)'
      BY <2>2 DEF Chat!Release, Matching
    <3>2. Operands(d)'
      BY <1>3, <2>2 DEF Chat!Release, Operands
    <3>3. CalledBack(d)'
      BY <2>2 DEF Chat!Release, CalledBack
    <3> QED BY <3>1, <3>2, <3>3
  <2> QED BY <2>1, <2>2
<1> QED BY <1>1, <1>2, <1>4

(* A client gives up; its request stays on the wire.                       *)
LEMMA TimeOutStep ==
    ASSUME Chat!ArgumentsAssumption, ChatInv, NEW c \in Clients, Chat!TimeOut(c)
    PROVE  ChatInv'
<1> USE Asked DEF Chat!ArgumentsAssumption, ChatInv, Chat!TypeOK, Chat!None, Chat!Void, Chat!Waits
<1>1. Chat!TypeOK'
  BY NilTested DEF Chat!TimeOut
<1>2. Single(calls)'
  BY DEF Chat!TimeOut, Single
<1>3. SentA \subseteq SentA' /\ SentB \subseteq SentB' /\ Chat!Sums \subseteq Chat!Sums'
  <2>1. Chat!Started \subseteq Chat!Started'
    BY DEF Chat!Started, Chat!TimeOut, Chat!TestNil
  <2> QED BY <2>1, MoreSent
<1>4. ASSUME NEW d \in Clients PROVE (Matching(d) /\ Operands(d) /\ CalledBack(d))'
  <2>1. CASE d = c
    <3>1. Matching(d)'
      BY <2>1 DEF Chat!TimeOut, Chat!TestNil, Matching, CalledBack
    <3>2. Operands(d)'
      BY <1>3, <2>1 DEF Chat!TimeOut, Chat!TestNil, Matching, Operands, CalledBack
    <3>3. CalledBack(d)'
      BY <2>1 DEF Chat!TimeOut, Chat!TestNil, Matching, CalledBack
    <3> QED BY <3>1, <3>2, <3>3
  <2>2. CASE d # c
    <3>1. Matching(d)'
      BY <2>2 DEF Chat!TimeOut, Chat!TestNil, Matching
    <3>2. Operands(d)'
      BY <1>3, <2>2 DEF Chat!TimeOut, Chat!TestNil, Operands
    <3>3. CalledBack(d)'
      BY <2>2 DEF Chat!TimeOut, Chat!TestNil, CalledBack
    <3> QED BY <3>1, <3>2, <3>3
  <2> QED BY <2>1, <2>2
<1> QED BY <1>1, <1>2, <1>4

(* The server answers the request for its proxy.                           *)
LEMMA RootProxyStep ==
    ASSUME Chat!ArgumentsAssumption, ChatInv, NEW c \in Clients, Chat!RootProxy(c)
    PROVE  ChatInv'
<1> USE Asked DEF Chat!ArgumentsAssumption, ChatInv, Chat!TypeOK, Chat!None, Chat!Void, Chat!Waits
<1>1. Chat!TypeOK'
  BY DEF Chat!RootProxy, Chat!Take, Chat!Reply
<1>2. Single(calls)'
  BY DEF Chat!RootProxy, Single
<1>3. SentA \subseteq SentA' /\ SentB \subseteq SentB' /\ Chat!Sums \subseteq Chat!Sums'
  <2>1. Chat!Started \subseteq Chat!Started'
    BY DEF Chat!Started, Chat!RootProxy, Chat!Take
  <2> QED BY <2>1, MoreSent
<1>4. ASSUME NEW d \in Clients PROVE (Matching(d) /\ Operands(d) /\ CalledBack(d))'
  <2>1. CASE d = c
    <3>1. Matching(d)'
      BY <2>1 DEF Chat!RootProxy, Chat!Take, Chat!Reply, Matching, CalledBack
    <3>2. Operands(d)'
      BY <1>3, <2>1 DEF Chat!RootProxy, Chat!Take, Chat!Reply, Matching, Operands, CalledBack
    <3>3. CalledBack(d)'
      BY <2>1 DEF Chat!RootProxy, Chat!Take, Chat!Reply, Matching, CalledBack
    <3> QED BY <3>1, <3>2, <3>3
  <2>2. CASE d # c
    <3>1. Matching(d)'
      BY <2>2 DEF Chat!RootProxy, Chat!Take, Chat!Reply, Matching
    <3>2. Operands(d)'
      BY <1>3, <2>2 DEF Chat!RootProxy, Chat!Take, Chat!Reply, Operands
    <3>3. CalledBack(d)'
      BY <2>2 DEF Chat!RootProxy, Chat!Take, Chat!Reply, CalledBack
    <3> QED BY <3>1, <3>2, <3>3
  <2> QED BY <2>1, <2>2
<1> QED BY <1>1, <1>2, <1>4

(* A hello makes it call the client back.                                  *)
LEMMA HelloStep ==
    ASSUME Chat!ArgumentsAssumption, ChatInv, NEW c \in Clients, Chat!helloFromClient(c)
    PROVE  ChatInv'
<1> USE Asked DEF Chat!ArgumentsAssumption, ChatInv, Chat!TypeOK, Chat!None, Chat!Void, Chat!Waits
<1>0. /\ calls' = Append(calls, c) /\ calls' \in Seq(Clients) /\ Single(calls')
      /\ Chat!Range(calls') = Chat!Range(calls) \cup {c}
  BY Grown DEF Chat!helloFromClient, Chat!Take, CalledBack
<1>1. Chat!TypeOK'
  BY <1>0 DEF Chat!helloFromClient, Chat!Take
<1>2. Single(calls)'
  BY <1>0 DEF Chat!helloFromClient
<1>3. SentA \subseteq SentA' /\ SentB \subseteq SentB' /\ Chat!Sums \subseteq Chat!Sums'
  <2>1. Chat!Started \subseteq Chat!Started'
    BY DEF Chat!Started, Chat!helloFromClient, Chat!Take
  <2> QED BY <2>1, MoreSent
<1>4. ASSUME NEW d \in Clients PROVE (Matching(d) /\ Operands(d) /\ CalledBack(d))'
  <2>1. CASE d = c
    <3>1. Matching(d)'
      BY <1>0, <2>1 DEF Chat!helloFromClient, Chat!Take, Matching, CalledBack
    <3>2. Operands(d)'
      BY <1>0, <1>3, <2>1 DEF Chat!helloFromClient, Chat!Take, Matching, Operands, CalledBack
    <3>3. CalledBack(d)'
      BY <1>0, <2>1 DEF Chat!helloFromClient, Chat!Take, Matching, CalledBack
    <3> QED BY <3>1, <3>2, <3>3
  <2>2. CASE d # c
    <3>1. Matching(d)'
      BY <1>0, <2>2 DEF Chat!helloFromClient, Chat!Take, Matching
    <3>2. Operands(d)'
      BY <1>0, <1>3, <2>2 DEF Chat!helloFromClient, Chat!Take, Operands
    <3>3. CalledBack(d)'
      BY <1>0, <2>2 DEF Chat!helloFromClient, Chat!Take, CalledBack
    <3> QED BY <3>1, <3>2, <3>3
  <2> QED BY <2>1, <2>2
<1> QED BY <1>1, <1>2, <1>4

(* The innermost call returns, and the hello of that client is answered.   *)
LEMMA WhoAreYouStep ==
    ASSUME Chat!ArgumentsAssumption, ChatInv, Chat!WhoAreYou
    PROVE  ChatInv'
<1> USE Asked DEF Chat!ArgumentsAssumption, ChatInv, Chat!TypeOK, Chat!None, Chat!Void, Chat!Waits
<1>0. /\ calls[Len(calls)] \in Clients /\ calls[Len(calls)] \in Chat!Range(calls)
      /\ calls' \in Seq(Clients) /\ Single(calls')
      /\ Chat!Range(calls') = Chat!Range(calls) \ {calls[Len(calls)]}
  BY Shrunk DEF Chat!WhoAreYou
<1>1. Chat!TypeOK'
  BY <1>0 DEF Chat!WhoAreYou, Chat!Reply
<1>2. Single(calls)'
  BY <1>0 DEF Chat!WhoAreYou
<1>3. SentA \subseteq SentA' /\ SentB \subseteq SentB' /\ Chat!Sums \subseteq Chat!Sums'
  <2>1. Chat!Started \subseteq Chat!Started'
    BY DEF Chat!Started, Chat!WhoAreYou
  <2> QED BY <2>1, MoreSent
<1>4. ASSUME NEW d \in Clients PROVE (Matching(d) /\ Operands(d) /\ CalledBack(d))'
  <2>1. CASE d = calls[Len(calls)]
    <3>1. Matching(d)'
      BY <1>0, <2>1 DEF Chat!WhoAreYou, Chat!Reply, Matching, CalledBack
    <3>2. Operands(d)'
      BY <1>0, <1>3, <2>1 DEF Chat!WhoAreYou, Chat!Reply, Matching, Operands, CalledBack
    <3>3. CalledBack(d)'
      BY <1>0, <2>1 DEF Chat!WhoAreYou, Chat!Reply, Matching, CalledBack
    <3> QED BY <3>1, <3>2, <3>3
  <2>2. CASE d # calls[Len(calls)]
    <3>1. Matching(d)'
      BY <1>0, <2>2 DEF Chat!WhoAreYou, Chat!Reply, Matching
    <3>2. Operands(d)'
      BY <1>0, <1>3, <2>2 DEF Chat!WhoAreYou, Chat!Reply, Operands
    <3>3. CalledBack(d)'
      BY <1>0, <2>2 DEF Chat!WhoAreYou, Chat!Reply, CalledBack
    <3> QED BY <3>1, <3>2, <3>3
  <2> QED BY <2>1, <2>2
<1> QED BY <1>1, <1>2, <1>4

(* The operands are set, to the same value by whoever asks.                *)
LEMMA SetAStep ==
    ASSUME Chat!ArgumentsAssumption, ChatInv, NEW c \in Clients, Chat!setA(c)
    PROVE  ChatInv'
<1> USE Asked DEF Chat!ArgumentsAssumption, ChatInv, Chat!TypeOK, Chat!None, Chat!Void, Chat!Waits
<1>1. Chat!TypeOK'
  BY DEF Chat!setA, Chat!Take, Chat!Reply
<1>2. Single(calls)'
  BY DEF Chat!setA, Single
<1>3. SentA \subseteq SentA' /\ SentB \subseteq SentB' /\ Chat!Sums \subseteq Chat!Sums'
  <2>1. Chat!Started \subseteq Chat!Started'
    BY DEF Chat!Started, Chat!setA, Chat!Take
  <2> QED BY <2>1, MoreSent
<1>4. Arguments[c] \in [a : Nat, b : Nat] /\ Arguments[c].a \in SentA'
  <2>1. wire[c] # Chat!None /\ doStep' = doStep
    BY DEF Chat!setA, Chat!Take
  <2>2. c \in Chat!Started'
    BY <2>1 DEF Matching, Chat!Started
  <2> QED BY <2>2 DEF SentA
<1>5. ASSUME NEW d \in Clients PROVE (Matching(d) /\ Operands(d) /\ CalledBack(d))'
  <2>1. CASE d = c
    <3>1. Matching(d)'
      BY <2>1 DEF Chat!setA, Chat!Take, Chat!Reply, Matching, CalledBack
    <3>2. Operands(d)'
      BY <1>3, <1>4, <2>1 DEF Chat!setA, Chat!Take, Chat!Reply, Matching, Operands, CalledBack
    <3>3. CalledBack(d)'
      BY <2>1 DEF Chat!setA, Chat!Take, Chat!Reply, Matching, CalledBack
    <3> QED BY <3>1, <3>2, <3>3
  <2>2. CASE d # c
    <3>1. Matching(d)'
      BY <2>2 DEF Chat!setA, Chat!Take, Chat!Reply, Matching
    <3>2. Operands(d)'
      BY <1>3, <1>4, <2>2 DEF Chat!setA, Chat!Take, Chat!Reply, Operands
    <3>3. CalledBack(d)'
      BY <2>2 DEF Chat!setA, Chat!Take, Chat!Reply, CalledBack
    <3> QED BY <3>1, <3>2, <3>3
  <2> QED BY <2>1, <2>2
<1> QED BY <1>1, <1>2, <1>5

(* As for the first operand.                                               *)
LEMMA SetBStep ==
    ASSUME Chat!ArgumentsAssumption, ChatInv, NEW c \in Clients, Chat!setB(c)
    PROVE  ChatInv'
<1> USE Asked DEF Chat!ArgumentsAssumption, ChatInv, Chat!TypeOK, Chat!None, Chat!Void, Chat!Waits
<1>1. Chat!TypeOK'
  BY DEF Chat!setB, Chat!Take, Chat!Reply
<1>2. Single(calls)'
  BY DEF Chat!setB, Single
<1>3. SentA \subseteq SentA' /\ SentB \subseteq SentB' /\ Chat!Sums \subseteq Chat!Sums'
  <2>1. Chat!Started \subseteq Chat!Started'
    BY DEF Chat!Started, Chat!setB, Chat!Take
  <2> QED BY <2>1, MoreSent
<1>4. Arguments[c] \in [a : Nat, b : Nat] /\ Arguments[c].b \in SentB'
  <2>1. wire[c] # Chat!None /\ doStep' = doStep
    BY DEF Chat!setB, Chat!Take
  <2>2. c \in Chat!Started'
    BY <2>1 DEF Matching, Chat!Started
  <2> QED BY <2>2 DEF SentB
<1>5. ASSUME NEW d \in Clients PROVE (Matching(d) /\ Operands(d) /\ CalledBack(d))'
  <2>1. CASE d = c
    <3>1. Matching(d)'
      BY <2>1 DEF Chat!setB, Chat!Take, Chat!Reply, Matching, CalledBack
    <3>2. Operands(d)'
      BY <1>3, <1>4, <2>1 DEF Chat!setB, Chat!Take, Chat!Reply, Matching, Operands, CalledBack
    <3>3. CalledBack(d)'
      BY <2>1 DEF Chat!setB, Chat!Take, Chat!Reply, Matching, CalledBack
    <3> QED BY <3>1, <3>2, <3>3
  <2>2. CASE d # c
    <3>1. Matching(d)'
      BY <2>2 DEF Chat!setB, Chat!Take, Chat!Reply, Matching
    <3>2. Operands(d)'
      BY <1>3, <1>4, <2>2 DEF Chat!setB, Chat!Take, Chat!Reply, Operands
    <3>3. CalledBack(d)'
      BY <2>2 DEF Chat!setB, Chat!Take, Chat!Reply, CalledBack
    <3> QED BY <3>1, <3>2, <3>3
  <2> QED BY <2>1, <2>2
<1> QED BY <1>1, <1>2, <1>5

(* Who asks for the sum has set both.                                      *)
LEMMA GetSumStep ==
    ASSUME Chat!ArgumentsAssumption, ChatInv, NEW c \in Clients, Chat!getSum(c)
    PROVE  ChatInv'
<1> USE Asked DEF Chat!ArgumentsAssumption, ChatInv, Chat!TypeOK, Chat!None, Chat!Void, Chat!Waits
<1>1. Chat!TypeOK'
  BY DEF Chat!getSum, Chat!Take, Chat!Reply
<1>2. Single(calls)'
  BY DEF Chat!getSum, Single
<1>3. SentA \subseteq SentA' /\ SentB \subseteq SentB' /\ Chat!Sums \subseteq Chat!Sums'
  <2>1. Chat!Started \subseteq Chat!Started'
    BY DEF Chat!Started, Chat!getSum, Chat!Take
  <2> QED BY <2>1, MoreSent
<1>4. a \in SentA /\ b \in SentB => a + b \in Chat!Sums'
  BY <1>3, SumOfSent
<1>5. ASSUME NEW d \in Clients PROVE (Matching(d) /\ Operands(d) /\ CalledBack(d))'
  <2>1. CASE d = c
    <3>1. Matching(d)'
      BY <2>1 DEF Chat!getSum, Chat!Take, Chat!Reply, Matching, CalledBack
    <3>2. Operands(d)'
      BY <1>3, <1>4, <2>1 DEF Chat!getSum, Chat!Take, Chat!Reply, Matching, Operands, CalledBack
    <3>3. CalledBack(d)'
      BY <2>1 DEF Chat!getSum, Chat!Take, Chat!Reply, Matching, CalledBack
    <3> QED BY <3>1, <3>2, <3>3
  <2>2. CASE d # c
    <3>1. Matching(d)'
      BY <2>2 DEF Chat!getSum, Chat!Take, Chat!Reply, Matching
    <3>2. Operands(d)'
      BY <1>3, <1>4, <2>2 DEF Chat!getSum, Chat!Take, Chat!Reply, Operands
    <3>3. CalledBack(d)'
      BY <2>2 DEF Chat!getSum, Chat!Take, Chat!Reply, CalledBack
    <3> QED BY <3>1, <3>2, <3>3
  <2> QED BY <2>1, <2>2
<1> QED BY <1>1, <1>2, <1>5

LEMMA ChatSteps ==
    ASSUME Chat!ArgumentsAssumption, ChatInv, [Chat!Next]_(Chat!vars)
    PROVE  ChatInv'
<1>1. CASE UNCHANGED Chat!vars
  BY <1>1 DEF Chat!vars, ChatInv, Chat!TypeOK, Single, Matching, Operands, CalledBack, Chat!Waits,
              SentA, SentB, Chat!Sums, Chat!Started
<1>2. CASE Chat!StartServer
  BY <1>2 DEF Chat!StartServer, ChatInv, Chat!TypeOK, Single, Matching, Operands, CalledBack, Chat!Waits,
              SentA, SentB, Chat!Sums, Chat!Started
<1>3. CASE Chat!WhoAreYou
  BY <1>3, WhoAreYouStep
<1>4. ASSUME NEW c \in Clients, Chat!connect(c) \/ Chat!Answered(c) \/ Chat!PrintSum(c) \/ Chat!Release(c)
                                 \/ Chat!TimeOut(c)
      PROVE  ChatInv'
  BY <1>4, ConnectStep, AnsweredStep, PrintStep, ReleaseStep, TimeOutStep
<1>5. ASSUME NEW c \in Clients,
             Chat!RootProxy(c) \/ Chat!helloFromClient(c) \/ Chat!setA(c) \/ Chat!setB(c) \/ Chat!getSum(c)
      PROVE  ChatInv'
  BY <1>5, RootProxyStep, HelloStep, SetAStep, SetBStep, GetSumStep
<1> QED BY <1>1, <1>2, <1>3, <1>4, <1>5 DEF Chat!Next

-----------------------------------------------------------------------------
\* Clients of one server (9-49/do_server.m, 9-50/do_client.m): with any number
\* of them, interleaved, nested in each other's call backs and giving up, what a
\* client with a proxy prints is the sum of operands that clients have sent, and
\* no hello is forgotten.  Since all of do_client's clients send the same two,
\* each of those that still have their proxy prints the sum of its own.
THEOREM SumsAreRight ==
    ASSUME Chat!ArgumentsAssumption
    PROVE  /\ Chat!Spec => []SharedSum
           /\ (\A c, d \in Clients : Arguments[c] = Arguments[d]) =>
                 (Chat!Spec => [](\A c \in Clients : doStep[c] = "release" /\ proxy[c] =>
                                     doShown[c] = {Arguments[c].a + Arguments[c].b}))
<1>1. Chat!Init => ChatInv
  BY ChatInit
<1>2. ChatInv /\ [Chat!Next]_(Chat!vars) => ChatInv'
  BY ChatSteps
<1>3. ChatInv => SharedSum
  BY DEF ChatInv, Operands, CalledBack, SharedSum, Chat!SharedSum
<1>4. Chat!Spec => []ChatInv
  BY <1>1, <1>2, PTL DEF Chat!Spec
<1>5. ASSUME \A c, d \in Clients : Arguments[c] = Arguments[d]
      PROVE  Chat!Spec => [](\A c \in Clients : doStep[c] = "release" /\ proxy[c] =>
                                doShown[c] = {Arguments[c].a + Arguments[c].b})
  <2> DEFINE OwnSum == \A c \in Clients : doStep[c] = "release" /\ proxy[c] =>
                          doShown[c] = {Arguments[c].a + Arguments[c].b}
  <2>1. ChatInv => OwnSum
    <3> SUFFICES ASSUME ChatInv, NEW c \in Clients, doStep[c] = "release", proxy[c]
                 PROVE  doShown[c] = {Arguments[c].a + Arguments[c].b}
      OBVIOUS
    <3>1. Chat!Sums \subseteq {Arguments[c].a + Arguments[c].b}
      BY <1>5 DEF Chat!Sums, Chat!Started
    <3>2. doShown[c] # {} /\ doShown[c] \subseteq Chat!Sums
      BY DEF ChatInv, Operands
    <3> QED BY <3>1, <3>2
  <2> HIDE DEF OwnSum
  <2>2. Chat!Spec => []OwnSum
    BY <1>4, <2>1, PTL
  <2> QED BY <2>2 DEF OwnSum
<1>6. Chat!Spec => []SharedSum
  BY <1>3, <1>4, PTL
<1> QED BY <1>5, <1>6

-----------------------------------------------------------------------------
(* The cooperative threads (7-37/CarbonThreadManager.c): before main() has  *)
(* yielded, while the threads go one after the other, and when all had      *)
(* control.                                                                 *)
Started ==
    \A k \in Cooperation!Indices : carbonPlace[k] = IF k < created THEN "ready" ELSE "none"
InTurn ==
    /\ control \in Cooperation!Indices
    /\ \A k \in Cooperation!Indices : carbonPlace[k] = IF k < control THEN "yielded" ELSE "ready"
Through == \A k \in Cooperation!Indices : carbonPlace[k] \in {"yielded", "ended"}

CarbonInv ==
    /\ Cooperation!TypeOK
    /\ carbonMain = "create" => control = Cooperation!Main /\ Started /\ whoa = {}
    /\ carbonMain = "yielded" => created = MAXTHREADS /\ ((InTurn /\ whoa = {}) \/ Through)
    /\ carbonMain = "out" => /\ control = Cooperation!Main
                             /\ \/ created < MAXTHREADS /\ Started /\ whoa = {}
                                \/ created = MAXTHREADS /\ Through
    /\ carbonMain = "exit" =>
          /\ control = Cooperation!Main /\ (created = MAXTHREADS \/ whoa = {})
          /\ \A k \in Cooperation!Indices : carbonPlace[k] = IF k < created THEN "disposed" ELSE "none"

LEMMA CarbonStep ==
    ASSUME Cooperation!ThreadsAssumption, CarbonInv, [Cooperation!Next]_(Cooperation!vars)
    PROVE  CarbonInv'
<1> USE DEF Cooperation!ThreadsAssumption, Cooperation!Indices, Cooperation!Main
<1>1. CASE Cooperation!NewThread
  BY <1>1 DEF Cooperation!NewThread, CarbonInv, Cooperation!TypeOK, Started
<1>2. CASE Cooperation!MainYields
  BY <1>2 DEF Cooperation!MainYields, CarbonInv, Cooperation!TypeOK, Started, InTurn
<1>3. CASE Cooperation!MainBack
  BY <1>3 DEF Cooperation!MainBack, CarbonInv, Cooperation!TypeOK, InTurn, Through
<1>4. CASE Cooperation!DisposeThreads
  BY <1>4 DEF Cooperation!DisposeThreads, CarbonInv, Cooperation!TypeOK, Started
<1>5. ASSUME NEW k \in Cooperation!Indices, Cooperation!threadFunction(k) PROVE CarbonInv'
  <2>1. /\ control = k /\ carbonPlace[k] = "ready" /\ carbonPlace' = [carbonPlace EXCEPT ![k] = "yielded"]
        /\ carbonMain = "yielded" /\ created = MAXTHREADS /\ InTurn /\ whoa = {}
        /\ UNCHANGED <<carbonMain, created, whoa>>
    <3>1. control = k /\ carbonPlace[k] = "ready" /\ carbonPlace' = [carbonPlace EXCEPT ![k] = "yielded"]
          /\ UNCHANGED <<carbonMain, created, whoa>>
      BY <1>5 DEF Cooperation!threadFunction
    <3>2. k # -1 /\ ~Through
      BY <3>1 DEF Through
    <3>3. carbonMain = "yielded"
      BY <3>1, <3>2 DEF CarbonInv, Cooperation!TypeOK
    <3> QED BY <3>1, <3>2, <3>3 DEF CarbonInv
  <2>2. PICK thread \in Cooperation!Following(k) : Cooperation!YieldTo(thread)
    BY <1>5 DEF Cooperation!threadFunction
  <2>3. CASE k + 1 \in Cooperation!Indices
    <3>1. control' = k + 1
      BY <2>2, <2>3 DEF Cooperation!Following, Cooperation!YieldTo, Cooperation!None
    <3>2. InTurn'
      BY <2>1, <2>3, <3>1 DEF InTurn, CarbonInv, Cooperation!TypeOK
    <3> QED BY <2>1, <3>1, <3>2, <2>3 DEF CarbonInv, Cooperation!TypeOK
  <2>4. CASE k + 1 \notin Cooperation!Indices
    <3>1. Through'
      BY <2>1, <2>4 DEF InTurn, Through, CarbonInv, Cooperation!TypeOK
    <3>2. control' \in {Cooperation!Main} \cup Cooperation!Indices
      BY <2>2, <2>4 DEF Cooperation!Following, Cooperation!YieldTo, Cooperation!None, Cooperation!Ready
    <3> QED BY <2>1, <3>1, <3>2 DEF CarbonInv, Cooperation!TypeOK
  <2> QED BY <2>3, <2>4
<1>6. ASSUME NEW k \in Cooperation!Indices, Cooperation!Whoa(k) PROVE CarbonInv'
  <2>1. /\ control = k /\ carbonPlace[k] = "yielded" /\ carbonPlace' = [carbonPlace EXCEPT ![k] = "ended"]
        /\ whoa' = whoa \cup {k} /\ UNCHANGED <<carbonMain, created>>
        /\ control' \in {Cooperation!Main} \cup Cooperation!Indices
    BY <1>6 DEF Cooperation!Whoa, Cooperation!Ready
  <2>2. carbonMain = "yielded" /\ Through
    BY <2>1 DEF CarbonInv, Cooperation!TypeOK, InTurn
  <2>3. Through'
    BY <2>1, <2>2 DEF Through, CarbonInv, Cooperation!TypeOK
  <2> QED BY <2>1, <2>2, <2>3 DEF CarbonInv, Cooperation!TypeOK
<1>7. CASE UNCHANGED Cooperation!vars
  BY <1>7 DEF Cooperation!vars, CarbonInv, Cooperation!TypeOK, Started, InTurn, Through
<1> QED BY <1>1, <1>2, <1>3, <1>4, <1>5, <1>6, <1>7 DEF Cooperation!Next

\* One after the other (7-37/CarbonThreadManager.c), for any number of threads
\* and whatever lies behind the array: control passes along it, and nobody
\* comes back before the last one has run over its end.
THEOREM ThreadsTakeTurns ==
    ASSUME Cooperation!ThreadsAssumption
    PROVE  Cooperation!Spec => []OneAfterTheOther
<1>1. Cooperation!Init => CarbonInv
  BY DEF Cooperation!ThreadsAssumption, Cooperation!Init, CarbonInv, Cooperation!TypeOK, Started,
         Cooperation!Indices
<1>2. CarbonInv /\ [Cooperation!Next]_(Cooperation!vars) => CarbonInv'
  BY CarbonStep
<1>3. CarbonInv => OneAfterTheOther
  <2> SUFFICES ASSUME CarbonInv PROVE OneAfterTheOther
    OBVIOUS
  <2>1. Cooperation!TypeOK
    BY DEF CarbonInv
  <2>2. \A k, m \in Cooperation!Indices :
           k < m /\ carbonPlace[m] \in {"yielded", "ended"} => carbonPlace[k] \in {"yielded", "ended"}
    <3>1. CASE Started \/ carbonMain = "exit"
      <4>1. \A m \in Cooperation!Indices : carbonPlace[m] \notin {"yielded", "ended"}
        BY <3>1 DEF CarbonInv, Started
      <4> QED BY <4>1
    <3>2. CASE Through
      BY <3>2 DEF Through
    <3>3. CASE InTurn
      BY <3>3 DEF InTurn, Cooperation!Indices
    <3> QED BY <2>1, <3>1, <3>2, <3>3 DEF CarbonInv, Cooperation!TypeOK
  <2>3. whoa # {} \/ (carbonMain \in {"out", "exit"} /\ created = MAXTHREADS) =>
           \A k \in Cooperation!Indices : carbonPlace[k] \in {"yielded", "ended", "disposed"}
    <3>1. CASE carbonMain = "exit"
      <4>1. created = MAXTHREADS => \A k \in Cooperation!Indices : k < created
        BY DEF Cooperation!Indices, Cooperation!ThreadsAssumption
      <4> QED BY <3>1, <4>1 DEF CarbonInv
    <3>2. CASE carbonMain # "exit"
      <4>1. CASE Through
        BY <4>1 DEF Through
      <4>2. CASE ~Through
        BY <2>1, <3>2, <4>2 DEF CarbonInv, Cooperation!TypeOK
      <4> QED BY <4>1, <4>2
    <3> QED BY <3>1, <3>2
  <2>4. carbonMain = "exit" => \A k \in Cooperation!Indices : carbonPlace[k] = "disposed" <=> k < created
    BY DEF CarbonInv
  <2> QED BY <2>1, <2>2, <2>3, <2>4 DEF OneAfterTheOther, Cooperation!OneAfterTheOther
<1> QED BY <1>1, <1>2, <1>3, PTL DEF Cooperation!Spec

-----------------------------------------------------------------------------
(* The exception handler (9-38/exception.c): where victim and handler are   *)
(* together, while the program runs.                                        *)
Before == victim \in {"allocate", "insert", "set", "create"} /\ handler = "none"
Failed == victim = "out" /\ handler = "none"
Calls  == victim = "call" /\ handler = "receive"
Waits  == /\ victim = "stopped" /\ raised = Expected /\ ~answered
          /\ \/ handler = "receive" /\ queued
             \/ handler \in {"catch", "repair", "repair set"} /\ ~queued
             \/ handler = "reply" /\ ~queued /\ counter = "graceful_dead"
Goes   == /\ handler = "ended" /\ answered /\ ~queued
          /\ \/ victim = "stopped" /\ counter = "graceful_dead"
             \/ victim = "dying" \/ (victim = "out" /\ counter = "main")
          /\ victim = "dying" => counter = "graceful_dead"

HandlerInv ==
    /\ Exception!TypeOK
    /\ Before \/ Failed \/ Calls \/ Waits \/ Goes
    /\ Before \/ Failed \/ Calls => ~queued /\ ~answered
    /\ victim \in {"create", "call"} => mask = {Expected}
    /\ ended # "unexpected"
    /\ ended = "return" => rights \subseteq {"receive"}

LEMMA ExceptionInit == Exception!ExpectedAssumption /\ Exception!Init => HandlerInv
BY DEF Exception!ExpectedAssumption, Exception!Init, HandlerInv, Exception!TypeOK, Before, Failed,
       Calls, Waits, Goes

(* The victim's steps.                                                      *)
LEMMA VictimStep ==
    ASSUME HandlerInv, Exception!Victim PROVE HandlerInv'
<1> USE DEF HandlerInv, Exception!TypeOK, Before, Failed, Calls, Waits, Goes, Exception!Exit
<1>1. CASE Exception!AllocatePort
  BY <1>1 DEF Exception!AllocatePort
<1>2. CASE Exception!InsertSendRight
  BY <1>2 DEF Exception!InsertSendRight
<1>3. CASE Exception!SetExceptionPorts
  BY <1>3 DEF Exception!SetExceptionPorts
<1>4. CASE Exception!CreateThread
  <2>1. CASE handler' = "receive" /\ victim' = "call"
    <3>1. Before /\ victim = "create"
      BY <1>4 DEF Exception!CreateThread
    <3> QED BY <1>4, <2>1, <3>1 DEF Exception!CreateThread
  <2>2. CASE victim' = "out" /\ UNCHANGED handler
    BY <1>4, <2>2 DEF Exception!CreateThread
  <2> QED BY <1>4, <2>1, <2>2, Zenon DEF Exception!CreateThread
<1>5. CASE Exception!CallBadFunction
  BY <1>5 DEF Exception!CallBadFunction
<1>6. CASE Exception!Resume
  BY <1>6 DEF Exception!Resume
<1>7. CASE Exception!graceful_dead
  BY <1>7 DEF Exception!graceful_dead
<1>8. CASE Exception!Out
  BY <1>8 DEF Exception!Out
<1> QED BY <1>1, <1>2, <1>3, <1>4, <1>5, <1>6, <1>7, <1>8, Zenon DEF Exception!Victim

(* The handler's steps.                                                     *)
LEMMA CatchStep ==
    ASSUME HandlerInv, Exception!Handler PROVE HandlerInv'
<1> USE DEF HandlerInv, Exception!TypeOK, Before, Failed, Calls, Waits, Goes, Exception!Exit
<1>1. CASE Exception!Receive
  <2>1. CASE queued /\ queued' = FALSE /\ handler' = "catch" /\ UNCHANGED ended
    <3>1. Waits
      BY <2>1
    <3> QED BY <1>1, <2>1, <3>1 DEF Exception!Receive
  <2>2. CASE ended' = "error" /\ UNCHANGED <<queued, handler>>
    BY <1>1, <2>2 DEF Exception!Receive
  <2> QED BY <1>1, <2>1, <2>2, Zenon DEF Exception!Receive
<1>2. CASE Exception!catch_exception_raise
  BY <1>2 DEF Exception!catch_exception_raise
<1>3. CASE Exception!repair_instruction
  BY <1>3, Zenon DEF Exception!repair_instruction
<1>4. CASE Exception!Reply
  <2>1. CASE answered' = TRUE /\ handler' = "ended" /\ UNCHANGED ended
    <3>1. Waits /\ ~queued /\ counter = "graceful_dead" /\ victim = "stopped"
      BY <1>4 DEF Exception!Reply
    <3> QED BY <1>4, <2>1, <3>1 DEF Exception!Reply
  <2>2. CASE ended' = "error" /\ UNCHANGED <<answered, handler>>
    BY <1>4, <2>2 DEF Exception!Reply
  <2> QED BY <1>4, <2>1, <2>2, Zenon DEF Exception!Reply
<1> QED BY <1>1, <1>2, <1>3, <1>4, Zenon DEF Exception!Handler

\* Whichever exceptions the machine has (9-38/exception.c): a stopped victim
\* runs on at graceful_dead() alone, no exception but the expected one reaches
\* the handler, and main() returns with the send right released.
THEOREM RepairComesFirst ==
    ASSUME Exception!ExpectedAssumption
    PROVE  Exception!Spec => []RepairedBeforeReply
<1>1. Exception!Init => HandlerInv
  BY ExceptionInit
<1>2. HandlerInv /\ [Exception!Next]_(Exception!vars) => HandlerInv'
  <2> SUFFICES ASSUME HandlerInv, [Exception!Next]_(Exception!vars) PROVE HandlerInv'
    OBVIOUS
  <2>1. CASE UNCHANGED Exception!vars
    BY <2>1, Zenon DEF Exception!vars, HandlerInv, Exception!TypeOK, Before, Failed, Calls, Waits, Goes
  <2> QED BY <2>1, VictimStep, CatchStep DEF Exception!Next
<1>3. HandlerInv => RepairedBeforeReply
  BY Zenon DEF HandlerInv, Before, Failed, Calls, Waits, Goes, Exception!TypeOK, RepairedBeforeReply,
         Exception!RepairedBeforeReply
<1> QED BY <1>1, <1>2, <1>3, PTL DEF Exception!Spec

-----------------------------------------------------------------------------
(* Interposition (9-23/interpose.c): how far each of the two processes can  *)
(* be, and what the parent has done by then.                                *)
ParentFlow ==
    /\ parent = "fork" <=> child = "none" /\ parent # "exit"
    /\ parent \in {"host", "insert"} => child_task
    /\ parent \in {"out", "exit"} /\ child # "none" => name_0x1234 \/ refused
    /\ parent # "exit" => ~late
ChildFlow ==
    /\ child = "none" => suspend_count = 0
    /\ child = "run" => suspend_count = 0 /\ (parent = "exit" => late)
    /\ child = "count" => suspend_count = 1 \/ (parent = "exit" /\ ~late /\ child_task)
    /\ child = "count" /\ parent = "exit" /\ suspend_count = 1 => late \/ ~child_task
    /\ child = "exit" => suspend_count = 0 /\ parent = "exit" /\ ~late /\ child_task
    /\ child # "exit" => counted = "nothing"
    /\ counted = "error" => refused
InterposeInv == Interposing!TypeOK /\ ParentFlow /\ ChildFlow

\* Right before use (9-23/interpose.c): the child uses the name only after its
\* parent has resumed it, and is left suspended just if it needed more than
\* the parent's second or the parent has not got its task port.
THEOREM RightComesFirst == Interposing!Spec => []RightBeforeUse
<1>1. Interposing!Init => InterposeInv
  BY DEF Interposing!Init, InterposeInv, ParentFlow, ChildFlow, Interposing!TypeOK
<1>2. InterposeInv /\ [Interposing!Next]_(Interposing!vars) => InterposeInv'
  <2> SUFFICES ASSUME InterposeInv, [Interposing!Next]_(Interposing!vars) PROVE InterposeInv'
    OBVIOUS
  <2> USE DEF InterposeInv, ParentFlow, ChildFlow, Interposing!TypeOK
  <2>1. CASE Interposing!Fork
    BY <2>1 DEF Interposing!Fork
  <2>2. CASE Interposing!SuspendItself
    BY <2>2 DEF Interposing!SuspendItself, Interposing!Runs
  <2>3. CASE Interposing!print_processor_count
    BY <2>3 DEF Interposing!print_processor_count, Interposing!Runs
  <2>4. CASE Interposing!Wake
    BY <2>4 DEF Interposing!Wake
  <2>5. CASE Interposing!TaskForPid
    BY <2>5 DEF Interposing!TaskForPid
  <2>6. CASE Interposing!HostPrivPort
    BY <2>6 DEF Interposing!HostPrivPort
  <2>7. CASE Interposing!InsertRight
    BY <2>7 DEF Interposing!InsertRight
  <2>8. CASE Interposing!ResumeChild
    BY <2>8 DEF Interposing!ResumeChild
  <2>9. CASE UNCHANGED Interposing!vars
    BY <2>9 DEF Interposing!vars
  <2> QED BY <2>1, <2>2, <2>3, <2>4, <2>5, <2>6, <2>7, <2>8, <2>9 DEF Interposing!Next
<1>3. InterposeInv => RightBeforeUse
  <2> SUFFICES ASSUME InterposeInv PROVE RightBeforeUse
    OBVIOUS
  <2>1. parent = "exit" /\ suspend_count = 1 => late \/ ~child_task
    BY DEF InterposeInv, ChildFlow, Interposing!TypeOK
  <2> QED BY <2>1, Zenon DEF InterposeInv, ChildFlow, RightBeforeUse, Interposing!RightBeforeUse
<1> QED BY <1>1, <1>2, <1>3, PTL DEF Interposing!Spec

-----------------------------------------------------------------------------
(* Inheritance (8-14/vm_inherit.c): the objects behind the two pages of a   *)
(* process, before and after it has a copy of its own, and all that the two *)
(* processes can ever show.                                                 *)
Nothing == [page \in Inheritance!Pages |-> 0]
BehindPages(copied) == [shared |-> 1, cow |-> copied]
Showing(who, when, copied, sharedPage, copiedPage) ==
    [who |-> who, when |-> when, ids |-> BehindPages(copied),
     values |-> [shared |-> sharedPage, cow |-> copiedPage]]
Parents1   == Showing("parent", "before", 2, "AAAAAAAA", "BBBBBBBB")
Childs1    == Showing("child", "before", 2, "AAAAAAAA", "BBBBBBBB")
Childs2    == Showing("child", "after", 3, "FEEDF00D", "BADDF00D")
Parents2   == Showing("parent", "after", 2, "FEEDF00D", "BBBBBBBB")
Unwritten2 == Showing("parent", "after", 2, "AAAAAAAA", "BBBBBBBB")

VmTypes ==
    /\ Inheritance!TypeOK
    /\ vmContent \in [Inheritance!Objects ->
                        {"zero", "AAAAAAAA", "BBBBBBBB", "FEEDF00D", "BADDF00D"}]

Alone ==
    /\ vmChild = "none" /\ object["child"] = Nothing
    /\ object["parent"] = IF vmParent = "allocate" THEN Nothing ELSE BehindPages(2)
    /\ vmParent \in {"write", "peek", "fork"} => inherit = [shared |-> "share", cow |-> "copy"]
    /\ vmParent \in {"peek", "fork"} => vmContent[1] = "AAAAAAAA" /\ vmContent[2] = "BBBBBBBB"
    /\ seen = IF vmParent = "fork" THEN {Parents1} ELSE {}

Together ==
    /\ vmChild # "none" /\ object["parent"] = BehindPages(2)
    /\ inherit = [shared |-> "share", cow |-> "copy"]
    /\ vmContent[1] \in {"AAAAAAAA", "FEEDF00D"} /\ vmContent[2] = "BBBBBBBB"
    /\ vmChild \in {"peek", "write"} => object["child"] = BehindPages(2) /\ vmContent[1] = "AAAAAAAA"
    /\ vmChild = "peek again" =>
          object["child"] = BehindPages(3) /\ vmContent[1] = "FEEDF00D" /\ vmContent[3] = "BADDF00D"
    /\ seen \subseteq {Parents1, Childs1, Childs2}
    /\ Childs2 \in seen => vmContent[1] = "FEEDF00D"

Over ==
    /\ vmChild \in {"none", "dead"}
    /\ \/ seen \subseteq {Parents1, Childs1, Childs2, Parents2}
       \/ seen \subseteq {Parents1, Childs1, Unwritten2}

InheritanceInv ==
    /\ VmTypes
    /\ vmParent \in {"allocate", "inherit", "write", "peek", "fork"} => Alone
    /\ vmParent = "wait" => Together
    /\ vmParent \in {"out", "exit"} => Over

LEMMA VmObjects ==
    ASSUME VmTypes
    PROVE  /\ DOMAIN object = {"parent", "child"}
           /\ DOMAIN object["parent"] = {"shared", "cow"} /\ DOMAIN object["child"] = {"shared", "cow"}
           /\ Inheritance!Pages = {"shared", "cow"} /\ Inheritance!Who = {"parent", "child"}
BY Zenon DEF VmTypes, Inheritance!TypeOK, Inheritance!Who, Inheritance!Pages

LEMMA PageObjects ==
    /\ Nothing \in [Inheritance!Pages -> 0 .. 3]
    /\ \A copied \in {2, 3} : BehindPages(copied) \in [Inheritance!Pages -> 0 .. 3]
    /\ [shared |-> "share", cow |-> "copy"] \in [Inheritance!Pages -> {"share", "copy"}]
<1> USE DEF Nothing, Inheritance!Pages, BehindPages
<1>1. Nothing \in [Inheritance!Pages -> 0 .. 3]
  OBVIOUS
<1>2. ASSUME NEW copied \in {2, 3} PROVE BehindPages(copied) \in [Inheritance!Pages -> 0 .. 3]
  <2>1. DOMAIN BehindPages(copied) = {"shared", "cow"}
    OBVIOUS
  <2>2. BehindPages(copied) = [page \in {"shared", "cow"} |-> BehindPages(copied)[page]]
    BY <2>1
  <2>3. \A page \in {"shared", "cow"} : BehindPages(copied)[page] \in 0 .. 3
    OBVIOUS
  <2> QED BY <2>2, <2>3
<1>3. [shared |-> "share", cow |-> "copy"] \in [Inheritance!Pages -> {"share", "copy"}]
  <2> DEFINE r == [shared |-> "share", cow |-> "copy"]
  <2>1. r = [page \in {"shared", "cow"} |-> r[page]]
    OBVIOUS
  <2>2. \A page \in {"shared", "cow"} : r[page] \in {"share", "copy"}
    OBVIOUS
  <2> HIDE DEF r
  <2>3. r \in [{"shared", "cow"} -> {"share", "copy"}]
    BY <2>1, <2>2
  <2> QED BY <2>3 DEF r
<1> QED BY <1>1, <1>2, <1>3

LEMMA NewObjects ==
    ASSUME VmTypes, NEW who \in {"parent", "child"}, NEW ids \in [Inheritance!Pages -> 0 .. 3],
           object' = [object EXCEPT ![who] = ids]
    PROVE  /\ object' \in [Inheritance!Who -> [Inheritance!Pages -> 0 .. 3]]
           /\ object'[who] = ids
           /\ \A other \in {"parent", "child"} \ {who} : object'[other] = object[other]
BY Zenon DEF VmTypes, Inheritance!TypeOK, Inheritance!Who

(* A write replaces the object of the copied page, and only while it is     *)
(* still that of the other process: by the only one that nobody has.        *)
LEMMA FirstWriteStep ==
    ASSUME InheritanceInv, Inheritance!FirstWrite PROVE InheritanceInv'
<1>1. vmParent = "write" /\ vmParent' = "peek" /\ UNCHANGED <<vmChild, inherit, seen>> /\ Alone
  BY DEF Inheritance!FirstWrite, InheritanceInv
<1>2. object["parent"] = BehindPages(2) /\ object["child"] = Nothing
  BY <1>1 DEF Alone
<1>3. Inheritance!Target("parent", "shared") = 1
  BY <1>1, <1>2 DEF Inheritance!Target, Alone, BehindPages
<1>4. Inheritance!Target("parent", "cow") = 2
  BY <1>1, <1>2 DEF Inheritance!Target, Inheritance!Others, Inheritance!Who, Nothing, BehindPages,
        Inheritance!Pages
<1> DEFINE targets == [page \in Inheritance!Pages |-> Inheritance!Target("parent", page)]
           values  == [shared |-> "AAAAAAAA", cow |-> "BBBBBBBB"]
<1>5. targets = BehindPages(2)
  BY <1>3, <1>4 DEF BehindPages, Inheritance!Pages
<1> HIDE DEF targets
<1>6. /\ object' = [object EXCEPT !["parent"] = targets]
      /\ vmContent' = [o \in Inheritance!Objects |->
            IF \E page \in Inheritance!Pages : targets[page] = o
            THEN values[CHOOSE page \in Inheritance!Pages : targets[page] = o] ELSE vmContent[o]]
  BY Zenon DEF Inheritance!FirstWrite, Inheritance!Write, targets
<1>7. object' = object
  BY <1>2, <1>5, <1>6, Zenon DEF InheritanceInv, VmTypes, Inheritance!TypeOK
<1>8. vmContent'[1] = "AAAAAAAA"
  <2>1. (CHOOSE page \in Inheritance!Pages : targets[page] = 1) = "shared"
    BY <1>5 DEF BehindPages, Inheritance!Pages
  <2> QED BY <1>5, <1>6, <2>1 DEF BehindPages, Inheritance!Pages, Inheritance!Objects
<1>9. vmContent'[2] = "BBBBBBBB"
  <2>1. (CHOOSE page \in Inheritance!Pages : targets[page] = 2) = "cow"
    BY <1>5 DEF BehindPages, Inheritance!Pages
  <2> QED BY <1>5, <1>6, <2>1 DEF BehindPages, Inheritance!Pages, Inheritance!Objects
<1>10. vmContent'[3] = vmContent[3]
  BY <1>5, <1>6 DEF BehindPages, Inheritance!Pages, Inheritance!Objects
<1>11. vmContent' \in [Inheritance!Objects ->
                        {"zero", "AAAAAAAA", "BBBBBBBB", "FEEDF00D", "BADDF00D"}]
  BY <1>6, <1>8, <1>9, <1>10 DEF InheritanceInv, VmTypes, Inheritance!Objects
<1>12. VmTypes'
  BY <1>1, <1>7, <1>11, Zenon DEF InheritanceInv, VmTypes, Inheritance!TypeOK
<1>13. Alone'
  BY <1>1, <1>7, <1>8, <1>9 DEF Alone
<1> QED BY <1>1, <1>12, <1>13 DEF InheritanceInv

LEMMA ChildWritesStep ==
    ASSUME InheritanceInv, Inheritance!ChildWrites PROVE InheritanceInv'
<1>1. vmChild = "write" /\ vmChild' = "peek again" /\ UNCHANGED <<vmParent, inherit, seen>>
  BY Zenon DEF Inheritance!ChildWrites
<1>2. vmParent = "wait" /\ Together
  BY <1>1, Zenon DEF InheritanceInv, VmTypes, Inheritance!TypeOK, Alone, Over
<1>3. object["parent"] = BehindPages(2) /\ object["child"] = BehindPages(2)
  BY <1>1, <1>2, Zenon DEF Together
<1>4. Inheritance!Target("child", "shared") = 1
  <2>1. inherit["shared"] # "copy" /\ object["child"]["shared"] = 1
    <3>1. inherit = [shared |-> "share", cow |-> "copy"]
      BY <1>2, Zenon DEF Together
    <3>2. inherit["shared"] = "share"
      BY <3>1
    <3>3. object["child"]["shared"] = 1
      BY <1>3 DEF BehindPages
    <3> QED BY <3>2, <3>3
  <2> QED BY <2>1, Zenon DEF Inheritance!Target
<1>5. Inheritance!Fresh = 3
  <2>1. \A o \in Inheritance!Objects :
           (\A who \in Inheritance!Who, page \in Inheritance!Pages : object[who][page] # o) <=> o = 3
    BY <1>3 DEF Inheritance!Objects, Inheritance!Who, Inheritance!Pages, BehindPages
  <2> QED BY <2>1 DEF Inheritance!Fresh, Inheritance!Objects
<1>6. Inheritance!Target("child", "cow") = 3
  BY <1>2, <1>3, <1>5, Zenon DEF Inheritance!Target, Inheritance!Others, Inheritance!Who, Together, BehindPages
<1> DEFINE targets == [page \in Inheritance!Pages |-> Inheritance!Target("child", page)]
           values  == [shared |-> "FEEDF00D", cow |-> "BADDF00D"]
<1>7. targets = BehindPages(3)
  BY <1>4, <1>6 DEF BehindPages, Inheritance!Pages
<1> HIDE DEF targets
<1>8. /\ object' = [object EXCEPT !["child"] = targets]
      /\ vmContent' = [o \in Inheritance!Objects |->
            IF \E page \in Inheritance!Pages : targets[page] = o
            THEN values[CHOOSE page \in Inheritance!Pages : targets[page] = o] ELSE vmContent[o]]
  BY Zenon DEF Inheritance!ChildWrites, Inheritance!Write, targets
<1>9. object'["child"] = BehindPages(3) /\ object'["parent"] = object["parent"]
      /\ object' \in [Inheritance!Who -> [Inheritance!Pages -> 0 .. 3]]
  BY <1>7, <1>8, NewObjects, PageObjects DEF InheritanceInv
<1>10. vmContent'[1] = "FEEDF00D"
  <2>1. (CHOOSE page \in Inheritance!Pages : targets[page] = 1) = "shared"
    BY <1>7 DEF BehindPages, Inheritance!Pages
  <2> QED BY <1>7, <1>8, <2>1 DEF BehindPages, Inheritance!Pages, Inheritance!Objects
<1>11. vmContent'[3] = "BADDF00D"
  <2>1. (CHOOSE page \in Inheritance!Pages : targets[page] = 3) = "cow"
    BY <1>7 DEF BehindPages, Inheritance!Pages
  <2> QED BY <1>7, <1>8, <2>1 DEF BehindPages, Inheritance!Pages, Inheritance!Objects
<1>12. vmContent'[2] = vmContent[2]
  BY <1>7, <1>8 DEF BehindPages, Inheritance!Pages, Inheritance!Objects
<1>13. vmContent' \in [Inheritance!Objects ->
                        {"zero", "AAAAAAAA", "BBBBBBBB", "FEEDF00D", "BADDF00D"}]
  BY <1>8, <1>10, <1>11, <1>12 DEF InheritanceInv, VmTypes, Inheritance!Objects
<1>14. VmTypes'
  BY <1>1, <1>9, <1>13, Zenon DEF InheritanceInv, VmTypes, Inheritance!TypeOK
<1>15. Together'
  BY <1>1, <1>2, <1>9, <1>10, <1>11, <1>12, Zenon DEF Together
<1> QED BY <1>1, <1>2, <1>14, <1>15, Zenon DEF InheritanceInv

(* What a process shows is what its objects hold.                           *)
LEMMA Shown ==
    ASSUME VmTypes, NEW who \in {"parent", "child"}, NEW when, NEW copied \in {2, 3},
           object[who] = BehindPages(copied), Inheritance!peek(who, when)
    PROVE  seen' = seen \cup {Showing(who, when, copied, vmContent[1], vmContent[copied])}
<1>1. [page \in Inheritance!Pages |-> vmContent[object[who][page]]]
        = [shared |-> vmContent[1], cow |-> vmContent[copied]]
  BY DEF Inheritance!Pages, BehindPages
<1> QED BY <1>1, Zenon DEF Inheritance!peek, Showing

LEMMA PeekSteps ==
    ASSUME InheritanceInv,
           Inheritance!PeekFirst \/ Inheritance!ChildPeeks \/ Inheritance!PeekLast
    PROVE  InheritanceInv'
<1> USE DEF InheritanceInv
<1>1. CASE Inheritance!PeekFirst
  <2>1. Alone /\ vmParent = "peek" /\ vmParent' = "fork" /\ UNCHANGED <<vmChild, inherit, object, vmContent>>
    BY <1>1 DEF Inheritance!PeekFirst
  <2>2. seen' = seen \cup {Showing("parent", "before", 2, vmContent[1], vmContent[2])}
    BY <1>1, <2>1, Shown DEF Inheritance!PeekFirst, Alone
  <2>3. Alone'
    BY <2>1, <2>2 DEF Alone, Parents1
  <2>4. VmTypes'
    BY <2>1, Zenon DEF VmTypes, Inheritance!TypeOK
  <2> QED BY <2>1, <2>3, <2>4
<1>2. CASE Inheritance!ChildPeeks
  <2>1. vmChild = "peek" /\ vmChild' = "write" /\ UNCHANGED <<vmParent, inherit, object, vmContent>>
    BY <1>2 DEF Inheritance!ChildPeeks
  <2>2. Together /\ vmParent = "wait"
    BY <2>1 DEF VmTypes, Inheritance!TypeOK, Alone, Over
  <2>3. seen' = seen \cup {Showing("child", "before", 2, vmContent[1], vmContent[2])}
    BY <1>2, <2>1, <2>2, Shown DEF Inheritance!ChildPeeks, Together
  <2>4. seen' = seen \cup {Childs1} /\ Childs1 # Childs2
    BY <2>1, <2>2, <2>3 DEF Together, Childs1, Childs2, Showing
  <2>5. Together'
    BY <2>1, <2>2, <2>4 DEF Together
  <2>6. VmTypes'
    BY <2>1 DEF VmTypes, Inheritance!TypeOK
  <2> QED BY <2>1, <2>2, <2>5, <2>6
<1>3. CASE Inheritance!PeekLast
  <2>1. vmParent = "wait" /\ vmChild = "dead" /\ vmParent' = "out"
        /\ UNCHANGED <<vmChild, inherit, object, vmContent>> /\ Together
    BY <1>3 DEF Inheritance!PeekLast
  <2>2. seen' = seen \cup {Showing("parent", "after", 2, vmContent[1], vmContent[2])}
    BY <1>3, <2>1, Shown DEF Inheritance!PeekLast, Together
  <2>3. seen' = seen \cup {Parents2} \/ (seen' = seen \cup {Unwritten2} /\ Childs2 \notin seen)
    BY <2>1, <2>2 DEF Together, Parents2, Unwritten2
  <2>4. Over'
    BY <2>1, <2>3 DEF Together, Over
  <2>5. VmTypes'
    BY <2>1 DEF VmTypes, Inheritance!TypeOK
  <2> QED BY <2>1, <2>4, <2>5
<1> QED BY <1>1, <1>2, <1>3

LEMMA DyingSteps ==
    ASSUME InheritanceInv, Inheritance!ChildPeeksAgain \/ Inheritance!Killed
    PROVE  InheritanceInv'
<1>1. vmChild \in {"peek", "write", "peek again"} /\ vmChild' = "dead"
      /\ UNCHANGED <<vmParent, inherit, vmContent>> /\ object' = [object EXCEPT !["child"] = Nothing]
  BY Zenon DEF Inheritance!ChildPeeksAgain, Inheritance!Killed, Nothing
<1>2. Together /\ vmParent = "wait"
  BY <1>1, Zenon DEF InheritanceInv, VmTypes, Inheritance!TypeOK, Alone, Over
<1>3. VmTypes' /\ object'["parent"] = object["parent"]
  <2>1. object' \in [Inheritance!Who -> [Inheritance!Pages -> 0 .. 3]] /\ object'["parent"] = object["parent"]
    BY <1>1, NewObjects, PageObjects, Zenon DEF InheritanceInv
  <2> QED BY <1>1, <2>1, Zenon DEF InheritanceInv, VmTypes, Inheritance!TypeOK
<1>4. seen' = seen \/ (seen' = seen \cup {Childs2} /\ vmContent[1] = "FEEDF00D")
  <2>1. CASE Inheritance!Killed
    BY <2>1, Zenon DEF Inheritance!Killed
  <2>2. CASE Inheritance!ChildPeeksAgain
    <3>1. seen' = seen \cup {Showing("child", "after", 3, vmContent[1], vmContent[3])}
      BY <1>2, <2>2, Shown, Zenon DEF Inheritance!ChildPeeksAgain, Together, InheritanceInv
    <3>2. vmContent[1] = "FEEDF00D" /\ vmContent[3] = "BADDF00D"
      BY <1>2, <2>2, Zenon DEF Inheritance!ChildPeeksAgain, Together
    <3> QED BY <3>1, <3>2 DEF Childs2
  <2> QED BY <2>1, <2>2
<1>5. Together'
  BY <1>1, <1>2, <1>3, <1>4, Zenon DEF Together
<1> QED BY <1>1, <1>2, <1>3, <1>5, Zenon DEF InheritanceInv

LEMMA OtherVmSteps ==
    ASSUME InheritanceInv,
           \/ Inheritance!Allocate \/ Inheritance!Inherit \/ Inheritance!Fork
           \/ Inheritance!Deallocate
    PROVE  InheritanceInv'
<1> USE DEF InheritanceInv
<1>1. CASE Inheritance!Allocate
  <2>1. Alone /\ vmParent = "allocate" /\ UNCHANGED <<vmChild, seen>>
    BY <1>1 DEF Inheritance!Allocate
  <2>2. CASE /\ vmParent' = "inherit" /\ UNCHANGED <<inherit, vmContent>>
             /\ object' = [object EXCEPT !["parent"] = BehindPages(2)]
    <3>1. object'["parent"] = BehindPages(2) /\ object'["child"] = object["child"]
          /\ object' \in [Inheritance!Who -> [Inheritance!Pages -> 0 .. 3]]
      BY <2>2, NewObjects, PageObjects
    <3>2. Alone'
      BY <2>1, <2>2, <3>1 DEF Alone
    <3>3. VmTypes'
      BY <2>1, <2>2, <3>1, Zenon DEF VmTypes, Inheritance!TypeOK
    <3> QED BY <2>2, <3>2, <3>3
  <2>3. CASE vmParent' = "out" /\ UNCHANGED <<inherit, object, vmContent>>
    BY <2>1, <2>3 DEF Alone, Over, VmTypes, Inheritance!TypeOK
  <2> QED BY <1>1, <2>2, <2>3 DEF Inheritance!Allocate, Inheritance!Or, BehindPages
<1>2. CASE Inheritance!Inherit
  <2>1. Alone /\ vmParent = "inherit" /\ UNCHANGED <<vmChild, seen>>
    BY <1>2 DEF Inheritance!Inherit
  <2>2. CASE /\ vmParent' = "write" /\ UNCHANGED <<object, vmContent>>
             /\ inherit' = [shared |-> "share", cow |-> "copy"]
    <3>1. Alone'
      BY <2>1, <2>2 DEF Alone
    <3>2. VmTypes'
      BY <2>1, <2>2, PageObjects, Zenon DEF VmTypes, Inheritance!TypeOK
    <3> QED BY <2>2, <3>1, <3>2
  <2>3. CASE vmParent' = "out" /\ UNCHANGED <<inherit, object, vmContent>>
    BY <2>1, <2>3 DEF Alone, Over, VmTypes, Inheritance!TypeOK
  <2> QED BY <1>2, <2>2, <2>3 DEF Inheritance!Inherit, Inheritance!Or
<1>3. CASE Inheritance!Fork
  <2>1. Alone /\ vmParent = "fork" /\ vmParent' = "wait" /\ UNCHANGED <<inherit, vmContent, seen>>
    BY <1>3 DEF Inheritance!Fork
  <2>2. \/ vmChild' = "peek" /\ object' = [object EXCEPT !["child"] = object["parent"]]
        \/ vmChild' = "dead" /\ UNCHANGED object
    BY <1>3 DEF Inheritance!Fork
  <2>3. /\ object'["parent"] = BehindPages(2) /\ vmChild' \in {"peek", "dead"}
        /\ vmChild' = "peek" => object'["child"] = BehindPages(2)
        /\ object' \in [Inheritance!Who -> [Inheritance!Pages -> 0 .. 3]]
    BY <2>1, <2>2 DEF Alone, VmTypes, Inheritance!TypeOK, Inheritance!Who
  <2>4. Parents1 # Childs2
    BY DEF Parents1, Childs2, Showing
  <2>5. Together'
    BY <2>1, <2>3, <2>4, Zenon DEF Alone, Together
  <2>6. VmTypes'
    BY <2>1, <2>3, Zenon DEF VmTypes, Inheritance!TypeOK
  <2> QED BY <2>1, <2>5, <2>6
<1>4. CASE Inheritance!Deallocate
  <2>1. vmParent = "out" /\ vmParent' = "exit" /\ UNCHANGED <<vmChild, inherit, vmContent, seen>>
        /\ object' = [object EXCEPT !["parent"] = Nothing]
    BY <1>4 DEF Inheritance!Deallocate, Nothing
  <2>2. VmTypes'
    <3>1. object' \in [Inheritance!Who -> [Inheritance!Pages -> 0 .. 3]]
      BY <2>1, NewObjects, PageObjects
    <3> QED BY <2>1, <3>1, Zenon DEF VmTypes, Inheritance!TypeOK
  <2> QED BY <2>1, <2>2 DEF Over
<1> QED BY <1>1, <1>2, <1>3, <1>4

\* Own copies (8-14/vm_inherit.c), however the two processes interleave: what
\* the child has written to the shared page its parent sees, and what it has
\* written to the copied one it does not.
THEOREM ChildWritesItsOwn == Inheritance!Spec => []OwnCopies
<1>1. Inheritance!Init => InheritanceInv
  BY DEF Inheritance!Init, InheritanceInv, VmTypes, Inheritance!TypeOK, Alone, Nothing,
         Inheritance!Who, Inheritance!Pages
<1>2. InheritanceInv /\ [Inheritance!Next]_(Inheritance!vars) => InheritanceInv'
  <2> SUFFICES ASSUME InheritanceInv, [Inheritance!Next]_(Inheritance!vars) PROVE InheritanceInv'
    OBVIOUS
  <2>1. CASE UNCHANGED Inheritance!vars
    BY <2>1, Zenon DEF Inheritance!vars, InheritanceInv, VmTypes, Inheritance!TypeOK, Alone, Together, Over
  <2> QED BY <2>1, FirstWriteStep, ChildWritesStep, PeekSteps, DyingSteps, OtherVmSteps
          DEF Inheritance!Next
<1>3. InheritanceInv => OwnCopies
  <2> SUFFICES ASSUME InheritanceInv PROVE OwnCopies
    OBVIOUS
  <2>1. \/ seen \subseteq {Parents1, Childs1, Childs2, Parents2}
        \/ seen \subseteq {Parents1, Childs1, Unwritten2}
    BY Zenon DEF InheritanceInv, VmTypes, Inheritance!TypeOK, Alone, Together, Over
  <2>2. ASSUME NEW s \in seen, NEW t \in seen
        PROVE  /\ s.ids.shared = t.ids.shared
               /\ s.when = "before" /\ t.when = "before" => s = [t EXCEPT !.who = s.who]
               /\ s.who = "parent" => s.values.cow = "BBBBBBBB" /\ s.ids.cow = 2
               /\ s.who = "child" /\ s.when = "after" =>
                     /\ s.values = [shared |-> "FEEDF00D", cow |-> "BADDF00D"] /\ s.ids.cow # 2
                     /\ t.who = "parent" /\ t.when = "after" => t.values.shared = "FEEDF00D"
    <3> USE DEF Parents1, Childs1, Childs2, Parents2, Unwritten2, Showing, BehindPages
    <3>1. CASE s = Parents1
      BY <3>1, <2>1
    <3>2. CASE s = Childs1
      BY <3>2, <2>1
    <3>3. CASE s = Childs2
      BY <3>3, <2>1
    <3>4. CASE s = Parents2
      BY <3>4, <2>1
    <3>5. CASE s = Unwritten2
      BY <3>5, <2>1
    <3> QED BY <2>1, <3>1, <3>2, <3>3, <3>4, <3>5
  <2> QED BY <2>2, Zenon DEF OwnCopies, Inheritance!OwnCopies, InheritanceInv, VmTypes
<1> QED BY <1>1, <1>2, <1>3, PTL DEF Inheritance!Spec

-----------------------------------------------------------------------------
(* Rerouting (3-31/frr.c).  A branch goes where it should just if that is   *)
(* in the first half of what 26 bits address.                               *)
LEMMA BranchReaches ==
    ASSUME NEW address \in Nat, address % 4 = 0
    PROVE  Rerouting!Branch(address) = address <=> address < 2^25
<1> DEFINE LI == (address \div 4) % 2^24
<1>1. LI \in 0 .. 2^24 - 1 /\ 4 * (address \div 4) = address
  OBVIOUS
<1>2. CASE address < 2^25
  <2>1. LI < 2^23 /\ LI = address \div 4
    BY <1>2
  <2> HIDE DEF LI
  <2>2. Rerouting!Branch(address) = 4 * LI
    BY <2>1, <1>1 DEF Rerouting!Branch, Rerouting!Word, LI
  <2> QED BY <1>1, <1>2, <2>1, <2>2
<1>3. CASE address >= 2^25
  <2> HIDE DEF LI
  <2>1. Rerouting!Branch(address) = 4 * IF LI >= 2^23 THEN LI - 2^24 ELSE LI
    BY DEF Rerouting!Branch, Rerouting!Word, LI
  <2>2. Rerouting!Branch(address) < 2^25
    BY <1>1, <2>1
  <2> QED BY <1>3, <2>2
<1> QED BY <1>2, <1>3

(* What is in the memory of the program while function() is as it was, and  *)
(* while it is patched.                                                     *)
Blocks  == {"FRR", "stub"}
Clean   == first = Rerouting!Own /\ heap = {}
Patched == /\ first = newFunction /\ heap = Blocks /\ FRR /\ f_bytes = Rerouting!Own
           /\ target = Rerouting!Branch(original + 4)

FrrInv ==
    /\ main \in {"load", "clean", "install", "malloc", "mprotect", "stub", "store", "error",
                 "returned", "failed", "undefined", "rerouted", "remove", "free", "removed", "end"}
    /\ heap \subseteq Blocks /\ FRR \in BOOLEAN /\ function_stub \in BOOLEAN
    /\ f_bytes \in {Rerouting!Own, Rerouting!Garbage}
    /\ IF main = "load" THEN original = 0 /\ newFunction = 0
       ELSE original \in Originals /\ newFunction \in News
    /\ main \in {"load", "clean", "install", "malloc"} => Clean /\ ~FRR /\ ~function_stub
    /\ main \in {"install", "end"} => path = <<"original">>
    /\ main \in {"malloc", "mprotect", "stub", "store"} => newFunction < 2^25
    /\ main \in {"mprotect", "stub", "store"} => first = Rerouting!Own /\ heap = Blocks /\ FRR
    /\ main \in {"stub", "store"} => f_bytes = Rerouting!Own
    /\ main = "store" => target = Rerouting!Branch(original + 4)
    /\ main = "error" => first = Rerouting!Own
    /\ main \in {"returned", "failed"} => Clean \/ Patched
    /\ main \in {"undefined", "removed", "end"} => Clean
    /\ main \in {"rerouted", "remove"} => Patched /\ function_stub
    /\ main = "remove" =>
          path = <<"new", IF original + 4 < 2^25 THEN "original" ELSE "nowhere">>
    /\ main = "free" => first = Rerouting!Own

LEMMA AddressesAligned ==
    ASSUME Rerouting!AddressesAssumption, FrrInv, main # "load"
    PROVE  /\ original \in Nat /\ original % 4 = 0
           /\ newFunction \in Nat /\ newFunction % 4 = 0 /\ newFunction # Rerouting!Own
<1>1. original \in Originals /\ newFunction \in News
  BY DEF FrrInv
<1>2. /\ original \in 1 .. 2^28 /\ newFunction \in 1 .. 2^28
      /\ original % 4 = 0 /\ newFunction % 4 = 0
  BY <1>1, Zenon DEF Rerouting!AddressesAssumption
<1> QED BY <1>2 DEF Rerouting!Own

LEMMA CallSteps ==
    ASSUME Rerouting!AddressesAssumption, FrrInv,
           \/ Rerouting!Call("clean", "install") \/ Rerouting!Call("rerouted", "remove")
           \/ Rerouting!Call("removed", "end")
    PROVE  FrrInv'
<1> USE DEF FrrInv, Clean, Patched, Blocks, Rerouting!Own
<1>1. ASSUME NEW where \in {"clean", "removed"}, NEW next \in {"install", "end"},
             where = "clean" <=> next = "install", Rerouting!Call(where, next)
      PROVE  FrrInv'
  <2>1. main = where /\ main' = next /\ Clean
        /\ UNCHANGED <<original, newFunction, first, heap, FRR, f_bytes, target, function_stub>>
    BY <1>1 DEF Rerouting!Call
  <2>2. path' = <<"original">>
    <3>1. newFunction # Rerouting!Own /\ first = Rerouting!Own
      BY <1>1, <2>1, AddressesAligned
    <3> QED BY <1>1, <3>1 DEF Rerouting!Call
  <2>3. next = "install" => ~FRR /\ ~function_stub
    BY <1>1, <2>1
  <2> QED BY <1>1, <2>1, <2>2, <2>3
<1>3. CASE Rerouting!Call("rerouted", "remove")
  <2>1. /\ Patched /\ function_stub /\ original \in Originals /\ newFunction \in News
        /\ main = "rerouted" /\ main' = "remove"
        /\ UNCHANGED <<original, newFunction, first, heap, FRR, f_bytes, target, function_stub>>
    BY <1>3 DEF Rerouting!Call
  <2>2. newFunction # Rerouting!Own /\ original \in Nat /\ original % 4 = 0
    BY <2>1, AddressesAligned
  <2>3. path' = <<"new", IF target = original + 4 THEN "original" ELSE "nowhere">>
    BY <1>3, <2>1, <2>2 DEF Rerouting!Call, Rerouting!Word
  <2>4. original + 4 \in Nat /\ (original + 4) % 4 = 0
    BY <2>2
  <2>5. target = original + 4 <=> original + 4 < 2^25
    BY <2>1, <2>4, BranchReaches
  <2> QED BY <2>1, <2>3, <2>5
<1> QED BY <1>1, <1>3

LEMMA InstallSteps ==
    ASSUME Rerouting!AddressesAssumption, FrrInv,
           \/ Rerouting!Load \/ Rerouting!CheckNew \/ Rerouting!Allocate \/ Rerouting!Unprotect
           \/ Rerouting!FillStub \/ Rerouting!Store \/ Rerouting!Error
    PROVE  FrrInv'
<1> USE DEF FrrInv, Clean, Patched, Blocks
<1>1. CASE Rerouting!Load
  <2>1. main = "load" /\ main' = "clean" /\ original' \in Originals /\ newFunction' \in News
        /\ UNCHANGED <<first, heap, FRR, f_bytes, target, function_stub, path>>
    BY <1>1 DEF Rerouting!Load
  <2> QED BY <2>1
<1>2. CASE Rerouting!CheckNew
  <2>1. newFunction \div 2^25 = 0 => newFunction < 2^25
    <3>1. newFunction \in Nat
      BY <1>2, AddressesAligned DEF Rerouting!CheckNew
    <3> QED BY <3>1
  <2> QED BY <1>2, <2>1 DEF Rerouting!CheckNew
<1>3. CASE Rerouting!Allocate
  BY <1>3 DEF Rerouting!Allocate
<1>4. CASE Rerouting!Unprotect
  BY <1>4 DEF Rerouting!Unprotect
<1>5. CASE Rerouting!FillStub
  BY <1>5 DEF Rerouting!FillStub, Rerouting!Word
<1>6. CASE Rerouting!Store
  <2>1. CASE main' = "error" /\ UNCHANGED first
    BY <1>6, <2>1 DEF Rerouting!Store
  <2>2. CASE main' = "returned" /\ first' = Rerouting!Branch(newFunction)
    <3>1. newFunction \in Nat /\ newFunction % 4 = 0 /\ newFunction < 2^25
      BY <1>6, AddressesAligned DEF Rerouting!Store
    <3>2. first' = newFunction
      BY <2>2, <3>1, BranchReaches
    <3> QED BY <1>6, <2>2, <3>2 DEF Rerouting!Store
  <2> QED BY <1>6, <2>1, <2>2 DEF Rerouting!Store
<1>7. CASE Rerouting!Error
  BY <1>7 DEF Rerouting!Error
<1> QED BY <1>1, <1>2, <1>3, <1>4, <1>5, <1>6, <1>7

LEMMA RemoveSteps ==
    ASSUME FrrInv, Rerouting!UseFRR \/ Rerouting!Restore \/ Rerouting!Free PROVE FrrInv'
<1> USE DEF FrrInv, Clean, Patched, Blocks
<1>1. CASE Rerouting!UseFRR
  <2>1. CASE ~FRR
    BY <1>1, <2>1 DEF Rerouting!UseFRR
  <2>2. CASE FRR /\ "FRR" \notin heap
    BY <1>1, <2>2 DEF Rerouting!UseFRR
  <2>3. CASE FRR /\ "FRR" \in heap
    BY <1>1, <2>3 DEF Rerouting!UseFRR
  <2> QED BY <2>1, <2>2, <2>3
<1>2. CASE Rerouting!Restore
  BY <1>2 DEF Rerouting!Restore
<1>3. CASE Rerouting!Free
  BY <1>3 DEF Rerouting!Free
<1> QED BY <1>1, <1>2, <1>3

\* Rerouting (3-31/frr.c), wherever the linker puts the two functions: a call
\* of function() reaches the original, through the stub while the patch is in
\* place, just if the branch of the stub can reach; and no patch outlives what
\* it needs.
THEOREM CallsReachTheOriginal ==
    ASSUME Rerouting!AddressesAssumption
    PROVE  Rerouting!Spec => []Reroutes
<1>1. Rerouting!Init => FrrInv
  BY DEF Rerouting!Init, FrrInv, Clean, Patched, Blocks
<1>2. FrrInv /\ [Rerouting!Next]_(Rerouting!vars) => FrrInv'
  <2> SUFFICES ASSUME FrrInv, [Rerouting!Next]_(Rerouting!vars) PROVE FrrInv'
    OBVIOUS
  <2>1. CASE UNCHANGED Rerouting!vars
    BY <2>1 DEF Rerouting!vars, FrrInv, Clean, Patched, Blocks
  <2> QED BY <2>1, CallSteps, InstallSteps, RemoveSteps DEF Rerouting!Next
<1>3. FrrInv => Reroutes
  <2> SUFFICES ASSUME FrrInv PROVE Reroutes
    OBVIOUS
  <2>1. Rerouting!TypeOK
    BY DEF FrrInv, Clean, Patched, Blocks, Rerouting!TypeOK
  <2>2. first # Rerouting!Own => "stub" \in heap /\ f_bytes = Rerouting!Own
    BY DEF FrrInv, Clean, Patched, Blocks
  <2>3. main \in {"install", "end"} => path = <<"original">> /\ first = Rerouting!Own
    BY DEF FrrInv, Clean
  <2>4. main = "remove" =>
           path = <<"new", IF original + Rerouting!Word < 2^25 THEN "original" ELSE "nowhere">>
    BY DEF FrrInv, Rerouting!Word
  <2>5. /\ main \in {"undefined", "end"} => first = Rerouting!Own /\ heap = {}
        /\ main = "failed" /\ heap # {} => first # Rerouting!Own
    BY AddressesAligned DEF FrrInv, Clean, Patched
  <2> QED BY <2>1, <2>2, <2>3, <2>4, <2>5 DEF Reroutes, Rerouting!Reroutes
<1> QED BY <1>1, <1>2, <1>3, PTL DEF Rerouting!Spec

-----------------------------------------------------------------------------
(* Names of semaphores and of memory (9-45 and 9-46).  Objects are named    *)
(* after the processes that create them, which have not begun before.       *)
Letters   == UNION {Names!Range(s) : s \in Strings}
MapsIt    == {"truncate", "copy", "copied"}
UsesSem   == {"post", "posted", "wait", "waited"}
UsesMem   == {"stat", "contents", "printed", "crashed"}
Begins(s, t) == Len(s) <= Len(t) /\ \A k \in 1 .. Len(s) : s[k] = t[k]

NamesTypes ==
    /\ Names!TypeOK
    /\ string \in [Processes -> Seq(Letters)] /\ content \in [Processes -> Seq(Letters)]
    /\ namePrinted \in [Processes -> Seq(Letters)]

NotBegun == \A p \in Processes : nameAt[p] = "start" =>
    /\ \A q \in Processes : handle[q] # p
    /\ semaphore # p /\ nameMemory # p /\ content[p] = <<>> /\ handle[p] = NoName

Semaphores ==
    /\ semaphore # NoName => nameAt[semaphore] = "created"
    /\ \A p \in Processes : nameAt[p] \in UsesSem =>
          handle[p] \in Processes /\ nameAt[handle[p]] = "created"

Memories ==
    /\ nameMemory # NoName => nameAt[nameMemory] \in MapsIt
    /\ \A p \in Processes : nameAt[p] \in UsesMem =>
          handle[p] \in Processes /\ nameAt[handle[p]] \in MapsIt

Accounts == \A s \in Processes :
    value[s] + Names!Ended(s, "waited") = initial[s] + Names!Ended(s, "posted")

Copies == \A p \in Processes :
    /\ Begins(content[p], string[p])
    /\ nameAt[p] = "copied" => content[p] = string[p]
    /\ nameAt[p] = "printed" => Begins(namePrinted[p], string[handle[p]])

NamesInv == NamesTypes /\ NotBegun /\ Semaphores /\ Memories /\ Accounts /\ Copies

-----------------------------------------------------------------------------
Those(s, how) == {p \in Processes : handle[p] = s /\ nameAt[p] = how}

LEMMA EndedIsCount ==
    \A s, how : Names!Ended(s, how) = Cardinality(Those(s, how))
<1>1. \A S : Names!Cardinality(S) = Cardinality(S)
  BY Zenon DEF Names!Cardinality, Cardinality
<1> QED BY <1>1, Zenon DEF Names!Ended, Those

LEMMA FiniteProcesses == Names!NamesAssumption => IsFiniteSet(Processes)
BY Zenon DEF Names!NamesAssumption, Names!IsFiniteSet, IsFiniteSet

LEMMA CountIsNat ==
    ASSUME IsFiniteSet(Processes), NEW s, NEW how
    PROVE  Names!Ended(s, how) \in Nat
BY EndedIsCount, FS_Subset, FS_CardinalityType DEF Those

LEMMA PrefixOf ==
    ASSUME NEW L, NEW s \in Seq(L), NEW t \in Seq(L), Begins(s, t)
    PROVE  \E n \in 0 .. Len(t) : s = SubSeq(t, 1, n)
<1>1. Len(s) \in 0 .. Len(t) /\ s = SubSeq(t, 1, Len(s))
  BY DEF Begins
<1> QED BY <1>1, Zenon
LEMMA SameEnded ==
    ASSUME NEW s, NEW how, Those(s, how)' = Those(s, how)
    PROVE  Names!Ended(s, how)' = Names!Ended(s, how)
<1>1. \A S : Names!Cardinality(S) = Cardinality(S)
  BY Zenon DEF Names!Cardinality, Cardinality
<1>2. Names!Ended(s, how)' = Cardinality(Those(s, how)')
  BY <1>1, Zenon DEF Names!Ended, Those
<1> QED BY <1>2, EndedIsCount

LEMMA OneMoreEnded ==
    ASSUME IsFiniteSet(Processes), NEW s, NEW how, NEW p \in Processes,
           p \notin Those(s, how), Those(s, how)' = Those(s, how) \cup {p}
    PROVE  Names!Ended(s, how)' = Names!Ended(s, how) + 1
<1>1. \A S : Names!Cardinality(S) = Cardinality(S)
  BY Zenon DEF Names!Cardinality, Cardinality
<1>2. Names!Ended(s, how)' = Cardinality(Those(s, how)')
  BY <1>1, Zenon DEF Names!Ended, Those
<1>3. Names!Ended(s, how) = Cardinality(Those(s, how))
  BY EndedIsCount
<1>4. IsFiniteSet(Those(s, how))
  BY FS_Subset DEF Those
<1> QED BY <1>2, <1>3, <1>4, FS_AddElement

(* A process that has neither waited nor posted changes no account, nor     *)
(* does what it opens.                                                      *)
LEMMA AccountsKept ==
    ASSUME NamesInv, NEW p \in Processes, NEW where, UNCHANGED <<initial, value>>,
           nameAt' = [nameAt EXCEPT ![p] = where],
           {where, nameAt[p]} \cap {"waited", "posted"} = {},
           \A q \in Processes \ {p} : handle'[q] = handle[q]
    PROVE  Accounts'
<1>1. ASSUME NEW s, NEW how \in {"waited", "posted"}
      PROVE  Names!Ended(s, how)' = Names!Ended(s, how)
  <2>1. \A q \in Processes : q \in Those(s, how)' <=> q \in Those(s, how)
    BY <1>1 DEF Those, NamesInv, NamesTypes, Names!TypeOK
  <2>2. Those(s, how)' = Those(s, how)
    BY <2>1 DEF Those
  <2> QED BY <2>2, SameEnded
<1> QED BY <1>1 DEF Accounts, NamesInv

Idle == UNCHANGED <<semaphore, initial, value>>
IdleMemory == UNCHANGED <<nameMemory, string, content, size, namePrinted>>

LEMMA SemCreateStep ==
    ASSUME Names!NamesAssumption, NamesInv, NEW p \in Processes, Names!sem_create(p)
    PROVE  NamesInv'
<1> USE DEF NamesInv, Names!NamesAssumption
<1>1. nameAt[p] = "start" /\ handle' = handle /\ IdleMemory
  BY DEF Names!sem_create, Names!memories, IdleMemory
<1>2. CASE semaphore # NoName
  <2>1. nameAt' = [nameAt EXCEPT ![p] = "failed"] /\ Idle
    BY <1>2 DEF Names!sem_create, Names!semaphores, Names!Goto, Idle
  <2>2. NamesTypes'
    BY <1>1, <2>1 DEF NamesTypes, Names!TypeOK, Idle, IdleMemory
  <2>3. NotBegun'
    BY <1>1, <2>1 DEF NotBegun, Idle, IdleMemory, NamesTypes, Names!TypeOK
  <2>4. Semaphores' /\ Memories'
    BY <1>1, <2>1 DEF NotBegun, Semaphores, Memories, MapsIt, UsesSem, UsesMem, Idle, IdleMemory,
          NamesTypes, Names!TypeOK
  <2>5. Accounts'
    BY <1>1, <2>1, AccountsKept DEF Idle
  <2>6. Copies'
    BY <1>1, <2>1 DEF Copies, IdleMemory, NamesTypes, Names!TypeOK
  <2> QED BY <2>2, <2>3, <2>4, <2>5, <2>6
<1>3. CASE semaphore = NoName
  <2>1. PICK val \in SemaphoreValues :
           /\ semaphore' = p /\ nameAt' = [nameAt EXCEPT ![p] = "created"]
           /\ value' = [value EXCEPT ![p] = val] /\ initial' = [initial EXCEPT ![p] = val]
    BY <1>3 DEF Names!sem_create, Names!Goto
  <2>2. NamesTypes'
    BY <1>1, <2>1 DEF NamesTypes, Names!TypeOK, IdleMemory
  <2>3. NotBegun'
    BY <1>1, <2>1 DEF NotBegun, IdleMemory, NamesTypes, Names!TypeOK
  <2>4. Semaphores' /\ Memories'
    BY <1>1, <2>1 DEF NotBegun, Semaphores, Memories, MapsIt, UsesSem, UsesMem, IdleMemory,
          NamesTypes, Names!TypeOK
  <2>5. Accounts'
    <3>1. ASSUME NEW s, NEW how \in {"waited", "posted"}
          PROVE  Names!Ended(s, how)' = Names!Ended(s, how)
      <4>1. \A q \in Processes : q \in Those(s, how)' <=> q \in Those(s, how)
        BY <1>1, <2>1, <3>1 DEF Those, NamesTypes, Names!TypeOK
      <4>2. Those(s, how)' = Those(s, how)
        BY <4>1 DEF Those
      <4> QED BY <4>2, SameEnded
    <3>2. Those(p, "waited") = {} /\ Those(p, "posted") = {}
      BY <1>1 DEF NotBegun, Those
    <3>3. Names!Ended(p, "waited") = 0 /\ Names!Ended(p, "posted") = 0
      BY <3>2, EndedIsCount, FS_EmptySet
    <3>4. ASSUME NEW s \in Processes
          PROVE  (value[s] + Names!Ended(s, "waited") = initial[s] + Names!Ended(s, "posted"))'
      <4>1. CASE s = p
        BY <4>1, <2>1, <3>1, <3>3 DEF NamesTypes, Names!TypeOK
      <4>2. CASE s # p
        <5>1. value'[s] = value[s] /\ initial'[s] = initial[s]
          BY <4>2, <2>1 DEF NamesTypes, Names!TypeOK
        <5> QED BY <5>1, <3>1 DEF Accounts
      <4> QED BY <4>1, <4>2
    <3> QED BY <3>4 DEF Accounts
  <2>6. Copies'
    BY <1>1, <2>1 DEF Copies, IdleMemory, NamesTypes, Names!TypeOK
  <2> QED BY <2>2, <2>3, <2>4, <2>5, <2>6
<1> QED BY <1>2, <1>3

(* Opening: the object is there, under its name, and nobody who has not     *)
(* begun is meant by that.                                                  *)
LEMMA OpenStep ==
    ASSUME Names!NamesAssumption, NamesInv, NEW p \in Processes,
           Names!sem_open(p) \/ Names!shm_open(p)
    PROVE  NamesInv'
<1> USE DEF NamesInv, Names!NamesAssumption
<1>1. nameAt[p] = "start" /\ Idle /\ IdleMemory
  BY DEF Names!sem_open, Names!shm_open, Names!OpenExisting, Names!memories, Names!semaphores,
         Idle, IdleMemory
<1>2. \/ nameAt' = [nameAt EXCEPT ![p] = "failed"] /\ UNCHANGED handle
      \/ /\ semaphore # NoName /\ handle' = [handle EXCEPT ![p] = semaphore]
         /\ \E where \in {"post", "wait"} : nameAt' = [nameAt EXCEPT ![p] = where]
      \/ /\ nameMemory # NoName /\ handle' = [handle EXCEPT ![p] = nameMemory]
         /\ nameAt' = [nameAt EXCEPT ![p] = "stat"]
  BY DEF Names!sem_open, Names!shm_open, Names!OpenExisting, Names!Goto, Names!Open
<1>3. PICK where \in {"failed", "post", "wait", "stat"} :
         /\ nameAt' = [nameAt EXCEPT ![p] = where]
         /\ \/ where = "failed" /\ UNCHANGED handle
            \/ where \in {"post", "wait"} /\ semaphore # NoName /\ handle' = [handle EXCEPT ![p] = semaphore]
            \/ where = "stat" /\ nameMemory # NoName /\ handle' = [handle EXCEPT ![p] = nameMemory]
  BY <1>2
<1>4. \A q \in Processes \ {p} : handle'[q] = handle[q]
  BY <1>3 DEF NamesTypes, Names!TypeOK
<1>5. NamesTypes'
  BY <1>1, <1>3 DEF NamesTypes, Names!TypeOK, Idle, IdleMemory
<1> DEFINE opened == IF where = "failed" THEN NoName ELSE IF where = "stat" THEN nameMemory ELSE semaphore
<1>11. /\ nameAt'[p] = where /\ \A q \in Processes \ {p} : nameAt'[q] = nameAt[q]
      /\ handle'[p] = opened
  BY <1>1, <1>3 DEF NotBegun, NamesTypes, Names!TypeOK
<1>12. opened # NoName => opened \in Processes \ {p}
  BY <1>1, <1>3 DEF NotBegun, NamesTypes, Names!TypeOK
<1>13. opened \in Processes => nameAt[opened] # "start"
  BY DEF Semaphores, Memories, MapsIt
<1>6. NotBegun'
  <2> SUFFICES ASSUME NEW o \in Processes, nameAt'[o] = "start"
               PROVE  /\ \A q \in Processes : handle'[q] # o
                      /\ semaphore # o /\ nameMemory # o /\ content[o] = <<>> /\ handle'[o] = NoName
    BY <1>1 DEF NotBegun, Idle, IdleMemory
  <2>1. o # p /\ nameAt[o] = "start"
    BY <1>11
  <2> HIDE DEF opened
  <2> QED BY <2>1, <1>11, <1>12, <1>13, <1>4 DEF NotBegun
<1>7. Semaphores'
  <2>1. semaphore # NoName => semaphore \in Processes \ {p}
    BY <1>1 DEF NotBegun, NamesTypes, Names!TypeOK
  <2>2. where \in {"post", "wait"} => opened = semaphore /\ semaphore # NoName
    BY <1>3
  <2>3. ASSUME NEW q \in Processes, nameAt'[q] \in UsesSem
        PROVE  handle'[q] \in Processes /\ nameAt'[handle'[q]] = "created"
    <3>1. CASE q = p
      <4>1. where \in {"post", "wait"}
        BY <3>1, <2>3, <1>11 DEF UsesSem
      <4> QED BY <4>1, <2>1, <2>2, <3>1, <1>11 DEF Semaphores
    <3>2. CASE q # p
      BY <3>2, <2>3, <1>1, <1>4, <1>11 DEF Semaphores
    <3> QED BY <3>1, <3>2
  <2> QED BY <2>1, <2>3, <1>1, <1>11 DEF Semaphores, Idle
<1>8. Memories'
  <2>1. nameMemory # NoName => nameMemory \in Processes \ {p}
    BY <1>1 DEF NotBegun, NamesTypes, Names!TypeOK
  <2>2. where = "stat" => opened = nameMemory /\ nameMemory # NoName
    BY <1>3
  <2>3. ASSUME NEW q \in Processes, nameAt'[q] \in UsesMem
        PROVE  handle'[q] \in Processes /\ nameAt'[handle'[q]] \in MapsIt
    <3>1. CASE q = p
      <4>1. where = "stat"
        BY <3>1, <2>3, <1>11 DEF UsesMem
      <4> QED BY <4>1, <2>1, <2>2, <3>1, <1>11 DEF Memories
    <3>2. CASE q # p
      <4>1. "start" \notin MapsIt
        BY DEF MapsIt
      <4> QED BY <4>1, <3>2, <2>3, <1>1, <1>4, <1>11 DEF Memories
    <3> QED BY <3>1, <3>2
  <2> QED BY <2>1, <2>3, <1>1, <1>11 DEF Memories, IdleMemory
<1>9. Accounts'
  BY <1>1, <1>3, <1>4, AccountsKept DEF Idle
<1>10. Copies'
  BY <1>1, <1>3, <1>4 DEF Copies, IdleMemory, NamesTypes, Names!TypeOK
<1> QED BY <1>5, <1>6, <1>7, <1>8, <1>9, <1>10

(* The rest of a process that has opened a semaphore.                       *)
LEMMA PostStep ==
    ASSUME Names!NamesAssumption, NamesInv, NEW p \in Processes,
           Names!sem_post(p) \/ Names!sem_wait(p)
    PROVE  NamesInv'
<1> USE DEF NamesInv, Names!NamesAssumption
<1>1. /\ nameAt[p] \in {"post", "wait"} /\ handle' = handle /\ IdleMemory
      /\ semaphore' = semaphore /\ initial' = initial
  BY DEF Names!sem_post, Names!sem_wait, Names!memories, IdleMemory
<1>2. PICK o \in Processes : o = handle[p]
  BY <1>1 DEF Semaphores, UsesSem
<1>3. PICK outcome \in {"posted", "waited"} :
         /\ nameAt' = [nameAt EXCEPT ![p] = outcome]
         /\ outcome = "posted" => nameAt[p] = "post" /\ value' = [value EXCEPT ![o] = @ + 1]
         /\ outcome = "waited" => /\ nameAt[p] = "wait" /\ value[o] > 0
                                /\ value' = [value EXCEPT ![o] = @ - 1]
  BY <1>2 DEF Names!sem_post, Names!sem_wait, Names!Goto
<1>4. /\ nameAt'[p] = outcome /\ \A q \in Processes \ {p} : nameAt'[q] = nameAt[q]
  BY <1>3 DEF NamesTypes, Names!TypeOK
<1>5. /\ value'[o] = IF outcome = "posted" THEN value[o] + 1 ELSE value[o] - 1
      /\ \A s \in Processes \ {o} : value'[s] = value[s]
      /\ value' \in [Processes -> Nat]
  <2>1. value \in [Processes -> Nat] /\ value[o] \in Nat
    BY DEF NamesTypes, Names!TypeOK
  <2>2. CASE outcome = "posted"
    <3>1. value' = [value EXCEPT ![o] = value[o] + 1]
      BY <1>3, <2>2
    <3> QED BY <2>1, <2>2, <3>1
  <2>3. CASE outcome = "waited"
    <3>1. value' = [value EXCEPT ![o] = value[o] - 1] /\ value[o] - 1 \in Nat
      BY <1>3, <2>1, <2>3
    <3> QED BY <2>1, <2>3, <3>1
  <2> QED BY <2>2, <2>3
<1>6. NamesTypes'
  <2>1. nameAt' \in [Processes -> {"start", "failed", "created", "post", "posted", "wait", "waited",
                             "unlinked", "truncate", "copy", "copied", "stat", "crashed",
                             "contents", "printed"}]
    BY <1>3 DEF NamesTypes, Names!TypeOK
  <2> QED BY <1>1, <1>5, <2>1 DEF NamesTypes, Names!TypeOK, IdleMemory
<1>7. NotBegun'
  BY <1>1, <1>4 DEF NotBegun, IdleMemory
<1>8. Semaphores'
  <2>1. \A s \in Processes : nameAt[s] = "created" => nameAt'[s] = "created"
    BY <1>1, <1>4
  <2>2. \A q \in Processes : nameAt'[q] \in UsesSem => nameAt[q] \in UsesSem
    BY <1>1, <1>4 DEF UsesSem
  <2>3. semaphore # NoName => semaphore \in Processes
    BY DEF NamesTypes, Names!TypeOK
  <2> QED BY <1>1, <2>1, <2>2, <2>3 DEF Semaphores
<1>9. Memories'
  <2>1. \A s \in Processes : nameAt[s] \in MapsIt => nameAt'[s] \in MapsIt
    BY <1>1, <1>4 DEF MapsIt
  <2>2. \A q \in Processes : nameAt'[q] \in UsesMem => nameAt[q] \in UsesMem
    BY <1>1, <1>4 DEF UsesMem
  <2>3. nameMemory # NoName => nameMemory \in Processes
    BY DEF NamesTypes, Names!TypeOK
  <2> QED BY <1>1, <2>1, <2>2, <2>3 DEF Memories, IdleMemory
<1>10. Accounts'
  <2>1. ASSUME NEW s \in Processes, NEW how \in {"posted", "waited"}, s # o \/ how # outcome
        PROVE  Names!Ended(s, how)' = Names!Ended(s, how)
    <3>1. \A q \in Processes : q \in Those(s, how)' <=> q \in Those(s, how)
      BY <1>1, <1>2, <1>4, <2>1 DEF Those
    <3>2. Those(s, how)' = Those(s, how)
      BY <3>1 DEF Those
    <3> QED BY <3>2, SameEnded
  <2>2. Names!Ended(o, outcome)' = Names!Ended(o, outcome) + 1
    <3>1. Those(o, outcome)' = Those(o, outcome) \cup {p} /\ p \notin Those(o, outcome)
      <4>1. \A q \in Processes : q \in Those(o, outcome)' <=> q \in Those(o, outcome) \cup {p}
        BY <1>1, <1>2, <1>4 DEF Those
      <4>2. p \notin Those(o, outcome)
        BY <1>1 DEF Those
      <4> QED BY <4>1, <4>2 DEF Those
    <3> QED BY <3>1, FiniteProcesses, OneMoreEnded
  <2>3. /\ value[o] \in Nat /\ initial[o] \in Nat
        /\ value[o] + Names!Ended(o, "waited") = initial[o] + Names!Ended(o, "posted")
    BY DEF Accounts, NamesTypes, Names!TypeOK
  <2>4. Names!Ended(o, "waited") \in Nat /\ Names!Ended(o, "posted") \in Nat
    BY FiniteProcesses, CountIsNat
  <2>5. (value[o] + Names!Ended(o, "waited") = initial[o] + Names!Ended(o, "posted"))'
    <3>1. CASE outcome = "posted"
      <4>1. Names!Ended(o, "waited")' = Names!Ended(o, "waited")
        BY <3>1, <2>1
      <4>2. Names!Ended(o, "posted")' = Names!Ended(o, "posted") + 1
        BY <3>1, <2>2
      <4>3. value'[o] = value[o] + 1 /\ initial'[o] = initial[o]
        BY <3>1, <1>1, <1>5
      <4>4. (value[o] + 1) + Names!Ended(o, "waited") = initial[o] + (Names!Ended(o, "posted") + 1)
        <5>1. value[o] \in Nat
          BY <2>3
        <5>2. initial[o] \in Nat
          BY <2>3
        <5>3. Names!Ended(o, "waited") \in Nat
          BY <2>4
        <5>4. Names!Ended(o, "posted") \in Nat
          BY <2>4
        <5>5. value[o] + Names!Ended(o, "waited") = initial[o] + Names!Ended(o, "posted")
          BY <2>3
        <5> QED BY ONLY <5>1, <5>2, <5>3, <5>4, <5>5
      <4> QED BY <4>1, <4>2, <4>3, <4>4, Zenon
    <3>2. CASE outcome = "waited"
      <4>1. Names!Ended(o, "posted")' = Names!Ended(o, "posted")
        BY <3>2, <2>1
      <4>2. Names!Ended(o, "waited")' = Names!Ended(o, "waited") + 1
        BY <3>2, <2>2
      <4>3. value'[o] = value[o] - 1 /\ initial'[o] = initial[o]
        BY <3>2, <1>1, <1>5
      <4> QED BY <4>1, <4>2, <4>3, <2>3, <2>4
    <3> QED BY <3>1, <3>2
  <2>6. ASSUME NEW s \in Processes, s # o
        PROVE  (value[s] + Names!Ended(s, "waited") = initial[s] + Names!Ended(s, "posted"))'
    BY <2>6, <1>1, <1>5, <2>1 DEF Accounts
  <2> QED BY <2>5, <2>6 DEF Accounts
<1>11. Copies'
  BY <1>1, <1>4 DEF Copies, IdleMemory
<1> QED BY <1>6, <1>7, <1>8, <1>9, <1>10, <1>11

(* Steps that only end a process, or take a name away.                      *)
LEMMA EndingStep ==
    ASSUME Names!NamesAssumption, NamesInv, NEW p \in Processes,
           \/ Names!Interrupted(p) \/ Names!sem_unlink(p) \/ Names!shm_unlink(p) \/ Names!Stat(p)
    PROVE  NamesInv'
<1> USE DEF NamesInv, Names!NamesAssumption
<1>1. PICK where \in {"failed", "unlinked", "crashed", "contents"} :
         /\ nameAt' = [nameAt EXCEPT ![p] = where] /\ nameAt[p] \in {"start", "wait", "stat"}
         /\ where \in {"crashed", "contents"} => nameAt[p] = "stat"
         /\ UNCHANGED <<handle, initial, value, string, content, size, namePrinted>>
         /\ semaphore' \in {semaphore, NoName} /\ nameMemory' \in {nameMemory, NoName}
  BY DEF Names!Interrupted, Names!sem_unlink, Names!shm_unlink, Names!Stat, Names!Goto,
         Names!memories, Names!semaphores
<1>2. nameAt'[p] = where /\ \A q \in Processes \ {p} : nameAt'[q] = nameAt[q]
  BY <1>1 DEF NamesTypes, Names!TypeOK
<1>3. NamesTypes'
  BY <1>1 DEF NamesTypes, Names!TypeOK
<1>4. NotBegun'
  BY <1>1, <1>2 DEF NotBegun
<1>5. Semaphores'
  <2>1. \A s \in Processes : nameAt[s] = "created" => nameAt'[s] = "created"
    BY <1>1, <1>2
  <2>2. \A q \in Processes : nameAt'[q] \in UsesSem => nameAt[q] \in UsesSem
    BY <1>1, <1>2 DEF UsesSem
  <2>3. semaphore # NoName => semaphore \in Processes
    BY DEF NamesTypes, Names!TypeOK
  <2> QED BY <1>1, <2>1, <2>2, <2>3 DEF Semaphores
<1>6. Memories'
  <2>1. \A s \in Processes : nameAt[s] \in MapsIt => nameAt'[s] \in MapsIt
    BY <1>1, <1>2 DEF MapsIt
  <2>2. \A q \in Processes : nameAt'[q] \in UsesMem => nameAt[q] \in UsesMem
    BY <1>1, <1>2 DEF UsesMem
  <2>3. nameMemory # NoName => nameMemory \in Processes
    BY DEF NamesTypes, Names!TypeOK
  <2> QED BY <1>1, <2>1, <2>2, <2>3 DEF Memories
<1>7. Accounts'
  BY <1>1, AccountsKept
<1>8. Copies'
  BY <1>1, <1>2 DEF Copies
<1> QED BY <1>3, <1>4, <1>5, <1>6, <1>7, <1>8

(* Memory: the string is chosen with the name, and copied from then on.     *)
LEMMA StringsAreSequences ==
    ASSUME Names!NamesAssumption, NEW s \in Strings
    PROVE  s \in Seq(Letters)
<1>1. s \in Seq(Names!Range(s))
  BY DEF Names!NamesAssumption
<1>2. Names!Range(s) \subseteq Letters
  BY DEF Letters
<1> QED BY <1>1, <1>2

LEMMA MemoryCreateStep ==
    ASSUME Names!NamesAssumption, NamesInv, NEW p \in Processes, Names!shm_create(p)
    PROVE  NamesInv'
<1> USE DEF NamesInv, Names!NamesAssumption
<1>1. nameAt[p] = "start" /\ Idle /\ UNCHANGED <<handle, content, size, namePrinted>>
  BY DEF Names!shm_create, Names!semaphores, Idle
<1>2. PICK where \in {"failed", "truncate"} :
         /\ nameAt' = [nameAt EXCEPT ![p] = where]
         /\ where = "failed" => UNCHANGED <<nameMemory, string>>
         /\ where = "truncate" => /\ nameMemory' = p
                                  /\ \E s \in Strings : string' = [string EXCEPT ![p] = s]
  BY DEF Names!shm_create, Names!Goto
<1>3. nameAt'[p] = where /\ \A q \in Processes \ {p} : nameAt'[q] = nameAt[q]
  BY <1>2 DEF NamesTypes, Names!TypeOK
<1>4. /\ \A q \in Processes \ {p} : string'[q] = string[q]
      /\ string' \in [Processes -> Seq(Letters)] /\ string' \in [Processes -> Strings \cup {<<>>}]
  <2>1. CASE where = "failed"
    BY <1>2, <2>1 DEF NamesTypes, Names!TypeOK
  <2>2. CASE where = "truncate"
    <3>1. PICK s \in Strings : string' = [string EXCEPT ![p] = s]
      BY <1>2, <2>2
    <3>2. s \in Seq(Letters)
      BY StringsAreSequences
    <3> QED BY <3>1, <3>2 DEF NamesTypes, Names!TypeOK
  <2> QED BY <2>1, <2>2
<1>5. NamesTypes'
  <2>1. nameMemory' \in Processes \cup {NoName}
    BY <1>2 DEF NamesTypes, Names!TypeOK
  <2> QED BY <1>1, <1>2, <1>4, <2>1 DEF NamesTypes, Names!TypeOK, Idle
<1>6. NotBegun'
  BY <1>1, <1>2, <1>3 DEF NotBegun, Idle
<1>7. Semaphores'
  <2>1. semaphore # NoName => semaphore \in Processes
    BY DEF NamesTypes, Names!TypeOK
  <2>2. \A s \in Processes : nameAt[s] = "created" => nameAt'[s] = "created"
    BY <1>1, <1>3
  <2>3. \A q \in Processes : nameAt'[q] \in UsesSem => nameAt[q] \in UsesSem
    BY <1>1, <1>3 DEF UsesSem
  <2> QED BY <1>1, <2>1, <2>2, <2>3 DEF Semaphores, Idle
<1>8. Memories'
  <2>1. nameMemory' # NoName => nameMemory' \in Processes /\ nameAt'[nameMemory'] \in MapsIt
    <3>1. CASE where = "failed"
      <4>1. nameMemory # NoName => nameMemory \in Processes \ {p} /\ nameAt[nameMemory] \in MapsIt
        BY <1>1 DEF NotBegun, Memories, NamesTypes, Names!TypeOK
      <4> QED BY <3>1, <4>1, <1>2, <1>3
    <3>2. CASE where = "truncate"
      BY <3>2, <1>2, <1>3 DEF MapsIt
    <3> QED BY <3>1, <3>2
  <2>2. \A s \in Processes : nameAt[s] \in MapsIt => nameAt'[s] \in MapsIt
    BY <1>1, <1>3 DEF MapsIt
  <2>3. \A q \in Processes : nameAt'[q] \in UsesMem => nameAt[q] \in UsesMem
    BY <1>1, <1>2, <1>3 DEF UsesMem
  <2> QED BY <1>1, <2>1, <2>2, <2>3 DEF Memories
<1>9. Accounts'
  BY <1>1, <1>2, AccountsKept DEF Idle
<1>10. Copies'
  <2>1. ASSUME NEW q \in Processes
        PROVE  /\ Begins(content'[q], string'[q])
               /\ nameAt'[q] = "copied" => content'[q] = string'[q]
               /\ nameAt'[q] = "printed" => Begins(namePrinted'[q], string'[handle'[q]])
    <3>1. CASE q = p
      <4>1. content'[q] = <<>> /\ string'[q] \in Seq(Letters)
        BY <3>1, <1>1, <1>4 DEF NotBegun
      <4> QED BY <4>1, <3>1, <1>2, <1>3 DEF Begins
    <3>2. CASE q # p
      <4>1. nameAt'[q] = "printed" => handle[q] \in Processes \ {p}
        BY <3>2, <1>1, <1>3 DEF Memories, UsesMem, MapsIt
      <4> QED BY <4>1, <3>2, <1>1, <1>3, <1>4 DEF Copies
    <3> QED BY <3>1, <3>2
  <2> QED BY <2>1 DEF Copies
<1> QED BY <1>5, <1>6, <1>7, <1>8, <1>9, <1>10

LEMMA MemoryStep ==
    ASSUME Names!NamesAssumption, NamesInv, NEW p \in Processes,
           Names!Truncate(p) \/ Names!Copy(p) \/ Names!Contents(p)
    PROVE  NamesInv'
<1> USE DEF NamesInv
<1>1. PICK where \in {"copy", "copied", "printed"} :
         /\ nameAt' = [nameAt EXCEPT ![p] = where]
         /\ where = "copy" => nameAt[p] \in {"truncate", "copy"}
         /\ where = "copied" => nameAt[p] = "copy"
         /\ where = "printed" => nameAt[p] = "contents"
         /\ Idle /\ UNCHANGED <<handle, nameMemory, string>>
  <2>1. CASE Names!Truncate(p)
    BY <2>1 DEF Names!Truncate, Names!Goto, Names!semaphores, Idle
  <2>2. CASE Names!Contents(p)
    BY <2>2 DEF Names!Contents, Names!Goto, Names!semaphores, Idle
  <2>3. CASE Names!Copy(p)
    <3>1. CASE UNCHANGED nameAt
      <4>1. nameAt' = [nameAt EXCEPT ![p] = "copy"]
        BY <2>3, <3>1 DEF Names!Copy, NamesTypes, Names!TypeOK
      <4> QED BY <4>1, <2>3 DEF Names!Copy, Names!semaphores, Idle
    <3>2. CASE nameAt' = [nameAt EXCEPT ![p] = "copied"]
      BY <2>3, <3>2 DEF Names!Copy, Names!semaphores, Idle
    <3> QED BY <2>3, <3>1, <3>2 DEF Names!Copy, Names!Goto
  <2> QED BY <2>1, <2>2, <2>3
<1>2. nameAt'[p] = where /\ \A q \in Processes \ {p} : nameAt'[q] = nameAt[q]
  BY <1>1 DEF NamesTypes, Names!TypeOK
<1>3. /\ content[p] \in Seq(Letters) /\ string[p] \in Seq(Letters) /\ Begins(content[p], string[p])
  BY DEF NamesTypes, Copies
<1>4. /\ content' \in [Processes -> Seq(Letters)] /\ Begins(content'[p], string[p])
      /\ \A q \in Processes \ {p} : content'[q] = content[q]
      /\ where = "copied" => content'[p] = string[p]
  <2>1. CASE content' = content
    <3>1. where = "copied" => content[p] = string[p]
      <4>1. where = "copied" => Names!Copy(p)
        BY <1>1, <1>2, <2>1 DEF Names!Truncate, Names!Contents, Names!Goto
      <4>2. Names!Copy(p) /\ where = "copied" => ~(Len(content[p]) < Len(string[p]))
        BY <1>1, <1>2 DEF Names!Copy
      <4>3. Begins(content[p], string[p]) /\ ~(Len(content[p]) < Len(string[p])) => content[p] = string[p]
        BY <1>3 DEF Begins
      <4> QED BY <4>1, <4>2, <4>3, <1>3
    <3> QED BY <2>1, <3>1, <1>3 DEF NamesTypes
  <2>2. CASE /\ Len(content[p]) < Len(string[p]) /\ UNCHANGED nameAt /\ nameAt[p] = "copy"
             /\ content' = [content EXCEPT ![p] = Append(@, string[p][Len(@) + 1])]
    <3> DEFINE longer == Append(content[p], string[p][Len(content[p]) + 1])
    <3>1. string[p][Len(content[p]) + 1] \in Letters
      BY <1>3, <2>2
    <3>2. longer \in Seq(Letters) /\ Begins(longer, string[p])
      BY <1>3, <2>2, <3>1 DEF Begins
    <3>3. content' = [content EXCEPT ![p] = longer] /\ content \in [Processes -> Seq(Letters)]
      BY <2>2 DEF NamesTypes
    <3> HIDE DEF longer
    <3> QED BY <2>2, <3>2, <3>3, <1>2
  <2> QED BY <2>1, <2>2 DEF Names!Truncate, Names!Copy, Names!Contents
<1>5. /\ namePrinted' \in [Processes -> Seq(Letters)]
      /\ \A q \in Processes \ {p} : namePrinted'[q] = namePrinted[q]
      /\ where = "printed" => handle[p] \in Processes /\ namePrinted'[p] = content[handle[p]]
  <2>1. CASE Names!Contents(p)
    <3>1. namePrinted' = [namePrinted EXCEPT ![p] = content[handle[p]]] /\ handle[p] \in Processes
      BY <2>1 DEF Names!Contents, Memories, UsesMem
    <3>2. content[handle[p]] \in Seq(Letters) /\ namePrinted \in [Processes -> Seq(Letters)]
      BY <3>1 DEF NamesTypes
    <3> QED BY <3>1, <3>2
  <2>2. CASE Names!Truncate(p) \/ Names!Copy(p)
    <3>1. namePrinted' = namePrinted /\ nameAt[p] # "contents"
      BY <2>2 DEF Names!Truncate, Names!Copy
    <3> QED BY <3>1, <1>1 DEF NamesTypes
  <2> QED BY <2>1, <2>2
<1>6. NamesTypes'
  <2>1. size' \in [Processes -> Nat]
    <3>1. Len(string[p]) + 1 \in Nat /\ size \in [Processes -> Nat]
      BY <1>3 DEF NamesTypes, Names!TypeOK
    <3> QED BY <3>1 DEF Names!Truncate, Names!Copy, Names!Contents
  <2>2. nameAt' \in [Processes -> {"start", "failed", "created", "post", "posted", "wait", "waited",
                             "unlinked", "truncate", "copy", "copied", "stat", "crashed",
                             "contents", "printed"}]
    BY <1>1 DEF NamesTypes, Names!TypeOK
  <2> QED BY <1>1, <1>4, <1>5, <2>1, <2>2 DEF NamesTypes, Names!TypeOK, Idle
<1>7. NotBegun'
  BY <1>1, <1>2, <1>4 DEF NotBegun, Idle
<1>8. Semaphores'
  <2>1. semaphore # NoName => semaphore \in Processes
    BY DEF NamesTypes, Names!TypeOK
  <2>2. \A s \in Processes : nameAt[s] = "created" => nameAt'[s] = "created"
    BY <1>1, <1>2
  <2>3. \A q \in Processes : nameAt'[q] \in UsesSem => nameAt[q] \in UsesSem
    BY <1>1, <1>2 DEF UsesSem
  <2> QED BY <1>1, <2>1, <2>2, <2>3 DEF Semaphores, Idle
<1>9. Memories'
  <2>1. nameMemory # NoName => nameMemory \in Processes
    BY DEF NamesTypes, Names!TypeOK
  <2>2. \A s \in Processes : nameAt[s] \in MapsIt => nameAt'[s] \in MapsIt
    BY <1>1, <1>2 DEF MapsIt
  <2>3. \A q \in Processes : nameAt'[q] \in UsesMem => nameAt[q] \in UsesMem
    BY <1>1, <1>2 DEF UsesMem
  <2> QED BY <1>1, <2>1, <2>2, <2>3 DEF Memories
<1>10. Accounts'
  BY <1>1, AccountsKept DEF Idle
<1>11. Copies'
  <2>1. ASSUME NEW q \in Processes
        PROVE  /\ Begins(content'[q], string[q])
               /\ nameAt'[q] = "copied" => content'[q] = string[q]
               /\ nameAt'[q] = "printed" => Begins(namePrinted'[q], string[handle[q]])
    <3>1. CASE q = p
      BY <3>1, <1>2, <1>4, <1>5 DEF Copies
    <3>2. CASE q # p
      BY <3>2, <1>2, <1>4, <1>5 DEF Copies
    <3> QED BY <3>1, <3>2
  <2> QED BY <2>1, <1>1 DEF Copies
<1> QED BY <1>6, <1>7, <1>8, <1>9, <1>10, <1>11

LEMMA NamesInit == Names!NamesAssumption /\ Names!Init => NamesInv
<1> SUFFICES ASSUME Names!NamesAssumption, Names!Init PROVE NamesInv
  OBVIOUS
<1> USE DEF Names!Init, Names!All
<1>1. NamesTypes /\ NotBegun /\ Semaphores /\ Memories
  BY DEF NamesTypes, Names!TypeOK, NotBegun, Semaphores, Memories, UsesSem, UsesMem,
         Names!NamesAssumption
<1>2. Accounts
  <2>1. \A s \in Processes : Those(s, "waited") = {} /\ Those(s, "posted") = {}
    BY DEF Those
  <2> QED BY <2>1, EndedIsCount DEF Accounts
<1>3. Copies
  BY DEF Copies, Begins
<1> QED BY <1>1, <1>2, <1>3 DEF NamesInv

\* Names (9-45 and 9-46), however many processes run the programs and in
\* whatever order: posts and waits are accounted on the semaphore that was
\* opened, and what is printed is a beginning of the string in the memory that
\* was opened.
THEOREM NamesComeAndGo ==
    ASSUME Names!NamesAssumption
    PROVE  Names!Spec => []HandlesOutliveNames
<1>1. Names!Init => NamesInv
  BY NamesInit
<1>2. NamesInv /\ [Names!Next]_(Names!vars) => NamesInv'
  <2> SUFFICES ASSUME NamesInv, [Names!Next]_(Names!vars) PROVE NamesInv'
    OBVIOUS
  <2>1. CASE UNCHANGED Names!vars
    <3> USE <2>1 DEF Names!vars, NamesInv
    <3>1. NamesTypes' /\ NotBegun' /\ Semaphores' /\ Memories' /\ Copies'
      BY DEF NamesTypes, Names!TypeOK, NotBegun, Semaphores, Memories, Copies
    <3>2. ASSUME NEW s, NEW how PROVE Names!Ended(s, how)' = Names!Ended(s, how)
      BY SameEnded DEF Those
    <3> QED BY <3>1, <3>2 DEF Accounts
  <2> QED BY <2>1, SemCreateStep, OpenStep, PostStep, EndingStep, MemoryCreateStep, MemoryStep
          DEF Names!Next
<1>3. NamesInv => HandlesOutliveNames
  <2> SUFFICES ASSUME NamesInv PROVE HandlesOutliveNames
    OBVIOUS
  <2>1. Names!TypeOK
    BY DEF NamesInv, NamesTypes
  <2>2. \A s \in Processes :
           value[s] + Names!Ended(s, "waited") = initial[s] + Names!Ended(s, "posted")
    BY DEF NamesInv, Accounts
  <2>3. ASSUME NEW p \in Processes
        PROVE  /\ nameAt[p] = "copied" => content[p] = string[p]
               /\ nameAt[p] = "printed" =>
                     \E n \in 0 .. Len(string[handle[p]]) : namePrinted[p] = SubSeq(string[handle[p]], 1, n)
               /\ nameAt[p] = "crashed" => nameAt[handle[p]] \in {"truncate", "copy", "copied"}
    <3>1. nameAt[p] = "printed" =>
             \E n \in 0 .. Len(string[handle[p]]) : namePrinted[p] = SubSeq(string[handle[p]], 1, n)
      <4> SUFFICES ASSUME nameAt[p] = "printed"
                   PROVE  \E n \in 0 .. Len(string[handle[p]]) :
                             namePrinted[p] = SubSeq(string[handle[p]], 1, n)
        OBVIOUS
      <4>1. /\ namePrinted[p] \in Seq(Letters) /\ handle[p] \in Processes
            /\ Begins(namePrinted[p], string[handle[p]])
        BY DEF NamesInv, NamesTypes, Memories, UsesMem, Copies
      <4>2. string[handle[p]] \in Seq(Letters)
        BY <4>1 DEF NamesInv, NamesTypes
      <4> QED BY <4>1, <4>2, PrefixOf
    <3> QED BY <3>1 DEF NamesInv, Copies, Memories, UsesMem, MapsIt
  <2> QED BY <2>1, <2>2, <2>3 DEF HandlesOutliveNames, Names!HandlesOutliveNames
<1> QED BY <1>1, <1>2, <1>3, PTL DEF Names!Spec

-----------------------------------------------------------------------------
(* The shared region (8-24/srmap.c): the table holds the entries of the     *)
(* segments among the load commands handled so far, and the base address is *)
(* the lowest of theirs.                                                    *)
EntriesOf(S)  == {Region!FileEntry(sc) : sc \in S} \cup {Region!ZeroEntry(sc) : sc \in {z \in S : Region!HasZeros(z)}}
AllEntries    == EntriesOf(UNION {Region!SegmentsOf(file) : file \in Libraries})
Handled       == {c \in {library.commands[k] : k \in 1 .. lc} : c.cmd = "LC_SEGMENT"}

RegionInv ==
    /\ library \in Libraries \cup {Region!NoFile} /\ descriptor \in BOOLEAN
    /\ doing \in {"open", "header", "commands", "overrun", "out", "exit"}
    /\ lc \in 0 .. Len(library.commands)
    /\ doing \in {"open", "header"} => lc = 0 /\ mappingTable = <<>> /\ region = <<>>
    /\ doing \in {"commands", "overrun"} => region = <<>>
    /\ doing = "overrun" => Len(mappingTable) > MAX_SEGMENTS
    /\ doing \in {"open", "exit"} => ~descriptor
    /\ mappingTable \in Seq(AllEntries) /\ Len(mappingTable) = Region!Needed
    /\ Region!Range(mappingTable) = EntriesOf(Handled)
    /\ base_address = Region!Highest \/ base_address \in {sc.vmaddr : sc \in Handled}
    /\ \A sc \in Handled : base_address <= sc.vmaddr
    /\ base_address \in 0 .. Region!Highest
    /\ region # <<>> => region = mappingTable /\ lc = Len(library.commands)

LEMMA HighestIsNat == Region!Highest \in Nat
BY SMT DEF Region!Highest

LEMMA SetOfConcatenation ==
    ASSUME NEW L, NEW s \in Seq(L), NEW t \in Seq(L)
    PROVE  Region!Range(s \o t) = Region!Range(s) \cup Region!Range(t)
<1>1. \A k \in 1 .. Len(s) + Len(t) :
         (s \o t)[k] = IF k <= Len(s) THEN s[k] ELSE t[k - Len(s)]
  OBVIOUS
<1>2. Region!Range(s \o t) \subseteq Region!Range(s) \cup Region!Range(t)
  BY <1>1 DEF Region!Range
<1>3. ASSUME NEW k \in DOMAIN s PROVE s[k] \in Region!Range(s \o t)
  BY <1>1, <1>3 DEF Region!Range
<1>4. ASSUME NEW k \in DOMAIN t PROVE t[k] \in Region!Range(s \o t)
  <2>1. (s \o t)[k + Len(s)] = t[k] /\ k + Len(s) \in DOMAIN (s \o t)
    BY <1>1, <1>4
  <2> QED BY <2>1 DEF Region!Range
<1>5. Region!Range(s) \cup Region!Range(t) \subseteq Region!Range(s \o t)
  BY <1>3, <1>4 DEF Region!Range
<1> QED BY <1>2, <1>5

LEMMA SetOfOne == ASSUME NEW f PROVE Region!Range(<<f>>) = {f}
<1>1. DOMAIN <<f>> = {1}
  OBVIOUS
<1>2. {<<f>>[k] : k \in {1}} = {f}
  OBVIOUS
<1> QED BY <1>1, <1>2 DEF Region!Range

LEMMA EntriesAreThose ==
    ASSUME NEW sc, NEW E, EntriesOf({sc}) \subseteq E
    PROVE  /\ Region!Entries(sc) \in Seq(E)
           /\ Len(Region!Entries(sc)) = IF Region!HasZeros(sc) THEN 2 ELSE 1
           /\ Region!Range(Region!Entries(sc)) = EntriesOf({sc})
<1>1. CASE Region!HasZeros(sc)
  <2> DEFINE f == Region!FileEntry(sc)
             z == Region!ZeroEntry(sc)
  <2>1. Region!Entries(sc) = <<f>> \o <<z>>
    BY <1>1, Zenon DEF Region!Entries
  <2>2. EntriesOf({sc}) = {f, z}
    BY <1>1 DEF EntriesOf
  <2> HIDE DEF f, z
  <2>3. <<f>> \in Seq(E) /\ <<z>> \in Seq(E) /\ Len(<<f>>) = 1 /\ Len(<<z>>) = 1
    BY <2>2
  <2>4. Region!Range(<<f>>) = {f} /\ Region!Range(<<z>>) = {z}
    BY SetOfOne
  <2>5. Region!Range(<<f>> \o <<z>>) = {f, z}
    <3>1. Region!Range(<<f>> \o <<z>>) = Region!Range(<<f>>) \cup Region!Range(<<z>>)
      BY <2>3, SetOfConcatenation, Zenon
    <3> QED BY <3>1, <2>4
  <2>6. <<f>> \o <<z>> \in Seq(E) /\ Len(<<f>> \o <<z>>) = 2
    BY <2>3
  <2> QED BY <1>1, <2>1, <2>2, <2>5, <2>6
<1>2. CASE ~Region!HasZeros(sc)
  <2>1. Region!Entries(sc) = <<Region!FileEntry(sc)>>
    <3>1. Region!Entries(sc) = <<Region!FileEntry(sc)>> \o <<>>
      BY <1>2, Zenon DEF Region!Entries
    <3> QED BY <3>1
  <2>2. EntriesOf({sc}) = {Region!FileEntry(sc)}
    BY <1>2 DEF EntriesOf
  <2> QED BY <1>2, <2>1, <2>2 DEF Region!Range
<1> QED BY <1>1, <1>2

LEMMA RegionCounts == \A S : Region!Cardinality(S) = Cardinality(S)
BY Zenon DEF Region!Cardinality, Cardinality

(* A load command needs as many entries as it gets.                         *)
LEMMA MoreNeeded ==
    ASSUME lc \in Nat, lc' = lc + 1, library' = library
    PROVE  /\ Region!Needed \in Nat
           /\ library.commands[lc + 1].cmd # "LC_SEGMENT" => Region!Needed' = Region!Needed
           /\ library.commands[lc + 1].cmd = "LC_SEGMENT" =>
                 Region!Needed' = Region!Needed
                                  + IF Region!HasZeros(library.commands[lc + 1]) THEN 2 ELSE 1
<1> DEFINE command == library.commands[lc + 1]
           S == Region!SegmentsIn(lc)
           Z == Region!ZerosIn(lc)
<1>1. /\ S' = S \cup IF command.cmd = "LC_SEGMENT" THEN {lc + 1} ELSE {}
      /\ Z' = Z \cup IF command.cmd = "LC_SEGMENT" /\ Region!HasZeros(command) THEN {lc + 1} ELSE {}
  <2>1. 1 .. lc' = (1 .. lc) \cup {lc + 1}
    OBVIOUS
  <2>2. S' = S \cup IF command.cmd = "LC_SEGMENT" THEN {lc + 1} ELSE {}
    BY <2>1 DEF Region!SegmentsIn
  <2>3. Z' = {k \in S' : Region!HasZeros(library.commands[k])} /\ Z = {k \in S : Region!HasZeros(library.commands[k])}
    BY DEF Region!ZerosIn, Region!SegmentsIn, Region!HasZeros
  <2> HIDE DEF S, Z
  <2> QED BY <2>2, <2>3
<1>2. IsFiniteSet(S) /\ IsFiniteSet(Z) /\ lc + 1 \notin S /\ lc + 1 \notin Z
  <2>1. S \subseteq 1 .. lc /\ Z \subseteq 1 .. lc
    BY DEF Region!ZerosIn, Region!SegmentsIn
  <2>2. IsFiniteSet(1 .. lc)
    BY FS_Interval
  <2>3. lc + 1 \notin 1 .. lc
    OBVIOUS
  <2> HIDE DEF S, Z
  <2>4. IsFiniteSet(S) /\ IsFiniteSet(Z)
    BY <2>1, <2>2, FS_Subset, Zenon
  <2> QED BY <2>1, <2>3, <2>4, Zenon
<1>3. Region!Needed = Cardinality(S) + Cardinality(Z) /\ Region!Needed' = Cardinality(S') + Cardinality(Z')
  BY RegionCounts, Zenon DEF Region!Needed
<1> HIDE DEF S, Z, command
<1>4. Cardinality(S) \in Nat /\ Cardinality(Z) \in Nat
  BY <1>2, FS_CardinalityType
<1>5. Cardinality(S \cup {lc + 1}) = Cardinality(S) + 1 /\ Cardinality(Z \cup {lc + 1}) = Cardinality(Z) + 1
  BY <1>2, FS_AddElement
<1>6. command.cmd # "LC_SEGMENT" => S' = S /\ Z' = Z
  BY <1>1
<1>7. command.cmd = "LC_SEGMENT" => S' = S \cup {lc + 1}
                                    /\ Z' = IF Region!HasZeros(command) THEN Z \cup {lc + 1} ELSE Z
  BY <1>1
<1>8. Region!Needed \in Nat
  BY <1>3, <1>4
<1>9. command.cmd # "LC_SEGMENT" => Region!Needed' = Region!Needed
  BY <1>3, <1>6
<1>10. ASSUME command.cmd = "LC_SEGMENT"
       PROVE  Region!Needed' = Region!Needed + IF Region!HasZeros(command) THEN 2 ELSE 1
  <2>1. CASE Region!HasZeros(command)
    <3>1. S' = S \cup {lc + 1} /\ Z' = Z \cup {lc + 1}
      BY <1>7, <1>10, <2>1, Zenon
    <3>2. Cardinality(S') = Cardinality(S) + 1 /\ Cardinality(Z') = Cardinality(Z) + 1
      BY <1>5, <3>1, Zenon
    <3>3. Region!Needed' = Region!Needed + 2
      BY <1>3, <1>4, <3>2
    <3> QED BY <2>1, <3>3, Zenon
  <2>2. CASE ~Region!HasZeros(command)
    <3>1. S' = S \cup {lc + 1} /\ Z' = Z
      BY <1>7, <1>10, <2>2, Zenon
    <3>2. Cardinality(S') = Cardinality(S) + 1 /\ Cardinality(Z') = Cardinality(Z)
      BY <1>5, <3>1, Zenon
    <3>3. Region!Needed' = Region!Needed + 1
      BY <1>3, <1>4, <3>2
    <3> QED BY <2>2, <3>3, Zenon
  <2> QED BY <2>1, <2>2
<1> QED BY <1>8, <1>9, <1>10 DEF command

LEMMA LoadCommandStep ==
    ASSUME Region!LibrariesAssumption, RegionInv, Region!LoadCommand PROVE RegionInv'
<1> DEFINE command == library.commands[lc + 1]
<1>1. /\ doing = "commands" /\ lc < Len(library.commands) /\ lc' = lc + 1
      /\ UNCHANGED <<library, descriptor, region>>
      /\ doing' = "commands" \/ (doing' = "overrun" /\ Len(mappingTable') > MAX_SEGMENTS)
      /\ IF command.cmd = "LC_SEGMENT"
         THEN /\ mappingTable' = mappingTable \o Region!Entries(command)
              /\ base_address' = IF command.vmaddr < base_address THEN command.vmaddr ELSE base_address
         ELSE UNCHANGED <<mappingTable, base_address>>
  <2>1. doing' \in {"commands"} \cup IF Len(mappingTable') > MAX_SEGMENTS THEN {"overrun"} ELSE {}
    BY SMT DEF Region!LoadCommand
  <2>2. doing' = "commands" \/ (doing' = "overrun" /\ Len(mappingTable') > MAX_SEGMENTS)
    BY <2>1, Zenon
  <2> QED BY <2>2 DEF Region!LoadCommand
<1>2. library \in Libraries /\ library.commands \in Seq(Region!Range(library.commands))
  BY <1>1 DEF RegionInv, Region!NoFile, Region!LibrariesAssumption
<1>3. lc \in Nat /\ lc + 1 \in 1 .. Len(library.commands)
  BY <1>1, <1>2 DEF RegionInv
<1>4. command \in Region!Range(library.commands)
  BY <1>2, <1>3 DEF Region!Range
<1>5. Handled' = Handled \cup IF command.cmd = "LC_SEGMENT" THEN {command} ELSE {}
  <2>1. 1 .. lc' = (1 .. lc) \cup {lc + 1}
    BY <1>1, <1>3
  <2>2. {library'.commands[k] : k \in 1 .. lc'} = {library.commands[k] : k \in 1 .. lc} \cup {command}
    BY <1>1, <2>1
  <2> HIDE DEF command
  <2> QED BY <2>2 DEF Handled
<1>a. /\ command.cmd # "LC_SEGMENT" => Region!Needed' = Region!Needed
      /\ command.cmd = "LC_SEGMENT" =>
            Region!Needed' = Region!Needed + IF Region!HasZeros(command) THEN 2 ELSE 1
  BY <1>1, <1>3, MoreNeeded
<1> HIDE DEF command
<1>6. CASE command.cmd # "LC_SEGMENT"
  BY <1>1, <1>3, <1>5, <1>6, <1>a DEF RegionInv
<1>7. CASE command.cmd = "LC_SEGMENT"
  <2>1. command \in Region!SegmentsOf(library)
    BY <1>4, <1>7 DEF Region!SegmentsOf
  <2>2. command.vmaddr \in 0 .. Region!Highest
    BY <1>2, <2>1 DEF Region!LibrariesAssumption
  <2>3. EntriesOf({command}) \subseteq AllEntries
    <3>1. command \in UNION {Region!SegmentsOf(file) : file \in Libraries}
      BY <1>2, <2>1
    <3> QED BY <3>1 DEF AllEntries, EntriesOf
  <2>4. /\ Region!Entries(command) \in Seq(AllEntries)
        /\ Len(Region!Entries(command)) = IF Region!HasZeros(command) THEN 2 ELSE 1
        /\ Region!Range(Region!Entries(command)) = EntriesOf({command})
    BY <2>3, EntriesAreThose
  <2>5. mappingTable \in Seq(AllEntries) /\ Len(mappingTable) = Region!Needed
    BY DEF RegionInv
  <2>6. mappingTable' \in Seq(AllEntries) /\ Len(mappingTable') = Region!Needed'
    <3>1. mappingTable' = mappingTable \o Region!Entries(command)
      BY <1>1, <1>7
    <3>2. Len(mappingTable') = Len(mappingTable) + Len(Region!Entries(command))
      <4> DEFINE more == Region!Entries(command)
      <4>1. more \in Seq(AllEntries) /\ mappingTable \in Seq(AllEntries)
        BY <2>4, <2>5
      <4> HIDE DEF more
      <4>2. Len(mappingTable \o more) = Len(mappingTable) + Len(more)
        BY ONLY <4>1
      <4> QED BY <3>1, <4>2 DEF more
    <3>3. Len(mappingTable') = Region!Needed + IF Region!HasZeros(command) THEN 2 ELSE 1
      BY <3>2, <2>4, <2>5, Zenon
    <3>4. mappingTable' \in Seq(AllEntries)
      BY <3>1, <2>4, <2>5
    <3> QED BY <3>3, <3>4, <1>7, <1>a, Zenon
  <2>7. Region!Range(mappingTable') = EntriesOf(Handled')
    <3>1. Region!Range(mappingTable') = Region!Range(mappingTable) \cup EntriesOf({command})
      <4>1. mappingTable' = mappingTable \o Region!Entries(command)
        BY <1>1, <1>7
      <4>2. Region!Range(mappingTable \o Region!Entries(command))
              = Region!Range(mappingTable) \cup Region!Range(Region!Entries(command))
        BY <2>4, <2>5, SetOfConcatenation
      <4> QED BY <4>1, <4>2, <2>4
    <3>2. EntriesOf(Handled \cup {command}) = EntriesOf(Handled) \cup EntriesOf({command})
      BY DEF EntriesOf
    <3> QED BY <1>5, <1>7, <3>1, <3>2 DEF RegionInv
  <2>8. base_address' = IF command.vmaddr < base_address THEN command.vmaddr ELSE base_address
    BY <1>1, <1>7
  <2>9. Handled' = Handled \cup {command}
    BY <1>5, <1>7
  <2>10. \A sc \in Handled : sc.vmaddr \in 0 .. Region!Highest
    <3>1. Handled \subseteq Region!SegmentsOf(library)
      BY <1>2, <1>3 DEF Handled, Region!SegmentsOf, Region!Range
    <3> QED BY <3>1, <1>2 DEF Region!LibrariesAssumption
  <2>11. /\ base_address' = Region!Highest \/ base_address' \in {sc.vmaddr : sc \in Handled'}
         /\ base_address' \in 0 .. Region!Highest
         /\ \A sc \in Handled' : base_address' <= sc.vmaddr
    <3>1. base_address \in 0 .. Region!Highest /\ \A sc \in Handled : base_address <= sc.vmaddr
      BY DEF RegionInv
    <3>2. CASE command.vmaddr < base_address
      BY <3>1, <3>2, <2>2, <2>8, <2>9, <2>10, HighestIsNat
    <3>3. CASE ~(command.vmaddr < base_address)
      BY <3>1, <3>3, <2>2, <2>8, <2>9, <2>10, HighestIsNat DEF RegionInv
    <3> QED BY <3>2, <3>3
  <2> QED BY <1>1, <1>3, <2>6, <2>7, <2>11 DEF RegionInv
<1> QED BY <1>6, <1>7

LEMMA SameNeeded == UNCHANGED <<library, lc>> => Region!Needed' = Region!Needed
BY DEF Region!Needed, Region!ZerosIn, Region!SegmentsIn, Region!HasZeros

LEMMA NothingNeeded == /\ lc = 0 => Region!Needed = 0
                       /\ lc' = 0 => Region!Needed' = 0
<1>1. 1 .. 0 = {} /\ Cardinality({}) = 0
  BY FS_EmptySet
<1>2. ASSUME lc = 0 PROVE Region!Needed = 0
  <2>1. Region!SegmentsIn(lc) = {} /\ Region!ZerosIn(lc) = {}
    BY <1>1, <1>2 DEF Region!ZerosIn, Region!SegmentsIn
  <2>2. Region!Needed = 0 + 0
    BY <1>1, <2>1, RegionCounts, Zenon DEF Region!Needed
  <2> QED BY <2>2
<1>3. ASSUME lc' = 0 PROVE Region!Needed' = 0
  <2>1. Region!SegmentsIn(lc)' = {} /\ Region!ZerosIn(lc)' = {}
    BY <1>1, <1>3 DEF Region!ZerosIn, Region!SegmentsIn
  <2>2. Region!Needed' = 0 + 0
    BY <1>1, <2>1, RegionCounts, Zenon DEF Region!Needed
  <2> QED BY <2>2
<1> QED BY <1>2, <1>3

LEMMA OtherRegionSteps ==
    ASSUME Region!LibrariesAssumption, RegionInv,
           Region!OpenLibrary \/ Region!CheckHeader \/ Region!MapFile \/ Region!CloseLibrary
    PROVE  RegionInv'
<1>1. CASE Region!OpenLibrary
  <2>1. /\ doing = "open" /\ UNCHANGED <<lc, mappingTable, base_address, region>>
        /\ \/ library' \in Libraries /\ descriptor' = TRUE /\ doing' = "header"
           \/ doing' = "exit" /\ UNCHANGED <<library, descriptor>>
    BY <1>1 DEF Region!OpenLibrary
  <2>2. Handled = {} /\ Handled' = {}
    BY <2>1 DEF RegionInv, Handled
  <2>3. lc' \in 0 .. Len(library'.commands)
    <3>1. CASE library' \in Libraries
      <4>1. Len(library'.commands) \in Nat
        BY <3>1 DEF Region!LibrariesAssumption
      <4> QED BY <4>1, <2>1 DEF RegionInv
    <3>2. CASE library' = library
      BY <3>2, <2>1 DEF RegionInv
    <3> QED BY <2>1, <3>1, <3>2
  <2>4. Handled' = Handled /\ mappingTable = <<>> /\ Len(mappingTable) = 0 /\ Region!Needed' = 0
    <3>1. Region!Needed' = 0
      BY <2>1, NothingNeeded DEF RegionInv
    <3> QED BY <2>1, <2>2, <3>1 DEF RegionInv
  <2>5. CASE library' \in Libraries /\ descriptor' = TRUE /\ doing' = "header"
    BY <2>1, <2>3, <2>4, <2>5 DEF RegionInv
  <2>6. CASE doing' = "exit" /\ UNCHANGED <<library, descriptor>>
    BY <2>1, <2>3, <2>4, <2>6 DEF RegionInv
  <2> QED BY <2>1, <2>5, <2>6
<1>2. CASE Region!CheckHeader
  BY <1>2, SameNeeded DEF Region!CheckHeader, RegionInv, Handled
<1>3. CASE Region!MapFile
  BY <1>3, SameNeeded DEF Region!MapFile, RegionInv, Handled
<1>4. CASE Region!CloseLibrary
  BY <1>4, SameNeeded DEF Region!CloseLibrary, RegionInv, Handled
<1> QED BY <1>1, <1>2, <1>3, <1>4

(* The entries of one segment cover it as they should.                      *)
LEMMA ExtentIsNat ==
    ASSUME NEW sc, sc.vmsize \in Nat, sc.filesize \in Nat
    PROVE  /\ Region!Extent(sc) \in Nat /\ Region!Extent(sc) >= sc.vmsize
           /\ Region!Extent(sc) >= sc.filesize
           /\ Region!Extent(sc) \in {sc.vmsize, sc.filesize}
BY DEF Region!Extent

LEMMA EntryOfByte ==
    ASSUME NEW sc, NEW k \in Nat, NEW e,
           sc.vmaddr \in Nat, sc.vmsize \in Nat, sc.fileoff \in Nat, sc.filesize \in Nat,
           sc.initprot \subseteq {"read", "write", "execute"},
           e \in EntriesOf({sc}), sc.vmaddr + k \in Region!Span(e.address, e.size)
    PROVE  /\ e = IF k < sc.filesize THEN Region!FileEntry(sc) ELSE Region!ZeroEntry(sc)
           /\ Region!Serves(e, sc, k)
<1>1. CASE e = Region!FileEntry(sc)
  <2>1. e.address = sc.vmaddr /\ e.size = sc.filesize /\ e.file_offset = sc.fileoff
        /\ e.prot = Region!Protection(sc)
    BY <1>1 DEF Region!FileEntry
  <2>2. k < sc.filesize
    BY <2>1 DEF Region!Span
  <2>3. "zf" \notin e.prot /\ ("write" \in sc.initprot <=> "cow" \in e.prot)
    BY <2>1 DEF Region!Protection
  <2>4. e.file_offset + (sc.vmaddr + k - e.address) = sc.fileoff + k
    BY <2>1
  <2> QED BY <1>1, <2>2, <2>3, <2>4 DEF Region!Serves
<1>2. CASE e = Region!ZeroEntry(sc) /\ Region!HasZeros(sc)
  <2>1. e.address = sc.vmaddr + sc.filesize /\ e.size = sc.vmsize - sc.filesize
        /\ e.prot = Region!Protection(sc) \cup {"cow", "zf"}
    BY <1>2 DEF Region!ZeroEntry
  <2>2. ~(k < sc.filesize) /\ k >= sc.filesize
    BY <2>1 DEF Region!Span
  <2>3. "zf" \in e.prot /\ "cow" \in e.prot /\ "write" \in sc.initprot
    BY <2>1, <1>2 DEF Region!HasZeros
  <2> QED BY <1>2, <2>2, <2>3 DEF Region!Serves
<1> QED BY <1>1, <1>2 DEF EntriesOf

LEMMA EntriesWithinSegment ==
    ASSUME NEW sc, NEW e \in EntriesOf({sc}),
           sc.vmaddr \in Nat, sc.vmsize \in Nat, sc.filesize \in Nat
    PROVE  Region!Span(e.address, e.size) \subseteq Region!Occupied(sc)
<1>1. CASE e = Region!FileEntry(sc)
  <2>1. e.address = sc.vmaddr /\ e.size = sc.filesize
    BY <1>1 DEF Region!FileEntry
  <2> QED BY <2>1, ExtentIsNat DEF Region!Span, Region!Occupied
<1>2. CASE e = Region!ZeroEntry(sc) /\ Region!HasZeros(sc)
  <2>1. e.address = sc.vmaddr + sc.filesize /\ e.size = sc.vmsize - sc.filesize
    BY <1>2 DEF Region!ZeroEntry
  <2> QED BY <2>1, ExtentIsNat DEF Region!Span, Region!Occupied
<1> QED BY <1>1, <1>2 DEF EntriesOf

LEMMA ByteHasEntry ==
    ASSUME NEW sc, NEW k \in Nat, k < Region!Extent(sc),
           sc.vmaddr \in Nat, sc.vmsize \in Nat, sc.filesize \in Nat,
           k < sc.filesize \/ "write" \in sc.initprot
    PROVE  \E e \in EntriesOf({sc}) : sc.vmaddr + k \in Region!Span(e.address, e.size)
<1>1. CASE k < sc.filesize
  <2>1. sc.vmaddr + k \in Region!Span(Region!FileEntry(sc).address, Region!FileEntry(sc).size)
    BY <1>1 DEF Region!FileEntry, Region!Span
  <2> QED BY <2>1 DEF EntriesOf
<1>2. CASE ~(k < sc.filesize)
  <2>1. k < sc.vmsize
    BY <1>2, ExtentIsNat
  <2>2. sc.vmaddr + k \in Region!Span(Region!ZeroEntry(sc).address, Region!ZeroEntry(sc).size)
    BY <1>2, <2>1 DEF Region!ZeroEntry, Region!Span
  <2>3. Region!HasZeros(sc)
    BY <1>2, <2>1 DEF Region!HasZeros
  <2> QED BY <2>2, <2>3 DEF EntriesOf
<1> QED BY <1>1, <1>2

\* The shared region (8-24/srmap.c), for every library, its segments overlapping
\* or too many or longer in the file than in memory: each byte is mapped to what
\* belongs there, and only to that where no other segment lies on it; nothing
\* writable is shared, the base address is the lowest, and the table overflows
\* only under a library that needs more entries than it has.
THEOREM RegionIsTheLibrary ==
    ASSUME Region!LibrariesAssumption
    PROVE  Region!Spec => []MapsTheLibrary
<1>1. Region!Init => RegionInv
  <2> SUFFICES ASSUME Region!Init PROVE RegionInv
    OBVIOUS
  <2>1. Handled = {}
    BY DEF Region!Init, Handled
  <2>2. Region!Range(mappingTable) = {} /\ EntriesOf(Handled) = {}
    BY <2>1 DEF Region!Init, Region!Range, EntriesOf
  <2>3. mappingTable \in Seq(AllEntries) /\ Len(mappingTable) = 0 /\ Len(library.commands) = 0
    BY DEF Region!Init, Region!NoFile
  <2>4. /\ base_address = Region!Highest /\ base_address \in 0 .. Region!Highest
        /\ lc \in 0 .. Len(library.commands) /\ Len(mappingTable) = Region!Needed
    BY <2>3, HighestIsNat, NothingNeeded DEF Region!Init
  <2>5. /\ library = Region!NoFile /\ descriptor = FALSE /\ doing = "open" /\ lc = 0
        /\ mappingTable = <<>> /\ region = <<>>
    BY DEF Region!Init
  <2>6. /\ doing \in {"open", "header", "commands", "overrun", "out", "exit"}
        /\ doing \notin {"commands", "overrun"}
        /\ \A sc \in Handled : base_address <= sc.vmaddr
    BY <2>1, <2>5
  <2> QED BY <2>2, <2>3, <2>4, <2>5, <2>6 DEF RegionInv
<1>2. RegionInv /\ [Region!Next]_(Region!vars) => RegionInv'
  <2> SUFFICES ASSUME RegionInv, [Region!Next]_(Region!vars) PROVE RegionInv'
    OBVIOUS
  <2>1. CASE UNCHANGED Region!vars
    BY <2>1, SameNeeded DEF Region!vars, RegionInv, Handled
  <2> QED BY <2>1, LoadCommandStep, OtherRegionSteps DEF Region!Next
<1>3. RegionInv => MapsTheLibrary
  <2> SUFFICES ASSUME RegionInv PROVE MapsTheLibrary
    OBVIOUS
  <2>1. /\ Region!TypeOK /\ (doing = "exit" => ~descriptor)
        /\ Len(mappingTable) = Region!Needed
        /\ doing = "overrun" => Region!Needed > MAX_SEGMENTS
    BY DEF RegionInv, Region!TypeOK
  <2>2. ASSUME region # <<>>
        PROVE  /\ Region!Segments = Handled /\ library \in Libraries
               /\ Region!Range(region) = EntriesOf(Region!Segments) /\ Region!Segments # {}
    <3>1. region = mappingTable /\ lc = Len(library.commands)
      BY <2>2 DEF RegionInv
    <3>2. library \in Libraries
      <4>1. library = Region!NoFile => lc = 0
        BY <3>1 DEF Region!NoFile
      <4>2. lc = 0 => mappingTable = <<>>
        BY NothingNeeded DEF RegionInv
      <4> QED BY <2>2, <3>1, <4>1, <4>2 DEF RegionInv
    <3>3. library.commands \in Seq(Region!Range(library.commands))
      BY <3>2 DEF Region!LibrariesAssumption
    <3>4. Region!Segments = Handled
      BY <3>1, <3>3 DEF Region!Segments, Region!SegmentsOf, Region!Range, Handled
    <3>5. Region!Range(region) = EntriesOf(Region!Segments)
      BY <3>1, <3>4 DEF RegionInv
    <3>6. region[1] \in Region!Range(region)
      BY <2>2, <3>1 DEF RegionInv, Region!Range
    <3>7. Region!Segments # {}
      BY <3>5, <3>6 DEF EntriesOf
    <3> QED BY <3>2, <3>4, <3>5, <3>7
  <2>3. ASSUME region # <<>>, NEW sc \in Region!Segments
        PROVE  /\ sc.vmaddr \in Nat /\ sc.vmsize \in Nat /\ sc.vmaddr \in 0 .. Region!Highest
               /\ sc.fileoff \in Nat /\ sc.filesize \in Nat
               /\ sc.initprot \subseteq {"read", "write", "execute"}
    <3>1. library \in Libraries /\ sc \in Region!SegmentsOf(library)
      BY <2>2, <2>3 DEF Region!Segments
    <3>2. /\ sc.vmaddr \in 0 .. Region!Highest /\ sc.vmsize \in Nat
          /\ sc.fileoff \in Nat /\ sc.filesize \in Nat
          /\ sc.initprot \subseteq {"read", "write", "execute"}
      BY <3>1 DEF Region!LibrariesAssumption
    <3>3. sc.vmaddr \in Nat
      BY <3>2, HighestIsNat
    <3> QED BY <3>2, <3>3
  <2>4. ASSUME region # <<>>, NEW e \in Region!Range(region)
        PROVE  \E sc \in Region!Segments :
                  /\ e \in EntriesOf({sc})
                  /\ Region!Span(e.address, e.size) \subseteq Region!Occupied(sc)
    <3>1. PICK sc \in Region!Segments : e \in EntriesOf({sc})
      BY <2>2, <2>4 DEF EntriesOf
    <3> QED BY <3>1, <2>3, <2>4, EntriesWithinSegment
  <2>5. ASSUME region # <<>>, NEW sc \in Region!Segments, NEW k \in 0 .. Region!Extent(sc) - 1
        PROVE  /\ k < sc.filesize \/ "write" \in sc.initprot =>
                     \E e \in Region!Mapped(sc.vmaddr + k) : Region!Serves(e, sc, k)
               /\ Region!Alone(sc, sc.vmaddr + k) =>
                     \A e \in Region!Mapped(sc.vmaddr + k) :
                        Region!Serves(e, sc, k) /\ Region!Mapped(sc.vmaddr + k) = {e}
    <3> DEFINE only == IF k < sc.filesize THEN Region!FileEntry(sc) ELSE Region!ZeroEntry(sc)
    <3>1. /\ sc.vmaddr \in Nat /\ sc.vmsize \in Nat /\ sc.fileoff \in Nat
          /\ sc.filesize \in Nat /\ sc.initprot \subseteq {"read", "write", "execute"}
          /\ k \in Nat /\ k < Region!Extent(sc)
      BY <2>3, <2>5, ExtentIsNat
    <3>2. ASSUME k < sc.filesize \/ "write" \in sc.initprot
          PROVE  \E e \in Region!Mapped(sc.vmaddr + k) : Region!Serves(e, sc, k)
      <4>1. PICK e \in EntriesOf({sc}) : sc.vmaddr + k \in Region!Span(e.address, e.size)
        BY <3>1, <3>2, ByteHasEntry
      <4>2. e \in Region!Range(region)
        BY <4>1, <2>2, <2>5 DEF EntriesOf
      <4>3. Region!Serves(e, sc, k)
        BY <3>1, <4>1, EntryOfByte
      <4> QED BY <4>1, <4>2, <4>3 DEF Region!Mapped
    <3>3. ASSUME Region!Alone(sc, sc.vmaddr + k), NEW e \in Region!Mapped(sc.vmaddr + k)
          PROVE  e = only /\ Region!Serves(e, sc, k)
      <4>1. e \in Region!Range(region) /\ sc.vmaddr + k \in Region!Span(e.address, e.size)
        BY <3>3 DEF Region!Mapped
      <4>2. PICK o \in Region!Segments :
               /\ e \in EntriesOf({o})
               /\ Region!Span(e.address, e.size) \subseteq Region!Occupied(o)
        BY <2>4, <2>5, <4>1
      <4>3. o = sc
        BY <3>3, <4>1, <4>2 DEF Region!Alone
      <4> QED BY <3>1, <4>1, <4>2, <4>3, EntryOfByte
    <3> HIDE DEF only
    <3>4. Region!Alone(sc, sc.vmaddr + k) =>
             \A e \in Region!Mapped(sc.vmaddr + k) :
                Region!Serves(e, sc, k) /\ Region!Mapped(sc.vmaddr + k) = {e}
      BY <3>3
    <3> QED BY <3>2, <3>4
  <2>6. ASSUME region # <<>>
        PROVE  /\ base_address \in {sc.vmaddr : sc \in Region!Segments}
               /\ \A sc \in Region!Segments : base_address <= sc.vmaddr
    <3>1. /\ base_address = Region!Highest \/ base_address \in {sc.vmaddr : sc \in Region!Segments}
          /\ \A sc \in Region!Segments : base_address <= sc.vmaddr
      BY <2>2, <2>6 DEF RegionInv
    <3>2. PICK sc \in Region!Segments : TRUE
      BY <2>2, <2>6
    <3>3. base_address = Region!Highest => base_address = sc.vmaddr
      BY <2>3, <2>6, <3>1, HighestIsNat
    <3> QED BY <3>1, <3>3
  <2> QED BY <2>1, <2>4, <2>5, <2>6 DEF MapsTheLibrary, Region!MapsTheLibrary
<1> QED BY <1>1, <1>2, <1>3, PTL DEF Region!Spec

-----------------------------------------------------------------------------
(* The file watcher (9-61/kq_fwatch.c).                                     *)
WatchInv ==
    /\ Watch!ReportsChanges
    /\ watching \in {"kqueue", "open", "register"} => occurred = {} /\ kl = {} /\ ~watchFailed
    /\ watching \in {"wait", "process"} => ~watchFailed /\ watchPrinted \cap LastOnes = {}

\* The file watcher (9-61/kq_fwatch.c), whatever kinds of event there are: what
\* happened since the registration is printed, being printed or still in the
\* knote, and the program ends of itself only at a last event.
THEOREM ChangesAreReported == Watch!Spec => []Watch!ReportsChanges
<1>1. Watch!Init => WatchInv
  BY DEF Watch!Init, WatchInv, Watch!ReportsChanges, Watch!TypeOK
<1>2. WatchInv /\ [Watch!Next]_(Watch!vars) => WatchInv'
  <2> SUFFICES ASSUME WatchInv, [Watch!Next]_(Watch!vars) PROVE WatchInv'
    OBVIOUS
  <2> USE DEF WatchInv, Watch!ReportsChanges, Watch!TypeOK
  <2>1. ASSUME NEW kind \in Kinds, Watch!Happens(kind) PROVE WatchInv'
    BY <2>1 DEF Watch!Happens, Watch!Registered
  <2>2. CASE Watch!Setup
    <3>1. watching \in {"kqueue", "open", "register"} /\ UNCHANGED <<fflags, kl, occurred, watchPrinted>>
      BY <2>2 DEF Watch!Setup
    <3>2. \/ watching' \in {"open", "register", "wait"} /\ UNCHANGED watchFailed
          \/ watching' = "exit" /\ watchFailed' = TRUE
      BY <2>2 DEF Watch!Setup
    <3>3. occurred = {} /\ kl = {} /\ ~watchFailed /\ watchPrinted = {} /\ fflags = {}
      BY <3>1
    <3>4. CASE watching' = "exit" /\ watchFailed' = TRUE
      BY <3>1, <3>3, <3>4
    <3>5. CASE watching' \in {"open", "register", "wait"} /\ UNCHANGED watchFailed
      BY <3>1, <3>3, <3>5
    <3> QED BY <3>2, <3>4, <3>5
  <2>3. CASE Watch!Kevent
    BY <2>3 DEF Watch!Kevent
  <2>4. CASE Watch!KeventFails
    BY <2>4 DEF Watch!KeventFails
  <2>5. CASE Watch!process_events
    BY <2>5 DEF Watch!process_events
  <2>6. CASE UNCHANGED Watch!vars
    BY <2>6 DEF Watch!vars
  <2> QED BY <2>1, <2>2, <2>3, <2>4, <2>5, <2>6 DEF Watch!Next
<1>3. WatchInv => Watch!ReportsChanges
  BY DEF WatchInv
<1> QED BY <1>1, <1>2, <1>3, PTL DEF Watch!Spec

-----------------------------------------------------------------------------
(* The query (11-28/lsmdquery.c).  Its list of results has each of them.    *)
LEMMA ListHasAll ==
    ASSUME NEW S, IsFiniteSet(S)
    PROVE  /\ Query!Cardinality(S) = Cardinality(S) /\ Cardinality(S) \in Nat
           /\ Query!ListOf(S) \in [0 .. Cardinality(S) - 1 -> S]
           /\ {Query!ListOf(S)[k] : k \in 0 .. Cardinality(S) - 1} = S
<1>1. Query!Cardinality(S) = Cardinality(S)
  BY Zenon DEF Query!Cardinality, Cardinality
<1>2. Cardinality(S) \in Nat
  BY FS_CardinalityType
<1>3. PICK f \in [1 .. Cardinality(S) -> S] : \A s \in S : \E k \in 1 .. Cardinality(S) : f[k] = s
  BY FS_CardinalityType DEF ExistsBijection, Bijection, Surjection
<1> DEFINE n == Cardinality(S)
           list == [k \in 0 .. n - 1 |-> f[k + 1]]
<1>4. list \in [0 .. n - 1 -> S]
  BY <1>2, <1>3
<1>5. {list[k] : k \in DOMAIN list} = S
  <2>1. ASSUME NEW s \in S PROVE \E k \in 0 .. n - 1 : list[k] = s
    <3>1. PICK k \in 1 .. n : f[k] = s
      BY <1>3
    <3>2. k - 1 \in 0 .. n - 1 /\ (k - 1) + 1 = k
      BY <1>2, <3>1
    <3> QED BY <3>1, <3>2
  <2>2. DOMAIN list = 0 .. n - 1
    OBVIOUS
  <2> HIDE DEF list
  <2> QED BY <2>1, <2>2, <1>4
<1> HIDE DEF list, n
<1>6. \E some \in [0 .. n - 1 -> S] : {some[k] : k \in DOMAIN some} = S
  BY <1>4, <1>5
<1>7. Query!ListOf(S) \in [0 .. n - 1 -> S] /\ {Query!ListOf(S)[k] : k \in DOMAIN Query!ListOf(S)} = S
  BY <1>6, <1>1 DEF Query!ListOf, n
<1> QED BY <1>1, <1>2, <1>7 DEF n

(* What it owns while it goes through its options, and how far it is with   *)
(* the results that it has counted.                                         *)
ChoosesQuery ==
    /\ running = "options" => owned = {} /\ (rawQuery => strings >= 1)
    /\ running = "open" => owned = {"fd"}
    /\ running = "no query" => owned \subseteq {"fd", "xmlData"}
    /\ running \in {"extract", "query"} => owned = {"fd", "xmlData", "pList"}
    /\ running \in {"open", "extract", "no query"} => strings <= queryOptions - 1
    /\ running = "query" => strings >= 1
    /\ running = "crashed" /\ "pList" \notin owned =>
          idx < Cardinality(results) /\ Query!ListOf(results)[idx] \in gone
RunsQuery ==
    /\ running \in {"usage", "create", "exit"} => owned = {}
    /\ running \in {"create", "loop", "callback", "out"} => rawQuery /\ strings >= 1
    /\ running = "exit" => strings <= queryOptions - 1
Gathers ==
    /\ running = "callback" => ~updating
    /\ ~updating => running \in {"callback", "crashed"}
    /\ finished = "handled" => running # "callback"
    /\ finished # "handled" /\ running \notin {"callback", "crashed"} => shown = {}
    /\ running = "callback" =>
          /\ total = Cardinality(results)
          /\ shown = {Query!ListOf(results)[k] : k \in 0 .. idx - 1}
QueryTypes ==
    /\ running \in {"options", "open", "extract", "query", "no query", "usage", "create", "loop",
                    "callback", "out", "exit", "crashed"}
    /\ queryOptions \in Nat /\ queryOptions <= MaxOptions
    /\ strings \in Nat /\ strings <= queryOptions
    /\ owned \subseteq {"fd", "xmlData", "pList", "queryRef"}
    /\ rawQuery \in BOOLEAN /\ updating \in BOOLEAN /\ finished \in {"no", "sent", "handled"}
    /\ results \subseteq Files /\ gone \subseteq Files /\ shown \subseteq Files /\ total \in Nat
    /\ idx \in Nat /\ idx <= total
QueryInv == QueryTypes /\ ChoosesQuery /\ RunsQuery /\ Gathers

LEMMA FilesAreFinite == Query!BoundsAssumption => IsFiniteSet(Files) /\ MaxOptions \in Nat
BY Zenon DEF Query!BoundsAssumption, Query!IsFiniteSet, IsFiniteSet

LEMMA OptionSteps ==
    ASSUME Query!BoundsAssumption, QueryInv,
           \/ Query!QueryOption \/ Query!FolderOption \/ Query!ReadFolder \/ Query!ExtractQuery
           \/ Query!ExtractOut \/ Query!OptionsDone \/ Query!CreateQuery \/ Query!Out
    PROVE  QueryInv'
<1> USE DEF QueryInv, QueryTypes, ChoosesQuery, RunsQuery
<1>1. /\ UNCHANGED <<results, updating, updates, gone, finished, shown, idx, total>>
      /\ running \notin {"callback", "crashed"}
  BY Zenon DEF Query!QueryOption, Query!FolderOption, Query!ReadFolder, Query!ExtractQuery,
         Query!ExtractOut, Query!OptionsDone, Query!CreateQuery, Query!Out, Query!queryVars,
         Query!loopVars
<1>2. running' # "callback"
  BY Zenon DEF Query!QueryOption, Query!FolderOption, Query!ReadFolder, Query!ExtractQuery,
         Query!ExtractOut, Query!OptionsDone, Query!CreateQuery, Query!Out
<1>3. Gathers'
  BY <1>1, <1>2, Zenon DEF Gathers, Query!ListOf
<1>4. MaxOptions \in Nat
  BY FilesAreFinite, Zenon
<1>5. CASE Query!QueryOption
  <2>1. /\ running = "options" /\ queryOptions < MaxOptions /\ queryOptions' = queryOptions + 1
        /\ UNCHANGED <<running, owned>>
        /\ rawQuery' \in BOOLEAN /\ strings' = IF rawQuery' THEN strings + 1 ELSE strings
    BY <1>5 DEF Query!QueryOption
  <2>2. /\ queryOptions' \in Nat /\ queryOptions' <= MaxOptions
        /\ strings' \in Nat /\ strings' <= queryOptions' /\ (rawQuery' => strings' >= 1)
    BY <2>1, <1>4
  <2>3. QueryTypes'
    BY <1>1, <2>1, <2>2
  <2>4. ChoosesQuery' /\ RunsQuery'
    BY <2>1, <2>2
  <2> QED BY <2>3, <2>4, <1>3, Zenon
<1>6. CASE Query!FolderOption
  <2>1. /\ running = "options" /\ queryOptions < MaxOptions /\ queryOptions' = queryOptions + 1
        /\ strings' = strings
    BY <1>6 DEF Query!FolderOption
  <2>2. \/ running' = "open" /\ owned' = {"fd"} /\ UNCHANGED rawQuery
        \/ rawQuery' = FALSE /\ UNCHANGED <<running, owned>>
    BY <1>6 DEF Query!FolderOption
  <2>3. queryOptions' \in Nat /\ queryOptions' <= MaxOptions /\ strings' <= queryOptions' - 1
    BY <2>1, <1>4
  <2>4. strings' \in Nat /\ strings' <= queryOptions'
    BY ONLY <2>1, <2>3, strings \in Nat, queryOptions \in Nat, strings <= queryOptions
  <2>5. /\ running' \in {"open", "options"} /\ rawQuery' \in BOOLEAN
        /\ owned' \subseteq {"fd", "xmlData", "pList", "queryRef"}
    BY <2>1, <2>2
  <2>6. QueryTypes'
    BY <1>1, <2>3, <2>4, <2>5, Zenon
  <2>7. ChoosesQuery' /\ RunsQuery'
    BY <2>1, <2>2, <2>3, Zenon
  <2> QED BY <2>6, <2>7, <1>3, Zenon
<1>7. CASE Query!ReadFolder
  <2>1. running = "open" /\ UNCHANGED <<strings, rawQuery, queryOptions>>
    BY <1>7, Zenon DEF Query!ReadFolder
  <2>2. \/ owned' = {"fd", "xmlData", "pList"} /\ running' = "extract"
        \/ owned' \subseteq {"fd", "xmlData"} /\ running' = "no query"
    BY <1>7, Zenon DEF Query!ReadFolder
  <2>3. QueryTypes'
    BY <1>1, <2>1, <2>2, Zenon
  <2>4. ChoosesQuery' /\ RunsQuery'
    BY <2>1, <2>2, Zenon
  <2> QED BY <2>3, <2>4, <1>3, Zenon
<1>8. CASE Query!ExtractQuery
  <2>1. running = "extract" /\ UNCHANGED <<owned, rawQuery, queryOptions>>
    BY <1>8 DEF Query!ExtractQuery
  <2>2. \/ running' = "query" /\ strings' = strings + 1
        \/ running' = "crashed" /\ strings' = strings
    BY <1>8 DEF Query!ExtractQuery
  <2>3. strings' \in Nat /\ strings' <= queryOptions' /\ (running' = "query" => strings' >= 1)
    BY <2>1, <2>2
  <2>4. QueryTypes'
    BY <1>1, <2>1, <2>2, <2>3, Zenon
  <2>5. ChoosesQuery' /\ RunsQuery'
    BY <2>1, <2>2, <2>3, Zenon
  <2> QED BY <2>4, <2>5, <1>3, Zenon
<1>9. CASE Query!ExtractOut
  BY <1>9, <1>1, <1>3, Zenon DEF Query!ExtractOut
<1>10. CASE Query!OptionsDone
  <2>1. /\ running = "options" /\ running' \in {"usage", "create"}
        /\ running' = "create" => rawQuery
        /\ UNCHANGED <<strings, rawQuery, owned, queryOptions>>
    BY <1>10 DEF Query!OptionsDone
  <2>2. QueryTypes'
    BY <1>1, <2>1, Zenon
  <2>3. ChoosesQuery' /\ RunsQuery'
    BY <2>1, Zenon
  <2> QED BY <1>3, <2>2, <2>3, Zenon
<1>11. CASE Query!CreateQuery
  BY <1>11, <1>1, <1>3, Zenon DEF Query!CreateQuery
<1>12. CASE Query!Out
  BY <1>12, <1>1, <1>3 DEF Query!Out
<1> QED BY <1>5, <1>6, <1>7, <1>8, <1>9, <1>10, <1>11, <1>12, Zenon

LEMMA ResultSteps ==
    ASSUME Query!BoundsAssumption, QueryInv,
           \/ Query!Update \/ (\E file \in Files : Query!Vanish(file)) \/ Query!Gathered \/ Query!DisableUpdates \/ Query!PrintResult
           \/ Query!EnableUpdates
    PROVE  QueryInv'
<1> USE DEF QueryInv
<1>1. /\ Query!Cardinality(results) = Cardinality(results) /\ Cardinality(results) \in Nat
      /\ Query!ListOf(results) \in [0 .. Cardinality(results) - 1 -> results]
      /\ {Query!ListOf(results)[k] : k \in 0 .. Cardinality(results) - 1} = results
  <2>1. IsFiniteSet(results)
    BY FilesAreFinite, FS_Subset, Zenon DEF QueryTypes
  <2> QED BY <2>1, ListHasAll
<1>2. CASE Query!Update
  <2>1. /\ running = "loop" /\ updating /\ results' \subseteq Files
        /\ UNCHANGED <<running, strings, rawQuery, owned, queryOptions, updating, gone, finished, shown, idx, total>>
    BY <1>2, Zenon DEF Query!Update, Query!loopVars, Gathers, QueryTypes
  <2> QED BY <2>1 DEF QueryTypes, ChoosesQuery, RunsQuery, Gathers
<1>7. CASE \E file \in Files : Query!Vanish(file)
  <2>1. PICK file \in Files : Query!Vanish(file)
    BY <1>7
  <2>2. /\ running \in {"loop", "callback"} /\ gone' = gone \cup {file}
        /\ UNCHANGED <<running, strings, rawQuery, owned, queryOptions, results, updating, updates,
                       finished, shown, idx, total>>
    BY <2>1, Zenon DEF Query!Vanish, Query!loopVars
  <2>3. QueryTypes' /\ ChoosesQuery' /\ RunsQuery'
    BY <2>2, Zenon DEF QueryTypes, ChoosesQuery, RunsQuery
  <2>4. Gathers'
    BY <2>2, Zenon DEF Gathers, Query!ListOf
  <2> QED BY <2>3, <2>4
<1>3. CASE Query!Gathered
  BY <1>3 DEF Query!Gathered, Query!queryVars, QueryTypes, ChoosesQuery, RunsQuery, Gathers
<1>4. CASE Query!DisableUpdates
  <2>1. /\ running = "loop" /\ finished = "sent" /\ running' = "callback" /\ updating' = FALSE
        /\ total' = Cardinality(results) /\ idx' = 0
        /\ UNCHANGED <<strings, rawQuery, owned, queryOptions, results, updates, gone, finished, shown>>
    BY <1>1, <1>4 DEF Query!DisableUpdates
  <2>2. QueryTypes'
    <3>1. total' \in Nat /\ idx' \in Nat /\ idx' <= total'
      BY <1>1, <2>1
    <3> QED BY <2>1, <3>1 DEF QueryTypes
  <2>3. ChoosesQuery' /\ RunsQuery'
    BY <2>1 DEF ChoosesQuery, RunsQuery
  <2>4. Gathers'
    <3>1. shown = {}
      BY <2>1 DEF Gathers
    <3>2. {Query!ListOf(results)[k] : k \in 0 .. idx' - 1} = {}
      BY <2>1
    <3> QED BY <2>1, <3>1, <3>2 DEF Gathers, Query!ListOf
  <2> QED BY <2>2, <2>3, <2>4
<1>5. CASE Query!PrintResult
  <2>1. /\ running = "callback" /\ idx < total /\ total = Cardinality(results)
        /\ UNCHANGED <<strings, rawQuery, owned, queryOptions, results, updating, updates, gone, finished, total>>
    BY <1>5 DEF Query!PrintResult, Query!queryVars, Gathers
  <2>a. idx < Cardinality(results)
    BY <2>1
  <2>b. CASE Query!ListOf(results)[idx] \in gone
    <3>1. running' = "crashed" /\ UNCHANGED <<shown, idx>>
      BY <1>1, <1>5, <2>a, <2>b, Zenon DEF Query!PrintResult
    <3>2. QueryTypes' /\ RunsQuery'
      BY <2>1, <3>1, Zenon DEF QueryTypes, RunsQuery
    <3>3. ChoosesQuery'
      <4>1. Query!ListOf(results)' = Query!ListOf(results)
        BY <2>1 DEF Query!ListOf
      <4>2. /\ Query!ListOf(results)'[idx'] = Query!ListOf(results)[idx]
            /\ Cardinality(results)' = Cardinality(results)
        BY <2>1, <3>1, <4>1
      <4> QED BY <2>1, <2>a, <2>b, <3>1, <4>2 DEF ChoosesQuery
    <3>4. Gathers'
      BY <2>1, <3>1, Zenon DEF Gathers
    <3> QED BY <3>2, <3>3, <3>4
  <2>c. CASE Query!ListOf(results)[idx] \notin gone
    <3>2. shown' = shown \cup {Query!ListOf(results)[idx]} /\ idx' = idx + 1 /\ running' = "callback"
      BY <1>1, <1>5, <2>1, <2>a, <2>c DEF Query!PrintResult
    <3>3. idx \in Nat /\ idx \in 0 .. Cardinality(results) - 1 /\ idx' <= total /\ idx' \in Nat
      BY <1>1, <2>1, <3>2 DEF QueryTypes
    <3>4. Query!ListOf(results)[idx] \in Files
      BY <1>1, <3>3, Zenon DEF QueryTypes
    <3>5. shown' = {Query!ListOf(results)[k] : k \in 0 .. idx' - 1}
      <4>1. 0 .. idx' - 1 = (0 .. idx - 1) \cup {idx}
        BY <3>2, <3>3
      <4>2. shown = {Query!ListOf(results)[k] : k \in 0 .. idx - 1}
        BY <2>1 DEF Gathers
      <4> QED BY <3>2, <4>1, <4>2
    <3>6. QueryTypes'
      BY <2>1, <3>2, <3>3, <3>4 DEF QueryTypes
    <3>7. ChoosesQuery' /\ RunsQuery'
      BY <2>1, <3>2 DEF ChoosesQuery, RunsQuery
    <3>8. Gathers'
      BY <2>1, <3>2, <3>5 DEF Gathers
    <3> QED BY <3>6, <3>7, <3>8
  <2> QED BY <2>b, <2>c
<1>6. CASE Query!EnableUpdates
  BY <1>6 DEF Query!EnableUpdates, QueryTypes, ChoosesQuery, RunsQuery, Gathers
<1> QED BY <1>2, <1>3, <1>4, <1>5, <1>6, <1>7

\* The query (11-28/lsmdquery.c), for any finite set of files, whatever it finds
\* of them and whenever they go: the results are gone through as they were
\* counted and each one is printed, the program ends in between only over a
\* folder without a query or a result that is gone, and what was created is
\* released by the end, but on a usage error.
THEOREM ResultsAreListed ==
    ASSUME Query!BoundsAssumption
    PROVE  Query!Spec => []Query!ListsResults
<1>1. Query!Init => QueryInv
  <2> SUFFICES ASSUME Query!Init PROVE QueryInv
    OBVIOUS
  <2>1. /\ running = "options" /\ strings = 0 /\ rawQuery = FALSE /\ owned = {}
        /\ queryOptions = 0 /\ results = {} /\ updating = TRUE /\ gone = {} /\ finished = "no"
        /\ shown = {} /\ idx = 0 /\ total = 0
    BY DEF Query!Init
  <2>2. MaxOptions \in Nat
    BY FilesAreFinite
  <2>3. queryOptions \in Nat /\ queryOptions <= MaxOptions /\ strings \in Nat /\ strings <= queryOptions
    BY ONLY <2>1, <2>2
  <2>4. QueryTypes
    BY <2>1, <2>3 DEF QueryTypes
  <2> QED BY <2>1, <2>4 DEF Query!Init, QueryInv, ChoosesQuery, RunsQuery, Gathers
<1>2. QueryInv /\ [Query!Next]_(Query!vars) => QueryInv'
  <2> SUFFICES ASSUME QueryInv, [Query!Next]_(Query!vars) PROVE QueryInv'
    OBVIOUS
  <2>1. CASE UNCHANGED Query!vars
    <3> USE <2>1 DEF Query!vars, Query!queryVars, Query!loopVars, QueryInv
    <3>1. QueryTypes' /\ RunsQuery'
      BY Zenon DEF QueryTypes, RunsQuery
    <3>3. ChoosesQuery'
      <4>1. UNCHANGED <<running, strings, rawQuery, owned, queryOptions, results, gone, idx>>
        OBVIOUS
      <4>2. ChoosesQuery
        OBVIOUS
      <4>3. /\ (Query!ListOf(results)[idx] \in gone)' <=> Query!ListOf(results)[idx] \in gone
            /\ Cardinality(results)' = Cardinality(results)
        BY ONLY <4>1 DEF Query!ListOf
      <4> QED BY ONLY <4>1, <4>2, <4>3, Zenon DEF ChoosesQuery
    <3>2. Gathers'
      BY DEF Gathers
    <3> QED BY <3>1, <3>2, <3>3
  <2> QED BY <2>1, OptionSteps, ResultSteps DEF Query!Next
<1>3. QueryInv => Query!ListsResults
  <2> SUFFICES ASSUME QueryInv PROVE Query!ListsResults
    OBVIOUS
  <2>1. IsFiniteSet(results)
    BY FilesAreFinite, FS_Subset, Zenon DEF QueryInv, QueryTypes
  <2>2. running = "callback" => total = Query!Cardinality(results)
    BY <2>1, ListHasAll DEF QueryInv, Gathers
  <2>3. running = "callback" /\ idx = total => shown = results
    BY <2>1, ListHasAll DEF QueryInv, Gathers
  <2>4. Query!TypeOK
    <3>1. QueryTypes /\ MaxOptions \in Nat
      BY FilesAreFinite DEF QueryInv
    <3>2. /\ strings \in Nat /\ queryOptions \in Nat /\ strings <= queryOptions
          /\ queryOptions <= MaxOptions /\ MaxOptions \in Nat
      BY <3>1, Zenon DEF QueryTypes
    <3>3. strings \in 0 .. MaxOptions
      BY ONLY <3>2
    <3>4. idx \in Nat /\ total \in Nat /\ idx <= total
      BY <3>1, Zenon DEF QueryTypes
    <3>5. idx \in 0 .. total
      BY ONLY <3>4
    <3> QED BY <3>1, <3>3, <3>5, Zenon DEF QueryTypes, Query!TypeOK
  <2>5. /\ running \in {"options", "usage", "create", "exit"} => owned = {}
        /\ ~updating => running \in {"callback", "crashed"}
        /\ running = "callback" => ~updating
    BY Zenon DEF QueryInv, ChoosesQuery, RunsQuery, Gathers
  <2>8. running = "crashed" /\ "pList" \notin owned =>
           idx < Query!Cardinality(results) /\ Query!ListOf(results)[idx] \in gone
    <3>1. Query!Cardinality(results) = Cardinality(results)
      BY <2>1, ListHasAll
    <3> QED BY <3>1 DEF QueryInv, ChoosesQuery
  <2>6. running \in {"create", "loop", "callback"} => strings \in 1 .. queryOptions
    <3>1. strings \in Nat /\ queryOptions \in Nat /\ strings <= queryOptions
      BY Zenon DEF QueryInv, QueryTypes
    <3>2. running \in {"create", "loop", "callback"} => strings >= 1
      BY DEF QueryInv, RunsQuery
    <3>3. strings >= 1 => strings \in 1 .. queryOptions
      BY ONLY <3>1
    <3> QED BY <3>2, <3>3
  <2>7. /\ running = "usage" => strings <= queryOptions
        /\ running = "exit" => strings <= queryOptions - 1
    BY Zenon DEF QueryInv, QueryTypes, RunsQuery
  <2> QED BY <2>2, <2>3, <2>4, <2>5, <2>6, <2>7, <2>8 DEF Query!ListsResults
<1> QED BY <1>1, <1>2, <1>3, PTL DEF Query!Spec

-----------------------------------------------------------------------------
(* The list of tasks (7-21/lstasks.c).  The numbers of the summary are those *)
(* of sets of tasks: the ones that have been counted so far, as a task, as a *)
(* Carbon process, with their threads.  The current task joins one set after *)
(* the other.                                                                *)
Busy == {"carbon", "name", "info", "threads", "each"}
Early == {"options", "snapshot"}

Passed  == {t \in {task_list[k] : k \in 1 .. i} : Tasks!Counted(t)}
With(places) == IF place \in places THEN Passed \cup {Tasks!Current} ELSE Passed
Tasked  == With(Busy)
Sought  == With(Busy \ {"carbon"})
Threaded == With({"each"})

TaskTypes ==
    /\ alive \subseteq AllTasks /\ threads \in [AllTasks -> 0 .. MaxThreads]
    /\ \A t \in AllTasks \ alive : threads[t] = 0
    /\ place \in Early \cup Busy \cup {"task", "exit"}
    /\ options \in [summary : BOOLEAN, verbose : BOOLEAN, onetask : SUBSET TaskProcesses]
    /\ task_list \in Seq(AllTasks) /\ i \in 0 .. Len(task_list)
    /\ thread_list \in 0 .. MaxThreads
    /\ stat \in [task : Nat, proc : Nat, cpm : Nat, thread : Nat]
    /\ buffers \in Nat /\ nameRef \in {"unset", "released", "reused"} /\ died \in BOOLEAN

Walk ==
    /\ \A k, m \in 1 .. Len(task_list) : task_list[k] = task_list[m] => k = m
    /\ ~died => \A k \in 1 .. Len(task_list) : task_list[k] \in alive
    /\ place \in Early =>
          /\ Len(task_list) = 0 /\ buffers = 0 /\ nameRef = "unset"
          /\ stat.task = 0 /\ stat.proc = 0 /\ stat.cpm = 0 /\ stat.thread = 0
    /\ place = "options" => ~died
    /\ place \in Busy => i < Len(task_list) /\ Tasks!Counted(Tasks!Current)
    /\ place \in {"name", "each"} => options.verbose
    /\ place = "exit" => i = Len(task_list)
    /\ nameRef = "reused" => died
    /\ place \in Busy \cup {"task"} => buffers >= 1
    /\ options.verbose => buffers = IF place \in Early \cup {"exit"} THEN 0 ELSE IF place = "each" THEN 2 ELSE 1
Sums ==
    /\ stat.task = Cardinality(Tasked)
    /\ Cardinality(Tasked \cap (TaskProcesses \cap alive)) <= stat.proc
    /\ stat.proc <= Cardinality(Tasked \cap TaskProcesses)
    /\ Cardinality(Sought \cap (CarbonProcesses \cap alive)) <= stat.cpm
    /\ stat.cpm + (IF place = "carbon" THEN 1 ELSE 0) <= stat.proc /\ stat.proc <= stat.task
    /\ Cardinality(Tasks!ThreadsOf(Threaded)) <= stat.thread
    /\ stat.thread <= Cardinality(Threaded) * MaxThreads
    /\ buffers <= Cardinality(Threaded) + 1

TasksInv == TaskTypes /\ Walk /\ Sums
-----------------------------------------------------------------------------
LEMMA FiniteTasks ==
    ASSUME Tasks!TasksAssumption
    PROVE  /\ IsFiniteSet(AllTasks) /\ MaxThreads \in Nat /\ Self \in AllTasks
           /\ CarbonProcesses \subseteq TaskProcesses /\ TaskProcesses \subseteq AllTasks
<1>1. IsFiniteSet(AllTasks)
  BY Zenon DEF Tasks!TasksAssumption, Tasks!IsFiniteSet, IsFiniteSet
<1> QED BY <1>1 DEF Tasks!TasksAssumption

(* What processor_set_tasks() returns: every task once.                     *)
LEMMA SnapshotOnce ==
    ASSUME NEW S, IsFiniteSet(S)
    PROVE  /\ \E f : f \in Tasks!Injection(1 .. Tasks!Cardinality(S), S)
           /\ \A s \in Tasks!Injection(1 .. Tasks!Cardinality(S), S) :
                 s \in Seq(S) /\ \A k, m \in 1 .. Len(s) : s[k] = s[m] => k = m
<1>1. Tasks!Cardinality(S) = Cardinality(S) /\ Cardinality(S) \in Nat
  BY FS_CardinalityType, Zenon DEF Tasks!Cardinality, Cardinality
<1>2. \E f : f \in Tasks!Injection(1 .. Cardinality(S), S)
  <2>1. PICK f : f \in Bijection(1 .. Cardinality(S), S)
    BY FS_CardinalityType, Zenon DEF ExistsBijection
  <2>2. f \in [1 .. Cardinality(S) -> S] /\ \A k, m \in DOMAIN f : f[k] = f[m] => k = m
    BY <2>1 DEF Bijection, Injection, IsInjective
  <2>3. Tasks!IsInjective(f)
    BY <2>2 DEF Tasks!IsInjective
  <2> QED BY <2>2, <2>3 DEF Tasks!Injection
<1>3. ASSUME NEW s \in Tasks!Injection(1 .. Cardinality(S), S)
      PROVE  s \in Seq(S) /\ \A k, m \in 1 .. Len(s) : s[k] = s[m] => k = m
  <2>1. s \in [1 .. Cardinality(S) -> S] /\ Tasks!IsInjective(s)
    BY <1>3, Zenon DEF Tasks!Injection
  <2>2. s \in Seq(S) /\ DOMAIN s = 1 .. Len(s)
    BY <1>1, <2>1
  <2> QED BY <2>1, <2>2 DEF Tasks!IsInjective
<1> QED BY <1>1, <1>2, <1>3, Zenon

(* Sets that one more task joins.                                           *)
LEMMA OneJoins ==
    ASSUME NEW S, IsFiniteSet(S), NEW c, c \notin S, NEW Q
    PROVE  /\ IsFiniteSet(S \cup {c}) /\ Cardinality(S \cup {c}) = Cardinality(S) + 1
           /\ Cardinality(S \cap Q) \in Nat
           /\ Cardinality((S \cup {c}) \cap Q) = Cardinality(S \cap Q) + IF c \in Q THEN 1 ELSE 0
<1>1. IsFiniteSet(S \cup {c}) /\ Cardinality(S \cup {c}) = Cardinality(S) + 1
  BY FS_AddElement
<1>2. IsFiniteSet(S \cap Q) /\ c \notin S \cap Q
  BY FS_Subset
<1>3. Cardinality(S \cap Q) \in Nat
  BY <1>2, FS_CardinalityType
<1>4. CASE c \in Q
  <2>1. (S \cup {c}) \cap Q = (S \cap Q) \cup {c}
    BY <1>4
  <2>2. Cardinality((S \cap Q) \cup {c}) = Cardinality(S \cap Q) + 1
    BY <1>2, FS_AddElement
  <2> QED BY <1>1, <1>3, <1>4, <2>1, <2>2
<1>5. CASE c \notin Q
  <2>1. (S \cup {c}) \cap Q = S \cap Q
    BY <1>5
  <2>2. Cardinality((S \cup {c}) \cap Q) = Cardinality(S \cap Q)
    BY <2>1, Zenon
  <2>3. \A m \in Nat : m = m + 0
    OBVIOUS
  <2>4. Cardinality(S \cap Q) = Cardinality(S \cap Q) + 0
    BY <1>3, <2>3, Zenon
  <2> QED BY <1>1, <1>3, <1>5, <2>2, <2>4, Zenon
<1> QED BY <1>4, <1>5

LEMMA JoinsPart ==
    ASSUME NEW S, IsFiniteSet(S), NEW c, c \notin S
    PROVE  \A Q : /\ Cardinality(S \cap Q) \in Nat
                  /\ Cardinality((S \cup {c}) \cap Q) = Cardinality(S \cap Q) + IF c \in Q THEN 1 ELSE 0
<1> TAKE Q
<1>1. Cardinality(S \cap Q) \in Nat
  BY OneJoins
<1>2. c \in Q => Cardinality((S \cup {c}) \cap Q) = Cardinality(S \cap Q) + 1
  BY OneJoins
<1>3. c \notin Q => Cardinality((S \cup {c}) \cap Q) = Cardinality(S \cap Q) + 0
  <2>1. c \notin Q => (S \cup {c}) \cap Q = S \cap Q
    OBVIOUS
  <2>2. \A m \in Nat : m = m + 0
    OBVIOUS
  <2>3. Cardinality(S \cap Q) = Cardinality(S \cap Q) + 0
    BY <1>1, <2>2, Zenon
  <2> QED BY <2>1, <2>3, Zenon
<1> QED BY <1>1, <1>2, <1>3, Zenon

LEMMA Smaller ==
    ASSUME NEW T, IsFiniteSet(T), NEW S, S \subseteq T
    PROVE  /\ IsFiniteSet(S) /\ Cardinality(S) \in Nat /\ Cardinality(T) \in Nat
           /\ Cardinality(S) <= Cardinality(T)
BY FS_Subset, FS_CardinalityType

(* The threads of some tasks, and of one more.                              *)
LEMMA ThreadsFinite ==
    ASSUME MaxThreads \in Nat, NEW S, IsFiniteSet(S)
    PROVE  IsFiniteSet(Tasks!ThreadsOf(S)) /\ Cardinality(Tasks!ThreadsOf(S)) \in Nat
<1>0. IsFiniteSet(1 .. MaxThreads)
  <2> 1 \in Int /\ MaxThreads \in Int
    OBVIOUS
  <2> QED BY FS_Interval
<1>1. IsFiniteSet(S \X (1 .. MaxThreads))
  BY <1>0, FS_Product
<1>2. Tasks!ThreadsOf(S) \subseteq S \X (1 .. MaxThreads)
  BY DEF Tasks!ThreadsOf
<1> QED BY <1>1, <1>2, Smaller

LEMMA ThreadsJoin ==
    ASSUME MaxThreads \in Nat, NEW S, IsFiniteSet(S), NEW c, threads[c] \in 0 .. MaxThreads
    PROVE  Cardinality(Tasks!ThreadsOf(S \cup {c})) <= Cardinality(Tasks!ThreadsOf(S)) + threads[c]
<1> DEFINE its == {c} \X (1 .. threads[c])
<1>1. IsFiniteSet(its) /\ Cardinality(its) = threads[c]
  <2>1. IsFiniteSet(1 .. threads[c]) /\ Cardinality(1 .. threads[c]) = threads[c]
    <3>1. 1 \in Int /\ threads[c] \in Int /\ threads[c] >= 0
      OBVIOUS
    <3>2. /\ IsFiniteSet(1 .. threads[c])
          /\ Cardinality(1 .. threads[c]) = IF 1 > threads[c] THEN 0 ELSE threads[c] - 1 + 1
      BY <3>1, FS_Interval
    <3> QED BY <3>1, <3>2
  <2>2. IsFiniteSet({c}) /\ Cardinality({c}) = 1
    BY FS_Singleton
  <2>3. IsFiniteSet(its) /\ Cardinality(its) = Cardinality({c}) * Cardinality(1 .. threads[c])
    BY <2>1, <2>2, FS_Product
  <2> QED BY <2>1, <2>2, <2>3
<1>2. Tasks!ThreadsOf(S \cup {c}) \subseteq Tasks!ThreadsOf(S) \cup its
  <2>1. ASSUME NEW n \in Tasks!ThreadsOf(S \cup {c}) PROVE n \in Tasks!ThreadsOf(S) \cup its
    <3>1. n \in (S \cup {c}) \X (1 .. MaxThreads) /\ n[2] <= threads[n[1]]
      BY <2>1 DEF Tasks!ThreadsOf
    <3>2. n = <<n[1], n[2]>> /\ n[1] \in S \cup {c} /\ n[2] \in 1 .. MaxThreads
      BY <3>1
    <3>3. CASE n[1] \in S
      <4>1. n \in S \X (1 .. MaxThreads)
        BY <3>2, <3>3
      <4> QED BY <3>1, <4>1 DEF Tasks!ThreadsOf
    <3>4. CASE n[1] = c
      <4>1. n[2] \in 1 .. threads[c]
        BY <3>1, <3>2, <3>4
      <4> QED BY <3>2, <3>4, <4>1
    <3> QED BY <3>2, <3>3, <3>4
  <2> QED BY <2>1
<1>3. IsFiniteSet(Tasks!ThreadsOf(S)) /\ Cardinality(Tasks!ThreadsOf(S)) \in Nat
  BY ThreadsFinite
<1>4. /\ IsFiniteSet(Tasks!ThreadsOf(S) \cup its)
      /\ Cardinality(Tasks!ThreadsOf(S) \cup its) <= Cardinality(Tasks!ThreadsOf(S)) + threads[c]
  <2>1. /\ IsFiniteSet(Tasks!ThreadsOf(S) \cup its)
        /\ Cardinality(Tasks!ThreadsOf(S) \cup its)
              = Cardinality(Tasks!ThreadsOf(S)) + Cardinality(its)
                  - Cardinality(Tasks!ThreadsOf(S) \cap its)
    BY <1>1, <1>3, FS_Union
  <2>2. Cardinality(Tasks!ThreadsOf(S) \cap its) \in Nat
    BY <1>1, FS_Intersection, FS_CardinalityType
  <2> QED BY <1>1, <1>3, <2>1, <2>2
<1>5. /\ Cardinality(Tasks!ThreadsOf(S \cup {c})) \in Nat
      /\ Cardinality(Tasks!ThreadsOf(S) \cup its) \in Nat
      /\ Cardinality(Tasks!ThreadsOf(S \cup {c})) <= Cardinality(Tasks!ThreadsOf(S) \cup its)
  BY <1>2, <1>4, Smaller
<1> QED BY <1>3, <1>4, <1>5
-----------------------------------------------------------------------------
(* What goes on in the machine, and what main() does before the walk.       *)
LEMMA MachineSteps ==
    ASSUME Tasks!TasksAssumption, TaskTypes, Walk,
           \E t \in AllTasks : Tasks!TaskEnds(t) \/ Tasks!ThreadEnds(t)
    PROVE  TaskTypes' /\ Walk'
<1> USE FiniteTasks DEF TaskTypes, Walk, Early, Busy
<1>0. PICK t \in AllTasks : Tasks!TaskEnds(t) \/ Tasks!ThreadEnds(t)
  OBVIOUS
<1>1. CASE Tasks!TaskEnds(t)
  <2> USE <1>1 DEF Tasks!TaskEnds
  <2>1. TaskTypes'
    OBVIOUS
  <2>2. ~died' => place = "options" /\ ~died
    BY Zenon
  <2>3. place = "options" => Len(task_list) = 0 /\ ~died'
    BY Zenon
  <2>4. died => died'
    BY Zenon
  <2> HIDE <1>1 DEF Tasks!TaskEnds
  <2>5. UNCHANGED <<place, options, task_list, i, thread_list, stat, buffers, nameRef>>
    BY <1>1 DEF Tasks!TaskEnds
  <2>6. Walk'
    BY <2>2, <2>3, <2>4, <2>5 DEF Tasks!Counted, Tasks!Current
  <2> QED BY <2>1, <2>6
<1>2. CASE Tasks!ThreadEnds(t)
  <2> USE <1>2 DEF Tasks!ThreadEnds
  <2>1. TaskTypes'
    OBVIOUS
  <2>2. Walk'
    BY DEF Tasks!Counted, Tasks!Current
  <2> QED BY <2>1, <2>2
<1> QED BY <1>0, <1>1, <1>2

LEMMA WalkBegins ==
    ASSUME Tasks!TasksAssumption, TaskTypes, Walk, Tasks!Options \/ Tasks!Snapshot
    PROVE  TaskTypes' /\ Walk'
<1> USE FiniteTasks DEF TaskTypes, Walk, Early, Busy
<1>1. CASE Tasks!Options
  BY <1>1 DEF Tasks!Options, Tasks!kernel
<1>2. CASE Tasks!Snapshot /\ place' = "exit"
  BY <1>2 DEF Tasks!Snapshot, Tasks!kernel
<1>3. CASE Tasks!Snapshot /\ place' = "task"
  <2>1. /\ place = "snapshot" /\ buffers' = buffers + 1
        /\ task_list' = CHOOSE s \in Tasks!Injection(1 .. Tasks!Cardinality(alive), alive) : TRUE
        /\ UNCHANGED <<alive, threads, died, options, i, thread_list, stat, nameRef>>
    BY <1>3 DEF Tasks!Snapshot, Tasks!kernel
  <2>2. IsFiniteSet(alive)
    BY FS_Subset
  <2>3. /\ task_list' \in Seq(alive)
        /\ \A k, m \in 1 .. Len(task_list') : task_list'[k] = task_list'[m] => k = m
    <3>1. task_list' \in Tasks!Injection(1 .. Tasks!Cardinality(alive), alive)
      BY <2>1, <2>2, SnapshotOnce, Zenon
    <3> QED BY <2>2, <3>1, SnapshotOnce
  <2>4. task_list' \in Seq(AllTasks) /\ \A k \in 1 .. Len(task_list') : task_list'[k] \in alive
    BY <2>3
  <2>5. i = 0
    BY <2>1
  <2>6. TaskTypes'
    BY <1>3, <2>1, <2>4, <2>5
  <2>7. Walk'
    BY <1>3, <2>1, <2>3, <2>4
  <2> QED BY <2>6, <2>7
<1> QED BY <1>1, <1>2, <1>3 DEF Tasks!Snapshot

(* What a task adds to the summary.                                         *)
Stats == [task : Nat, proc : Nat, cpm : Nat, thread : Nat]
Adds(t, p, c, n) ==
    /\ stat' \in Stats
    /\ stat'.task = stat.task + t /\ stat'.proc = stat.proc + p
    /\ stat'.cpm = stat.cpm + c /\ stat'.thread = stat.thread + n

LEMMA VisitAdds ==
    ASSUME TaskTypes, Tasks!VisitTask
    PROVE  Adds(1, IF Tasks!Current \in TaskProcesses \cap alive THEN 1 ELSE 0, 0, 0)
<1>1. stat \in Stats
  BY DEF TaskTypes, Stats
<1>2. CASE Tasks!Current \in TaskProcesses \cap alive
  <2>1. stat' = [stat EXCEPT !.task = @ + 1, !.proc = @ + 1]
    BY <1>2 DEF Tasks!VisitTask
  <2>2. stat' \in Stats
    <3>1. \A s \in Stats : \A n \in Nat : [s EXCEPT !.task = n] \in Stats /\ [s EXCEPT !.proc = n] \in Stats
      BY ONLY DEF Stats
    <3>2. stat.task + 1 \in Nat /\ stat.proc + 1 \in Nat
      BY ONLY <1>1 DEF Stats
    <3>3. stat' = [[stat EXCEPT !.task = stat.task + 1] EXCEPT !.proc = stat.proc + 1]
      BY ONLY <1>1, <2>1 DEF Stats
    <3> QED BY ONLY <1>1, <3>1, <3>2, <3>3
  <2>3. /\ stat'.task = stat.task + 1 /\ stat'.proc = stat.proc + 1
        /\ stat'.cpm = stat.cpm /\ stat'.thread = stat.thread
    BY ONLY <1>1, <2>1 DEF Stats
  <2>4. Adds(1, 1, 0, 0)
    BY ONLY <1>1, <2>2, <2>3 DEF Adds, Stats
  <2> QED BY <1>2, <2>4
<1>3. CASE Tasks!Current \notin TaskProcesses \cap alive
  <2>1. stat' = [stat EXCEPT !.task = @ + 1, !.proc = @]
    BY <1>3 DEF Tasks!VisitTask
  <2>2. stat' \in Stats
    <3>1. \A s \in Stats : \A n \in Nat : [s EXCEPT !.task = n] \in Stats /\ [s EXCEPT !.proc = n] \in Stats
      BY ONLY DEF Stats
    <3>2. stat.task + 1 \in Nat /\ stat.proc \in Nat
      BY ONLY <1>1 DEF Stats
    <3>3. stat' = [[stat EXCEPT !.task = stat.task + 1] EXCEPT !.proc = stat.proc]
      BY ONLY <1>1, <2>1 DEF Stats
    <3> QED BY ONLY <1>1, <3>1, <3>2, <3>3
  <2>3. /\ stat'.task = stat.task + 1 /\ stat'.proc = stat.proc
        /\ stat'.cpm = stat.cpm /\ stat'.thread = stat.thread
    BY ONLY <1>1, <2>1 DEF Stats
  <2>4. Adds(1, 0, 0, 0)
    BY ONLY <1>1, <2>2, <2>3 DEF Adds, Stats
  <2> QED BY <1>3, <2>4
<1> QED BY <1>2, <1>3

LEMMA GetAdds ==
    ASSUME TaskTypes, Tasks!GetProcess
    PROVE  Adds(0, 0, IF Tasks!Current \in CarbonProcesses \cap alive THEN 1 ELSE 0, 0)
<1>1. stat \in Stats
  BY DEF TaskTypes, Stats
<1>2. CASE Tasks!Current \in CarbonProcesses \cap alive
  <2>1. stat' = [stat EXCEPT !.cpm = @ + 1]
    BY <1>2 DEF Tasks!GetProcess
  <2>2. Adds(0, 0, 1, 0)
    BY ONLY <1>1, <2>1 DEF Adds, Stats
  <2> QED BY <1>2, <2>2
<1>3. CASE Tasks!Current \notin CarbonProcesses \cap alive
  <2>1. stat' = [stat EXCEPT !.cpm = @]
    BY <1>3 DEF Tasks!GetProcess
  <2>2. Adds(0, 0, 0, 0)
    BY ONLY <1>1, <2>1 DEF Adds, Stats
  <2> QED BY <1>3, <2>2
<1> QED BY <1>2, <1>3

LEMMA ThreadsAdd ==
    ASSUME TaskTypes, Tasks!TaskThreads, Tasks!Current \in alive
    PROVE  threads[Tasks!Current] \in 0 .. MaxThreads /\ Adds(0, 0, 0, threads[Tasks!Current])
<1>1. stat \in Stats
  BY DEF TaskTypes, Stats
<1>2. threads[Tasks!Current] \in 0 .. MaxThreads
  BY DEF TaskTypes
<1>3. stat' = [stat EXCEPT !.thread = @ + threads[Tasks!Current]]
  BY DEF Tasks!TaskThreads
<1>4. \A n \in Nat : stat' = [stat EXCEPT !.thread = @ + n] => Adds(0, 0, 0, n)
  BY ONLY <1>1 DEF Adds, Stats
<1>5. threads[Tasks!Current] \in Nat
  BY <1>2
<1> QED BY <1>2, <1>3, <1>4, <1>5

(* The walk.                                                                *)
LEMMA WalkSteps ==
    ASSUME Tasks!TasksAssumption, TaskTypes, Walk,
           \/ Tasks!SkipTask \/ Tasks!VisitTask \/ Tasks!GetProcess \/ Tasks!CopyName
           \/ Tasks!TaskInfo \/ Tasks!TaskThreads \/ Tasks!ThreadInfo \/ Tasks!ThreadsDone
           \/ Tasks!Summary
    PROVE  TaskTypes' /\ Walk'
<1>0. Tasks!TaskThreads /\ Tasks!Current \in alive =>
         stat' \in [task : Nat, proc : Nat, cpm : Nat, thread : Nat]
  BY ThreadsAdd DEF Adds, Stats
<1> USE FiniteTasks DEF TaskTypes, Walk, Early, Busy, Tasks!kernel
<1>1. CASE Tasks!SkipTask
  BY <1>1 DEF Tasks!SkipTask, Tasks!Counted, Tasks!Current
<1>2. CASE Tasks!VisitTask
  <2>1. /\ place = "task" /\ i < Len(task_list) /\ Tasks!Counted(Tasks!Current)
        /\ place' \in {"carbon", "info", "threads"} /\ (place' = "info" => options.verbose)
        /\ UNCHANGED <<alive, threads, died, options, task_list, i, thread_list, buffers, nameRef>>
    BY <1>2 DEF Tasks!VisitTask
  <2>2. stat' \in [task : Nat, proc : Nat, cpm : Nat, thread : Nat]
    BY <1>2, VisitAdds DEF Adds, Stats
  <2> QED BY <2>1, <2>2 DEF Tasks!Counted, Tasks!Current
<1>3. CASE Tasks!GetProcess
  <2>1. /\ place = "carbon" /\ place' \in {"name", "info", "threads"}
        /\ (place' = "name" => options.verbose)
        /\ UNCHANGED <<alive, threads, died, options, task_list, i, thread_list, buffers, nameRef>>
    BY <1>3 DEF Tasks!GetProcess
  <2>2. stat' \in [task : Nat, proc : Nat, cpm : Nat, thread : Nat]
    BY <1>3, GetAdds DEF Adds, Stats
  <2> QED BY <2>1, <2>2 DEF Tasks!Counted, Tasks!Current
<1>4. CASE Tasks!CopyName
  BY <1>4 DEF Tasks!CopyName, Tasks!Counted, Tasks!Current
<1>5. CASE Tasks!TaskInfo
  <2>1. CASE place' = "threads" /\ i' = i
    <3>1. /\ place = "info"
          /\ UNCHANGED <<alive, threads, died, options, task_list, i, thread_list, stat, buffers, nameRef>>
      BY <1>5, <2>1 DEF Tasks!TaskInfo
    <3> QED BY <2>1, <3>1 DEF Tasks!Counted, Tasks!Current
  <2>2. CASE place' = "task" /\ i' = i + 1
    <3>1. /\ place = "info" /\ i < Len(task_list)
          /\ UNCHANGED <<alive, threads, died, options, task_list, thread_list, stat, buffers, nameRef>>
      BY <1>5, <2>2 DEF Tasks!TaskInfo
    <3> QED BY <2>2, <3>1
  <2> QED BY <1>5, <2>1, <2>2 DEF Tasks!TaskInfo, Tasks!NextTask
<1>6. CASE Tasks!TaskThreads
  <2>1. CASE Tasks!Current \notin alive
    BY <1>6, <2>1 DEF Tasks!TaskThreads, Tasks!NextTask
  <2>2. CASE Tasks!Current \in alive
    <3>1. /\ place = "threads" /\ i < Len(task_list) /\ buffers' = buffers + 1
          /\ UNCHANGED <<alive, threads, died, options, task_list, nameRef>>
          /\ \/ options.verbose /\ place' = "each" /\ i' = i /\ thread_list' = threads[Tasks!Current]
             \/ ~options.verbose /\ place' = "task" /\ i' = i + 1 /\ thread_list' = thread_list
      BY <1>6, <2>2 DEF Tasks!TaskThreads, Tasks!NextTask
    <3>2. threads[Tasks!Current] \in 0 .. MaxThreads
      BY <2>2
    <3>3. stat' \in [task : Nat, proc : Nat, cpm : Nat, thread : Nat]
      BY <1>0, <1>6, <2>2
    <3>4. i' \in 0 .. Len(task_list) /\ thread_list' \in 0 .. MaxThreads /\ buffers' \in Nat
      BY <3>1, <3>2
    <3>5. TaskTypes'
      BY <3>1, <3>3, <3>4
    <3>6. CASE options.verbose /\ place' = "each" /\ i' = i
      <4>1. Tasks!Counted(Tasks!Current)' <=> Tasks!Counted(Tasks!Current)
        BY <3>1, <3>6 DEF Tasks!Counted, Tasks!Current
      <4>2. buffers' = 2
        BY <3>1, <3>6
      <4>3. Walk'
        BY <3>1, <3>6, <4>1, <4>2
      <4> QED BY <3>5, <4>3
    <3>7. CASE ~options.verbose /\ place' = "task" /\ i' = i + 1
      <4>1. Walk'
        BY <3>1, <3>7
      <4> QED BY <3>5, <4>1
    <3> QED BY <3>1, <3>6, <3>7
  <2> QED BY <2>1, <2>2
<1>7. CASE Tasks!ThreadInfo
  BY <1>7 DEF Tasks!ThreadInfo, Tasks!Counted, Tasks!Current
<1>8. CASE Tasks!ThreadsDone
  BY <1>8 DEF Tasks!ThreadsDone, Tasks!NextTask
<1>9. CASE Tasks!Summary
  BY <1>9 DEF Tasks!Summary
<1> QED BY <1>1, <1>2, <1>3, <1>4, <1>5, <1>6, <1>7, <1>8, <1>9
-----------------------------------------------------------------------------
(* How the sets grow.                                                       *)
LEMMA SetsAreFinite ==
    ASSUME Tasks!TasksAssumption, TaskTypes, Walk
    PROVE  /\ Passed \subseteq AllTasks \ {Self}
           /\ place \in Busy => Tasks!Current \in AllTasks \ {Self} /\ Tasks!Current \notin Passed
           /\ Tasked \subseteq AllTasks \ {Self} /\ IsFiniteSet(Tasked)
           /\ Sought \subseteq Tasked /\ IsFiniteSet(Sought)
           /\ Threaded \subseteq Tasked /\ IsFiniteSet(Threaded)
<1>1. Passed \subseteq AllTasks \ {Self}
  <2>1. \A k \in 1 .. i : task_list[k] \in AllTasks
    BY DEF TaskTypes
  <2> QED BY <2>1 DEF Passed, Tasks!Counted
<1>2. ASSUME place \in Busy
      PROVE  Tasks!Current \in AllTasks \ {Self} /\ Tasks!Current \notin Passed
  <2>1. i + 1 \in 1 .. Len(task_list) /\ Tasks!Counted(Tasks!Current)
    BY <1>2 DEF TaskTypes, Walk
  <2>2. Tasks!Current \in AllTasks \ {Self}
    BY <2>1 DEF TaskTypes, Tasks!Counted, Tasks!Current
  <2>3. \A k \in 1 .. i : task_list[k] # task_list[i + 1]
    BY <2>1 DEF TaskTypes, Walk
  <2> QED BY <2>2, <2>3 DEF Passed, Tasks!Current
<1>3. Tasked \subseteq AllTasks \ {Self} /\ Sought \subseteq Tasked /\ Threaded \subseteq Tasked
  BY <1>1, <1>2 DEF Tasked, Sought, Threaded, With, Busy
<1>4. IsFiniteSet(AllTasks)
  BY FiniteTasks
<1>5. IsFiniteSet(Tasked)
  <2> Tasked \subseteq AllTasks
    BY <1>3
  <2> QED BY <1>4, FS_Subset
<1>6. IsFiniteSet(Sought) /\ IsFiniteSet(Threaded)
  BY <1>3, <1>5, FS_Subset
<1> QED BY <1>1, <1>2, <1>3, <1>5, <1>6

LEMMA SameWalk ==
    ASSUME UNCHANGED <<options, task_list, i>>
    PROVE  Passed' = Passed /\ Tasks!Current' = Tasks!Current
BY DEF Passed, Tasks!Counted, Tasks!Current

LEMMA OneFurther ==
    ASSUME TaskTypes, UNCHANGED <<options, task_list>>, i' = i + 1
    PROVE  Passed' = IF Tasks!Counted(Tasks!Current) THEN Passed \cup {Tasks!Current} ELSE Passed
<1>1. \A k : k \in 1 .. i' <=> k \in 1 .. i \/ k = i + 1
  BY DEF TaskTypes
<1>2. {task_list'[k] : k \in 1 .. i'} = {task_list[k] : k \in 1 .. i} \cup {task_list[i + 1]}
  BY <1>1
<1>3. \A t : Tasks!Counted(t)' <=> Tasks!Counted(t)
  BY DEF Tasks!Counted
<1>4. Passed' = {t \in {task_list[k] : k \in 1 .. i} \cup {task_list[i + 1]} : Tasks!Counted(t)}
  BY <1>2, <1>3 DEF Passed
<1> QED BY <1>4 DEF Passed, Tasks!Current

(* Tasks and threads end, main() does something else: the sums stay right.  *)
LEMMA TaskSumsKept ==
    ASSUME Tasks!TasksAssumption, TasksInv, TaskTypes',
           Tasked' = Tasked, Sought' = Sought, Threaded' = Threaded, stat' = stat,
           alive' \subseteq alive, \A t \in AllTasks : threads'[t] <= threads[t],
           place' = "carbon" => place = "carbon",
           buffers' <= Cardinality(Threaded) + 1
    PROVE  Sums'
<1> USE DEF TasksInv
<1>1. IsFiniteSet(Tasked) /\ IsFiniteSet(Sought) /\ IsFiniteSet(Threaded) /\ Threaded \subseteq AllTasks
  BY SetsAreFinite
<1>2. /\ Cardinality(Tasked \cap (TaskProcesses \cap alive')) \in Nat
      /\ Cardinality(Tasked \cap (TaskProcesses \cap alive)) \in Nat
      /\ Cardinality(Tasked \cap (TaskProcesses \cap alive'))
            <= Cardinality(Tasked \cap (TaskProcesses \cap alive))
  <2>1. IsFiniteSet(Tasked \cap (TaskProcesses \cap alive))
    BY <1>1, FS_Subset
  <2>2. Tasked \cap (TaskProcesses \cap alive') \subseteq Tasked \cap (TaskProcesses \cap alive)
    OBVIOUS
  <2> QED BY <2>1, <2>2, Smaller
<1>3. /\ Cardinality(Sought \cap (CarbonProcesses \cap alive')) \in Nat
      /\ Cardinality(Sought \cap (CarbonProcesses \cap alive)) \in Nat
      /\ Cardinality(Sought \cap (CarbonProcesses \cap alive'))
            <= Cardinality(Sought \cap (CarbonProcesses \cap alive))
  <2>1. IsFiniteSet(Sought \cap (CarbonProcesses \cap alive))
    BY <1>1, FS_Subset
  <2>2. Sought \cap (CarbonProcesses \cap alive') \subseteq Sought \cap (CarbonProcesses \cap alive)
    OBVIOUS
  <2> QED BY <2>1, <2>2, Smaller
<1>4. /\ Cardinality(Tasks!ThreadsOf(Threaded)') \in Nat /\ Cardinality(Tasks!ThreadsOf(Threaded)) \in Nat
      /\ Cardinality(Tasks!ThreadsOf(Threaded)') <= Cardinality(Tasks!ThreadsOf(Threaded))
  <2>1. IsFiniteSet(Tasks!ThreadsOf(Threaded))
    BY <1>1, FiniteTasks, ThreadsFinite
  <2>2. ASSUME NEW n \in Threaded \X (1 .. MaxThreads), n[2] <= threads'[n[1]]
        PROVE  n[2] <= threads[n[1]]
    <3>1. n[1] \in AllTasks /\ n[2] \in Int
      BY <1>1
    <3>2. threads[n[1]] \in Int /\ threads'[n[1]] \in Int
      BY <3>1 DEF TaskTypes
    <3>3. threads'[n[1]] <= threads[n[1]]
      BY <3>1
    <3> QED BY <2>2, <3>1, <3>2, <3>3
  <2>3. Tasks!ThreadsOf(Threaded)' \subseteq Tasks!ThreadsOf(Threaded)
    BY <2>2 DEF Tasks!ThreadsOf
  <2> QED BY <2>1, <2>3, Smaller
<1>5. /\ stat.task \in Nat /\ stat.proc \in Nat /\ stat.cpm \in Nat /\ stat.thread \in Nat
  BY DEF TaskTypes
<1>6. stat.cpm + (IF place' = "carbon" THEN 1 ELSE 0) <= stat.proc
  <2>1. stat.cpm + (IF place = "carbon" THEN 1 ELSE 0) <= stat.proc
    BY DEF Sums
  <2> QED BY <1>5, <2>1
<1>7. Cardinality(Tasks!ThreadsOf(Threaded)') <= stat.thread
  BY <1>4, <1>5 DEF Sums
<1>8. /\ Cardinality(Tasked \cap (TaskProcesses \cap alive')) <= stat.proc
      /\ Cardinality(Sought \cap (CarbonProcesses \cap alive')) <= stat.cpm
  BY <1>2, <1>3, <1>5 DEF Sums
<1> QED BY <1>6, <1>7, <1>8 DEF Sums
(* One more task in the summary, among the Carbon processes, or with its     *)
(* threads.                                                                 *)
LEMMA VisitSums ==
    ASSUME Tasks!TasksAssumption, TasksInv, Tasks!VisitTask
    PROVE  Sums'
<1> USE DEF TasksInv
<1> DEFINE c == Tasks!Current
           found == c \in TaskProcesses \cap alive
<1>1. /\ place = "task" /\ i < Len(task_list) /\ Tasks!Counted(c)
      /\ place' = IF found THEN "carbon" ELSE IF options.verbose THEN "info" ELSE "threads"
      /\ UNCHANGED <<alive, threads, died, options, task_list, i, thread_list, buffers, nameRef>>
  BY DEF Tasks!VisitTask, Tasks!kernel
<1>2. Tasked = Passed /\ Sought = Passed /\ Threaded = Passed
  BY <1>1 DEF Tasked, Sought, Threaded, With, Busy
<1>3. Passed' = Passed /\ Tasks!Current' = c
  BY <1>1, SameWalk
<1>4. /\ Tasked' = Passed \cup {c} /\ Threaded' = Passed
      /\ Sought' = IF found THEN Passed ELSE Passed \cup {c}
  BY <1>1, <1>3 DEF Tasked, Sought, Threaded, With, Busy
<1>5. IsFiniteSet(Passed) /\ c \notin Passed
  <2>1. IsFiniteSet(Passed)
    BY <1>2, SetsAreFinite
  <2>2. i + 1 \in 1 .. Len(task_list) /\ \A k \in 1 .. i : task_list[k] # task_list[i + 1]
    BY <1>1 DEF TaskTypes, Walk
  <2> QED BY <2>1, <2>2 DEF Passed, Tasks!Current
<1>6. /\ stat.task \in Nat /\ stat.proc \in Nat /\ stat.cpm \in Nat /\ stat.thread \in Nat
      /\ stat'.task = stat.task + 1 /\ stat'.proc = stat.proc + IF found THEN 1 ELSE 0
      /\ stat'.cpm = stat.cpm /\ stat'.thread = stat.thread
  BY VisitAdds DEF Adds, TaskTypes
<1>7. /\ Cardinality(Passed) \in Nat /\ Cardinality(Passed \cup {c}) = Cardinality(Passed) + 1
  BY <1>5, OneJoins, FS_CardinalityType
<1>8. /\ Cardinality(Passed \cap TaskProcesses) \in Nat
      /\ Cardinality((Passed \cup {c}) \cap TaskProcesses)
            = Cardinality(Passed \cap TaskProcesses) + IF c \in TaskProcesses THEN 1 ELSE 0
  <2>1. \A Q : /\ Cardinality(Passed \cap Q) \in Nat
               /\ Cardinality((Passed \cup {c}) \cap Q) = Cardinality(Passed \cap Q) + IF c \in Q THEN 1 ELSE 0
    BY <1>5, JoinsPart, Zenon
  <2> QED BY <2>1, Zenon
<1>9. /\ Cardinality(Passed \cap (TaskProcesses \cap alive)) \in Nat
      /\ Cardinality((Passed \cup {c}) \cap (TaskProcesses \cap alive))
            = Cardinality(Passed \cap (TaskProcesses \cap alive)) + IF found THEN 1 ELSE 0
  <2>1. \A Q : /\ Cardinality(Passed \cap Q) \in Nat
               /\ Cardinality((Passed \cup {c}) \cap Q) = Cardinality(Passed \cap Q) + IF c \in Q THEN 1 ELSE 0
    BY <1>5, JoinsPart, Zenon
  <2> QED BY <2>1, Zenon
<1>10. Cardinality(Sought' \cap (CarbonProcesses \cap alive')) = Cardinality(Passed \cap (CarbonProcesses \cap alive))
  <2>1. ~found => c \notin CarbonProcesses \cap alive
    BY FiniteTasks
  <2>2. Sought' \cap (CarbonProcesses \cap alive') = Passed \cap (CarbonProcesses \cap alive)
    BY <1>1, <1>4, <2>1
  <2> QED BY <2>2
<1>11. Tasks!ThreadsOf(Threaded)' = Tasks!ThreadsOf(Threaded)
  BY <1>1, <1>2, <1>4 DEF Tasks!ThreadsOf
<1>12. /\ stat.task = Cardinality(Passed)
       /\ Cardinality(Passed \cap (TaskProcesses \cap alive)) <= stat.proc
       /\ stat.proc <= Cardinality(Passed \cap TaskProcesses)
       /\ Cardinality(Passed \cap (CarbonProcesses \cap alive)) <= stat.cpm
       /\ stat.cpm <= stat.proc /\ stat.proc <= stat.task
  BY <1>1, <1>2, <1>6 DEF Sums
<1>13. found => c \in TaskProcesses
  OBVIOUS
<1> HIDE DEF found, c
<1>14. stat'.task = Cardinality(Tasked')
  BY <1>4, <1>6, <1>7, <1>12
<1>15. /\ Cardinality(Tasked' \cap (TaskProcesses \cap alive')) <= stat'.proc
       /\ stat'.proc <= Cardinality(Tasked' \cap TaskProcesses)
  <2>1. /\ Tasked' \cap (TaskProcesses \cap alive') = (Passed \cup {c}) \cap (TaskProcesses \cap alive)
        /\ Tasked' \cap TaskProcesses = (Passed \cup {c}) \cap TaskProcesses
    BY <1>1, <1>4
  <2>2. /\ Cardinality((Passed \cup {c}) \cap (TaskProcesses \cap alive)) <= stat'.proc
        /\ stat'.proc <= Cardinality((Passed \cup {c}) \cap TaskProcesses)
    BY <1>6, <1>8, <1>9, <1>12, <1>13
  <2> QED BY <2>1, <2>2
<1>16. Cardinality(Sought' \cap (CarbonProcesses \cap alive')) <= stat'.cpm
  BY <1>6, <1>10, <1>12
<1>17. stat'.cpm + (IF place' = "carbon" THEN 1 ELSE 0) <= stat'.proc /\ stat'.proc <= stat'.task
  <2>1. place' = "carbon" <=> found
    BY <1>1
  <2> QED BY <1>6, <1>12, <2>1
<1>18. /\ Cardinality(Tasks!ThreadsOf(Threaded)') <= stat'.thread
       /\ stat'.thread <= Cardinality(Threaded') * MaxThreads
       /\ buffers' <= Cardinality(Threaded') + 1
  <2>1. Threaded' = Threaded
    BY <1>2, <1>4
  <2> QED BY <1>1, <1>6, <1>11, <2>1 DEF Sums
<1> QED BY <1>14, <1>15, <1>16, <1>17, <1>18 DEF Sums

LEMMA SearchSums ==
    ASSUME Tasks!TasksAssumption, TasksInv, Tasks!GetProcess
    PROVE  Sums'
<1> USE DEF TasksInv
<1> DEFINE c == Tasks!Current
           found == c \in CarbonProcesses \cap alive
<1>1. /\ place = "carbon" /\ place' \in {"name", "info", "threads"}
      /\ UNCHANGED <<alive, threads, died, options, task_list, i, thread_list, buffers, nameRef>>
  BY DEF Tasks!GetProcess, Tasks!kernel
<1>2. Tasked = Passed \cup {c} /\ Sought = Passed /\ Threaded = Passed
  BY <1>1 DEF Tasked, Sought, Threaded, With, Busy
<1>3. Passed' = Passed /\ Tasks!Current' = c
  BY <1>1, SameWalk
<1>4. Tasked' = Tasked /\ Threaded' = Threaded /\ Sought' = Sought \cup {c}
  BY <1>1, <1>2, <1>3 DEF Tasked, Sought, Threaded, With, Busy
<1>5. IsFiniteSet(Sought) /\ c \notin Sought
  BY <1>1, <1>2, SetsAreFinite DEF Busy
<1>6. /\ stat.task \in Nat /\ stat.proc \in Nat /\ stat.cpm \in Nat /\ stat.thread \in Nat
      /\ stat'.task = stat.task /\ stat'.proc = stat.proc
      /\ stat'.cpm = stat.cpm + IF found THEN 1 ELSE 0
      /\ stat'.thread = stat.thread
  BY GetAdds DEF Adds, TaskTypes
<1>7. /\ Cardinality(Sought \cap (CarbonProcesses \cap alive)) \in Nat
      /\ Cardinality((Sought \cup {c}) \cap (CarbonProcesses \cap alive))
            = Cardinality(Sought \cap (CarbonProcesses \cap alive)) + IF found THEN 1 ELSE 0
  <2>1. \A Q : /\ Cardinality(Sought \cap Q) \in Nat
               /\ Cardinality((Sought \cup {c}) \cap Q) = Cardinality(Sought \cap Q) + IF c \in Q THEN 1 ELSE 0
    BY <1>5, JoinsPart, Zenon
  <2> QED BY <2>1, Zenon
<1>8. /\ Cardinality(Sought \cap (CarbonProcesses \cap alive)) <= stat.cpm
      /\ stat.cpm + 1 <= stat.proc /\ stat.proc <= stat.task
  BY <1>1 DEF Sums
<1>9. Cardinality(Sought' \cap (CarbonProcesses \cap alive')) <= stat'.cpm
  BY <1>1, <1>4, <1>6, <1>7, <1>8
<1>10. stat'.cpm + (IF place' = "carbon" THEN 1 ELSE 0) <= stat'.proc /\ stat'.proc <= stat'.task
  BY <1>1, <1>6, <1>8
<1>11. Tasks!ThreadsOf(Threaded)' = Tasks!ThreadsOf(Threaded)
  BY <1>1, <1>4 DEF Tasks!ThreadsOf
<1> QED BY <1>1, <1>4, <1>6, <1>9, <1>10, <1>11 DEF Sums

LEMMA ThreadSums ==
    ASSUME Tasks!TasksAssumption, TasksInv, place \in {"info", "threads"}, place' # "carbon",
           UNCHANGED <<alive, threads>>,
           Tasked' = Tasked, Sought' = Sought, Threaded' = Threaded \cup {Tasks!Current},
           NEW n \in 0 .. MaxThreads, threads[Tasks!Current] <= n, Adds(0, 0, 0, n),
           buffers' \in Int, buffers' <= buffers + 1
    PROVE  Sums'
<1> USE DEF TasksInv
<1> DEFINE c == Tasks!Current
<1>1. IsFiniteSet(Threaded) /\ c \notin Threaded /\ c \in AllTasks
  <2>1. Threaded = Passed
    BY DEF Threaded, With
  <2> QED BY <2>1, SetsAreFinite DEF Busy
<1>2. MaxThreads \in Nat /\ threads[c] \in 0 .. MaxThreads
  BY <1>1, FiniteTasks DEF TaskTypes
<1>3. /\ Cardinality(Threaded) \in Nat
      /\ Cardinality(Threaded \cup {c}) = Cardinality(Threaded) + 1
  BY <1>1, OneJoins, FS_CardinalityType
<1>4. /\ Cardinality(Tasks!ThreadsOf(Threaded \cup {c})) <= Cardinality(Tasks!ThreadsOf(Threaded)) + threads[c]
      /\ Cardinality(Tasks!ThreadsOf(Threaded)) \in Nat
      /\ Cardinality(Tasks!ThreadsOf(Threaded \cup {c})) \in Nat
  <2>1. IsFiniteSet(Threaded \cup {c})
    BY <1>1, FS_AddElement
  <2> QED BY <1>1, <1>2, <2>1, ThreadsJoin, ThreadsFinite
<1>5. Tasks!ThreadsOf(Threaded)' = Tasks!ThreadsOf(Threaded \cup {c})
  BY DEF Tasks!ThreadsOf
<1>6. /\ stat.task \in Nat /\ stat.proc \in Nat /\ stat.cpm \in Nat /\ stat.thread \in Nat
      /\ stat'.task = stat.task /\ stat'.proc = stat.proc /\ stat'.cpm = stat.cpm
      /\ stat'.thread = stat.thread + n
  BY DEF Adds, TaskTypes
<1>7. Cardinality(Tasks!ThreadsOf(Threaded)') <= stat'.thread
  <2>1. Cardinality(Tasks!ThreadsOf(Threaded)) <= stat.thread
    BY DEF Sums
  <2>2. Cardinality(Tasks!ThreadsOf(Threaded \cup {c})) <= stat.thread + n
    BY <1>2, <1>4, <1>6, <2>1
  <2> QED BY <1>5, <1>6, <2>2
<1>8. stat'.thread <= Cardinality(Threaded') * MaxThreads
  <2>1. \A m, h, t \in Nat : \A x \in 0 .. h : t <= m * h => t + x <= (m + 1) * h
    OBVIOUS
  <2>2. stat.thread <= Cardinality(Threaded) * MaxThreads
    BY DEF Sums
  <2>3. stat.thread + n <= (Cardinality(Threaded) + 1) * MaxThreads
    BY <1>2, <1>3, <1>6, <2>1, <2>2
  <2> QED BY <1>3, <1>6, <2>3
<1>9. buffers' <= Cardinality(Threaded') + 1
  <2>1. buffers \in Nat /\ buffers <= Cardinality(Threaded) + 1
    BY DEF Sums, TaskTypes
  <2> QED BY <1>3, <2>1
<1>10. stat.cpm <= stat.proc
  <2>1. stat.cpm + (IF place = "carbon" THEN 1 ELSE 0) <= stat.proc
    BY DEF Sums
  <2> QED BY <1>6, <2>1
<1> QED BY <1>6, <1>7, <1>8, <1>9, <1>10 DEF Sums

(* A task that has ended has no threads to add.                             *)
LEMMA GivenUp ==
    ASSUME Tasks!TasksAssumption, TasksInv, TaskTypes', place \in {"info", "threads"}, place' = "task",
           Tasks!Current \notin alive, UNCHANGED <<alive, threads, stat, buffers>>,
           Passed' = Passed \cup {Tasks!Current}
    PROVE  Sums'
<1>1. Tasked' = Tasked /\ Sought' = Sought /\ Threaded' = Threaded \cup {Tasks!Current}
  BY DEF Tasked, Sought, Threaded, With, Busy
<1>2. Tasks!Current \in AllTasks
  BY SetsAreFinite DEF TasksInv, Busy
<1>3. threads[Tasks!Current] = 0 /\ buffers \in Nat
  BY <1>2 DEF TasksInv, TaskTypes
<1>4. Adds(0, 0, 0, 0)
  BY DEF TasksInv, TaskTypes, Adds, Stats
<1>5. 0 \in 0 .. MaxThreads /\ threads[Tasks!Current] <= 0 /\ buffers' \in Int /\ buffers' <= buffers + 1
  BY <1>3, FiniteTasks
<1> QED BY <1>1, <1>4, <1>5, ThreadSums

LEMMA SumsStep ==
    ASSUME Tasks!TasksAssumption, TasksInv, TaskTypes', Tasks!Next
    PROVE  Sums'
<1> USE DEF TasksInv
<1>0. \A t \in AllTasks : threads[t] \in Nat
  BY FiniteTasks DEF TaskTypes
<1>a. buffers \in Nat /\ buffers <= Cardinality(Threaded) + 1 /\ Cardinality(Threaded) \in Nat
  BY SetsAreFinite, FS_CardinalityType DEF TaskTypes, Sums
<1>b. /\ i \in Nat
      /\ UNCHANGED <<options, task_list, i>> => Passed' = Passed /\ Tasks!Current' = Tasks!Current
      /\ UNCHANGED <<options, task_list>> /\ i' = i + 1 =>
            Passed' = IF Tasks!Counted(Tasks!Current) THEN Passed \cup {Tasks!Current} ELSE Passed
  <2>1. TaskTypes
    OBVIOUS
  <2>2. i \in Nat
    BY DEF TaskTypes
  <2>3. ASSUME UNCHANGED <<options, task_list, i>>
        PROVE  Passed' = Passed /\ Tasks!Current' = Tasks!Current
    BY <2>3, SameWalk
  <2>4. ASSUME UNCHANGED <<options, task_list>>, i' = i + 1
        PROVE  Passed' = IF Tasks!Counted(Tasks!Current) THEN Passed \cup {Tasks!Current} ELSE Passed
    BY <2>1, <2>4, OneFurther
  <2> QED BY <2>2, <2>3, <2>4
<1> HIDE DEF TasksInv
<1> USE DEF Tasked, Sought, Threaded, With, Busy, Tasks!kernel
<1>1. CASE Tasks!Options
  <2>1. Passed' = Passed
    BY <1>1 DEF Tasks!Options, TasksInv, Walk, Early, TaskTypes, Passed
  <2>2. place \notin Busy /\ place' \notin Busy
    BY <1>1 DEF Tasks!Options
  <2>3. Tasked' = Tasked /\ Sought' = Sought /\ Threaded' = Threaded
    BY <2>1, <2>2
  <2> QED BY <1>0, <1>1, <1>a, <2>2, <2>3, TaskSumsKept DEF Tasks!Options
<1>2. CASE Tasks!Snapshot
  <2>1. Passed = {} /\ Passed' = {}
    BY <1>2 DEF Tasks!Snapshot, TasksInv, Walk, Early, TaskTypes, Passed
  <2>2. place \notin Busy /\ place' \notin Busy
    BY <1>2 DEF Tasks!Snapshot
  <2>3. Tasked' = Tasked /\ Sought' = Sought /\ Threaded' = Threaded
    BY <2>1, <2>2
  <2>4. buffers' <= Cardinality(Threaded) + 1
    BY <1>2, <1>a DEF Tasks!Snapshot, TasksInv, Walk, Early
  <2> QED BY <1>0, <1>2, <2>2, <2>3, <2>4, TaskSumsKept DEF Tasks!Snapshot
<1>3. CASE Tasks!SkipTask
  <2>1. Passed' = Passed
    BY <1>3, <1>b DEF Tasks!SkipTask
  <2>2. Tasked' = Tasked /\ Sought' = Sought /\ Threaded' = Threaded
    BY <1>3, <2>1 DEF Tasks!SkipTask
  <2> QED BY <1>0, <1>3, <1>a, <2>2, TaskSumsKept DEF Tasks!SkipTask
<1>4. CASE Tasks!VisitTask
  BY <1>4, VisitSums
<1>5. CASE Tasks!GetProcess
  BY <1>5, SearchSums
<1>6. CASE Tasks!CopyName
  <2>1. Tasked' = Tasked /\ Sought' = Sought /\ Threaded' = Threaded
    BY <1>6, <1>b DEF Tasks!CopyName
  <2> QED BY <1>0, <1>6, <1>a, <2>1, TaskSumsKept DEF Tasks!CopyName
<1>7. CASE Tasks!TaskInfo
  <2>0. Tasks!Counted(Tasks!Current)
    BY <1>7 DEF Tasks!TaskInfo, TasksInv, Walk
  <2>1. CASE Tasks!Current \in alive
    <3>1. Tasked' = Tasked /\ Sought' = Sought /\ Threaded' = Threaded
      BY <1>7, <1>b, <2>1 DEF Tasks!TaskInfo
    <3> QED BY <1>0, <1>7, <1>a, <2>1, <3>1, TaskSumsKept DEF Tasks!TaskInfo
  <2>2. CASE Tasks!Current \notin alive
    <3>1. /\ place = "info" /\ place' = "task" /\ i' = i + 1
          /\ UNCHANGED <<alive, threads, died, options, task_list, thread_list, stat, buffers, nameRef>>
      BY <1>7, <2>2 DEF Tasks!TaskInfo, Tasks!NextTask
    <3>2. Passed' = Passed \cup {Tasks!Current}
      BY <1>b, <2>0, <3>1
    <3> QED BY <1>a, <2>2, <3>1, <3>2, GivenUp
  <2> QED BY <2>1, <2>2
<1>8. CASE Tasks!TaskThreads
  <2>0. Tasks!Counted(Tasks!Current)
    BY <1>8 DEF Tasks!TaskThreads, TasksInv, Walk
  <2>1. CASE Tasks!Current \notin alive
    <3>1. /\ place = "threads" /\ place' = "task" /\ i' = i + 1
          /\ UNCHANGED <<alive, threads, died, options, task_list, thread_list, stat, buffers, nameRef>>
      BY <1>8, <2>1 DEF Tasks!TaskThreads, Tasks!NextTask
    <3>2. Passed' = Passed \cup {Tasks!Current}
      BY <1>b, <2>0, <3>1
    <3> QED BY <1>a, <2>1, <3>1, <3>2, GivenUp
  <2>2. CASE Tasks!Current \in alive
    <3>1. /\ place = "threads" /\ buffers' = buffers + 1
          /\ UNCHANGED <<alive, threads, died, options, task_list, nameRef>>
          /\ \/ place' = "each" /\ i' = i
             \/ place' = "task" /\ i' = i + 1
      BY <1>8, <2>2 DEF Tasks!TaskThreads, Tasks!NextTask
    <3>2. /\ place' = "each" => Passed' = Passed /\ Tasks!Current' = Tasks!Current
          /\ place' = "task" => Passed' = Passed \cup {Tasks!Current}
      BY <1>b, <2>0, <3>1
    <3>3. Tasked' = Tasked /\ Sought' = Sought /\ Threaded' = Threaded \cup {Tasks!Current}
      BY <3>1, <3>2
    <3>4. threads[Tasks!Current] \in 0 .. MaxThreads /\ Adds(0, 0, 0, threads[Tasks!Current])
      BY <1>8, <2>2, ThreadsAdd DEF TasksInv
    <3>5. threads[Tasks!Current] <= threads[Tasks!Current] /\ buffers' \in Int /\ buffers' <= buffers + 1
      BY <1>a, <3>1, <3>4, FiniteTasks
    <3> QED BY <3>1, <3>3, <3>4, <3>5, ThreadSums
  <2> QED BY <2>1, <2>2
<1>9. CASE Tasks!ThreadInfo
  <2>1. Tasked' = Tasked /\ Sought' = Sought /\ Threaded' = Threaded
    BY <1>9, <1>b DEF Tasks!ThreadInfo
  <2> QED BY <1>0, <1>9, <1>a, <2>1, TaskSumsKept DEF Tasks!ThreadInfo
<1>10. CASE Tasks!ThreadsDone
  <2>1. /\ place = "each" /\ place' = "task" /\ i' = i + 1 /\ buffers' = buffers - 1
        /\ UNCHANGED <<alive, threads, died, options, task_list, stat, nameRef>>
    BY <1>10 DEF Tasks!ThreadsDone, Tasks!NextTask
  <2>2. Tasks!Counted(Tasks!Current)
    BY <2>1 DEF TasksInv, Walk
  <2>3. Passed' = Passed \cup {Tasks!Current}
    BY <1>b, <2>1, <2>2
  <2>4. Tasked' = Tasked /\ Sought' = Sought /\ Threaded' = Threaded
    BY <2>1, <2>3
  <2>5. buffers' <= Cardinality(Threaded) + 1
    BY <1>a, <2>1
  <2> QED BY <1>0, <2>1, <2>4, <2>5, TaskSumsKept
<1>11. CASE Tasks!Summary
  <2>1. Tasked' = Tasked /\ Sought' = Sought /\ Threaded' = Threaded
    BY <1>11, <1>b DEF Tasks!Summary
  <2>2. buffers' <= Cardinality(Threaded) + 1
    BY <1>11, <1>a DEF Tasks!Summary
  <2> QED BY <1>0, <1>11, <2>1, <2>2, TaskSumsKept DEF Tasks!Summary
<1>12. CASE \E t \in AllTasks : Tasks!TaskEnds(t) \/ Tasks!ThreadEnds(t)
  <2>0. PICK t \in AllTasks : Tasks!TaskEnds(t) \/ Tasks!ThreadEnds(t)
    BY <1>12
  <2>1. /\ UNCHANGED <<place, options, task_list, i, thread_list, stat, buffers, nameRef>>
        /\ alive' \subseteq alive
    BY <2>0 DEF Tasks!TaskEnds, Tasks!ThreadEnds
  <2>2. threads \in [AllTasks -> 0 .. MaxThreads] /\ MaxThreads \in Nat
    BY FiniteTasks DEF TasksInv, TaskTypes
  <2>3. \A u \in AllTasks : threads'[u] <= threads[u]
    BY <1>0, <2>0, <2>2 DEF Tasks!TaskEnds, Tasks!ThreadEnds
  <2>4. Tasked' = Tasked /\ Sought' = Sought /\ Threaded' = Threaded
    BY <1>b, <2>1
  <2> QED BY <1>a, <2>1, <2>3, <2>4, TaskSumsKept
<1> QED BY <1>1, <1>2, <1>3, <1>4, <1>5, <1>6, <1>7, <1>8, <1>9, <1>10, <1>11, <1>12
        DEF Tasks!Next, Tasks!Main

-----------------------------------------------------------------------------
LEMMA TasksStart ==
    ASSUME Tasks!TasksAssumption, Tasks!Init
    PROVE  TasksInv
<1> USE FiniteTasks DEF Tasks!Init
<1>1. TaskTypes
  <2>1. /\ alive \subseteq AllTasks /\ threads \in [AllTasks -> 0 .. MaxThreads]
        /\ \A t \in AllTasks \ alive : threads[t] = 0
    OBVIOUS
  <2>2. options \in [summary : BOOLEAN, verbose : BOOLEAN, onetask : SUBSET TaskProcesses]
    OBVIOUS
  <2>3. stat \in [task : Nat, proc : Nat, cpm : Nat, thread : Nat]
    OBVIOUS
  <2>4. task_list \in Seq(AllTasks) /\ i \in 0 .. Len(task_list)
    OBVIOUS
  <2>5. thread_list \in 0 .. MaxThreads /\ buffers \in Nat
    OBVIOUS
  <2>6. /\ place \in Early \cup Busy \cup {"task", "exit"}
        /\ nameRef \in {"unset", "released", "reused"} /\ died \in BOOLEAN
    BY DEF Early
  <2> QED BY <2>1, <2>2, <2>3, <2>4, <2>5, <2>6 DEF TaskTypes
<1>2. Walk
  BY DEF Walk, Early, Busy
<1>3. Passed = {} /\ Tasked = {} /\ Sought = {} /\ Threaded = {}
  BY DEF Passed, Tasked, Sought, Threaded, With, Busy
<1>4. \A Q : {} \cap Q = {}
  OBVIOUS
<1>5. Tasks!ThreadsOf({}) = {}
  BY DEF Tasks!ThreadsOf
<1>6. Cardinality({}) = 0
  BY FS_EmptySet
<1>7. /\ stat.task = 0 /\ stat.proc = 0 /\ stat.cpm = 0 /\ stat.thread = 0
      /\ buffers = 0 /\ place = "options"
  OBVIOUS
<1> HIDE DEF Tasks!Init
<1>8. /\ Cardinality(Tasked \cap (TaskProcesses \cap alive)) = 0
      /\ Cardinality(Tasked \cap TaskProcesses) = 0
      /\ Cardinality(Sought \cap (CarbonProcesses \cap alive)) = 0
      /\ Cardinality(Tasks!ThreadsOf(Threaded)) = 0
      /\ Cardinality(Tasked) = 0 /\ Cardinality(Threaded) = 0
  BY <1>3, <1>4, <1>5, <1>6, Zenon
<1>9. Sums
  BY <1>7, <1>8 DEF Sums
<1> QED BY <1>1, <1>2, <1>9 DEF TasksInv

LEMMA TasksStep ==
    ASSUME Tasks!TasksAssumption, TasksInv, [Tasks!Next]_(Tasks!vars)
    PROVE  TasksInv'
<1>1. CASE UNCHANGED Tasks!vars
  <2>1. TaskTypes' /\ Walk'
    BY <1>1 DEF TasksInv, TaskTypes, Walk, Tasks!vars, Tasks!Counted, Tasks!Current
  <2>2. Tasked' = Tasked /\ Sought' = Sought /\ Threaded' = Threaded
    BY <1>1 DEF Tasks!vars, Tasked, Sought, Threaded, With, Passed, Tasks!Counted, Tasks!Current
  <2>3. \A Q : Tasks!ThreadsOf(Q)' = Tasks!ThreadsOf(Q)
    BY <1>1 DEF Tasks!vars, Tasks!ThreadsOf
  <2>4. Tasks!ThreadsOf(Threaded)' = Tasks!ThreadsOf(Threaded)
    BY <1>1, <2>2 DEF Tasks!vars, Tasks!ThreadsOf
  <2>5. Sums'
    BY <1>1, <2>2, <2>4 DEF TasksInv, Sums, Tasks!vars
  <2> QED BY <2>1, <2>5 DEF TasksInv
<1>2. CASE Tasks!Next
  <2>1. TaskTypes' /\ Walk'
    BY <1>2, MachineSteps, WalkBegins, WalkSteps DEF TasksInv, Tasks!Next, Tasks!Main
  <2>2. Sums'
    BY <1>2, <2>1, SumsStep
  <2> QED BY <2>1, <2>2 DEF TasksInv
<1> QED BY <1>1, <1>2

(* At the end everything listed has been counted.                           *)
LEMMA SummaryFollows ==
    ASSUME Tasks!TasksAssumption, TasksInv
    PROVE  Tasks!SummaryAgrees
<1> USE DEF TasksInv
<1>1. MaxThreads \in Nat /\ IsFiniteSet(AllTasks)
  BY FiniteTasks
<1>2. \A S : Tasks!Cardinality(S) = Cardinality(S)
  BY Zenon DEF Tasks!Cardinality, Cardinality
<1>3. /\ Threaded \subseteq AllTasks \ {Self} /\ IsFiniteSet(Tasked) /\ IsFiniteSet(Threaded)
      /\ Self \in AllTasks /\ CarbonProcesses \subseteq TaskProcesses
  BY SetsAreFinite, FiniteTasks
<1>4. buffers \in 0 .. Tasks!Cardinality(AllTasks)
  <2>1. Self \notin Threaded /\ Threaded \cup {Self} \subseteq AllTasks
    BY <1>3
  <2>2. Cardinality(Threaded \cup {Self}) = Cardinality(Threaded) + 1 /\ Cardinality(Threaded) \in Nat
    BY <1>3, <2>1, FS_AddElement, FS_CardinalityType
  <2>3. /\ Cardinality(Threaded \cup {Self}) <= Cardinality(AllTasks)
        /\ Cardinality(AllTasks) \in Nat
    BY <1>1, <2>1, Smaller
  <2>4. buffers \in Nat /\ buffers <= Cardinality(Threaded) + 1
    BY DEF TaskTypes, Sums
  <2>5. buffers \in 0 .. Cardinality(AllTasks)
    BY <2>2, <2>3, <2>4
  <2> QED BY <1>2, <2>5, Zenon
<1>5. Tasks!TypeOK
  BY <1>4 DEF Tasks!TypeOK, TaskTypes
<1>6. /\ stat.task \in Nat /\ stat.proc \in Nat /\ stat.cpm \in Nat /\ stat.thread \in Nat
      /\ stat.cpm <= stat.proc /\ stat.proc <= stat.task
  <2>1. /\ stat.task \in Nat /\ stat.proc \in Nat /\ stat.cpm \in Nat /\ stat.thread \in Nat
    BY DEF TaskTypes
  <2>2. stat.cpm + (IF place = "carbon" THEN 1 ELSE 0) <= stat.proc /\ stat.proc <= stat.task
    BY DEF Sums
  <2> QED BY <2>1, <2>2
<1>7. nameRef = "reused" => died
  BY DEF Walk
<1>8. ASSUME place = "exit"
      PROVE  /\ stat.task = Tasks!Cardinality(Tasks!Listed)
             /\ stat.proc \in Tasks!Cardinality(Tasks!Listed \cap TaskProcesses \cap alive)
                                .. Tasks!Cardinality(Tasks!Listed \cap TaskProcesses)
             /\ stat.cpm >= Tasks!Cardinality(Tasks!Listed \cap CarbonProcesses \cap alive)
             /\ stat.thread \in Tasks!Cardinality(Tasks!ThreadsOf(Tasks!Listed))
                                  .. Tasks!Cardinality(Tasks!Listed) * MaxThreads
             /\ options.verbose => buffers = 0
  <2>1. Tasks!Range(task_list) = {task_list[k] : k \in 1 .. i}
    <3>1. place = "exit" => i = Len(task_list)
      BY DEF Walk
    <3>2. DOMAIN task_list = 1 .. Len(task_list)
      BY DEF TaskTypes
    <3> QED BY <1>8, <3>1, <3>2, Zenon DEF Tasks!Range
  <2>2. Tasks!Listed = Passed
    BY <2>1 DEF Tasks!Listed, Passed
  <2>3. Tasked = Passed /\ Sought = Passed /\ Threaded = Passed
    BY <1>8 DEF Tasked, Sought, Threaded, With, Busy
  <2>4. /\ Passed \cap TaskProcesses \cap alive = Passed \cap (TaskProcesses \cap alive)
        /\ Passed \cap CarbonProcesses \cap alive = Passed \cap (CarbonProcesses \cap alive)
    OBVIOUS
  <2>5. /\ Cardinality(Passed) \in Nat
        /\ Cardinality(Passed \cap TaskProcesses) \in Nat
        /\ Cardinality(Passed \cap (TaskProcesses \cap alive)) \in Nat
        /\ Cardinality(Passed \cap (CarbonProcesses \cap alive)) \in Nat
        /\ Cardinality(Tasks!ThreadsOf(Passed)) \in Nat
    <3>1. IsFiniteSet(Passed)
      BY <1>3, <2>3
    <3>2. \A Q : Passed \cap Q \subseteq Passed
      OBVIOUS
    <3>3. \A Q : Cardinality(Passed \cap Q) \in Nat
      BY <3>1, <3>2, Smaller
    <3>4. Cardinality(Passed) \in Nat
      BY <3>1, FS_CardinalityType
    <3>5. Cardinality(Tasks!ThreadsOf(Passed)) \in Nat
      BY <1>1, <3>1, ThreadsFinite
    <3> QED BY <3>3, <3>4, <3>5, Zenon
  <2>6. /\ stat.task = Cardinality(Passed)
        /\ Cardinality(Passed \cap (TaskProcesses \cap alive)) <= stat.proc
        /\ stat.proc <= Cardinality(Passed \cap TaskProcesses)
        /\ Cardinality(Passed \cap (CarbonProcesses \cap alive)) <= stat.cpm
        /\ Cardinality(Tasks!ThreadsOf(Passed)) <= stat.thread
        /\ stat.thread <= Cardinality(Passed) * MaxThreads
    BY <2>3 DEF Sums
  <2>7. options.verbose => buffers = 0
    BY <1>8 DEF Walk
  <2>8. /\ stat.proc \in Cardinality(Passed \cap (TaskProcesses \cap alive))
                            .. Cardinality(Passed \cap TaskProcesses)
        /\ stat.cpm >= Cardinality(Passed \cap (CarbonProcesses \cap alive))
        /\ stat.thread \in Cardinality(Tasks!ThreadsOf(Passed)) .. Cardinality(Passed) * MaxThreads
    <3> DEFINE most == Cardinality(Passed) * MaxThreads
    <3>1. most \in Nat
      BY <1>1, <2>5
    <3>2. Cardinality(Tasks!ThreadsOf(Passed)) <= stat.thread /\ stat.thread <= most
      BY <2>6
    <3> HIDE DEF most
    <3>3. stat.thread \in Cardinality(Tasks!ThreadsOf(Passed)) .. most
      BY <1>6, <2>5, <3>1, <3>2
    <3>4. /\ stat.proc \in Cardinality(Passed \cap (TaskProcesses \cap alive))
                              .. Cardinality(Passed \cap TaskProcesses)
          /\ stat.cpm >= Cardinality(Passed \cap (CarbonProcesses \cap alive))
      BY <1>6, <2>5, <2>6
    <3> QED BY <3>3, <3>4 DEF most
  <2> QED BY <1>2, <2>2, <2>4, <2>6, <2>7, <2>8, Zenon
<1> QED BY <1>5, <1>6, <1>7, <1>8 DEF Tasks!SummaryAgrees

\* lstasks's summary agrees with a machine that is never stopped, whatever tasks
\* and threads end meanwhile and wherever the walk is when they do: no task of
\* the snapshot is lost or counted twice, no process that lasts is missed, the
\* threads counted are at least those that are still there, verbose mode gives
\* every buffer back, and a released name is used only after a task has ended.
THEOREM SummaryIsRight ==
    ASSUME Tasks!TasksAssumption
    PROVE  Tasks!Spec => []Tasks!SummaryAgrees
<1>1. Tasks!Init => TasksInv
  BY TasksStart
<1>2. TasksInv /\ [Tasks!Next]_(Tasks!vars) => TasksInv'
  BY TasksStep
<1>3. TasksInv => Tasks!SummaryAgrees
  BY SummaryFollows
<1> QED BY <1>1, <1>2, <1>3, PTL DEF Tasks!Spec

-----------------------------------------------------------------------------
(* The event stream (11-25/fslogger.c).  The items of a buffer lie one after *)
(* the other (Layout), each event is a head, arguments and a mark (Grammar), *)
(* of which the driver may still have some to copy (Remainder); and as many  *)
(* items have been printed as lie before off (Progress).                     *)
EventKinds ==
    {"event", "invalid", "dropped", "done"}
       \cup UNION {{list[k].kind : k \in DOMAIN list} : list \in EventArguments}
ItemTypes   == [kind : EventKinds, size : Nat]
PlacedTypes == [kind : EventKinds, size : Nat, at : Nat]

IsHead(kind)   == kind \in {"event", "invalid", "dropped"}
Closes(kind)   == kind \in {"dropped", "done"}
StartOf(k)      == IF k \in 1 .. Len(buffer) THEN buffer[k].at ELSE ret
Under(h, k)    == /\ h \in 1 .. k /\ buffer[h].kind \in {"event", "invalid"}
                  /\ \A m \in 1 .. k : m > h => ~IsHead(buffer[m].kind) /\ ~Closes(buffer[m].kind)

LoggerTypes ==
    /\ logger \in {"start", "clone", "exit", "read", "reading", "event", "argument", "crashed"}
    /\ open \in SUBSET {"fd", "clonefd"} /\ is_fse_arg_vnode \in BOOLEAN
    /\ count \in 0 .. FSE_MAX_ARGS + 1 /\ reads \in Nat
    /\ ret \in Int /\ off \in Int /\ kea \in Int
    /\ buffer \in Seq(PlacedTypes) /\ due \in Seq(ItemTypes)
    /\ printed \in Seq(EventKinds \cup {"fsid"})
    /\ logger \in {"start", "clone", "exit"} => reads = 0
    /\ logger \in {"reading", "event", "argument"} => reads > 0
    /\ reads = 0 => buffer = <<>>

Layout ==
    /\ reads > 0 => ret \in Nat /\ StartOf(1) = 0
    /\ \A k \in 1 .. Len(buffer) :
          /\ buffer[k].size >= 2
          /\ buffer[k].kind \in {"event", "invalid"} => buffer[k].size = Events!Header
          /\ buffer[k].kind = "dropped" => buffer[k].size = Events!Header + Events!MarkSize
          /\ StartOf(k + 1) = buffer[k].at + buffer[k].size
          /\ buffer[k].at + buffer[k].size <= ret
    /\ \A k, m \in 1 .. Len(buffer) : k < m => buffer[k].at + buffer[k].size <= buffer[m].at

Grammar ==
    \A k \in 1 .. Len(buffer) :
       /\ IsHead(buffer[k].kind) <=> k = 1 \/ Closes(buffer[k - 1].kind)
       /\ k > 1 /\ buffer[k - 1].kind = "vnode" => buffer[k].kind = "dev"
       /\ ~Closes(buffer[k].kind) => \E h \in 1 .. k : Under(h, k)
       /\ \A h \in 1 .. k : Under(h, k) => k - h <= FSE_MAX_ARGS

Remainder ==
    /\ due = <<>> <=> buffer = <<>> \/ Closes(buffer[Len(buffer)].kind)
    /\ \A k \in 1 .. Len(due) :
          /\ due[k].size >= 2 /\ ~IsHead(due[k].kind)
          /\ due[k].kind = "done" <=> k = Len(due)
          /\ due[k].kind = "vnode" => k < Len(due) /\ due[k + 1].kind = "dev"
    /\ due # <<>> /\ buffer[Len(buffer)].kind = "vnode" => due[1].kind = "dev"
    /\ \A h \in 1 .. Len(buffer) :
          Under(h, Len(buffer)) => Len(buffer) - h + Len(due) <= FSE_MAX_ARGS + 1
    /\ logger # "reading" => due = <<>>

Progress ==
    /\ logger \in {"event", "argument"} =>
          /\ Len(printed) <= Len(buffer) /\ off = StartOf(Len(printed) + 1)
          /\ \A k \in 1 .. Len(printed) : printed[k] = Events!Meant[k]
    /\ logger = "event" /\ Len(printed) > 0 => Closes(buffer[Len(printed)].kind)
    /\ logger = "argument" =>
          /\ kea = off /\ Len(printed) > 0 /\ ~Closes(buffer[Len(printed)].kind)
          /\ is_fse_arg_vnode <=> buffer[Len(printed)].kind = "vnode"
          /\ \E h \in 1 .. Len(printed) : Under(h, Len(printed)) /\ count = Len(printed) - h
    /\ logger \notin {"argument", "crashed"} => ~is_fse_arg_vnode
    /\ logger = "crashed" => Events!At(off).kind \in {"invalid", "raw"}
    /\ logger = "read" /\ reads > 0 => off = ret /\ printed = Events!Meant

LoggerInv == LoggerTypes /\ Layout /\ Grammar /\ Remainder /\ Progress
-----------------------------------------------------------------------------
LEMMA EventSizes ==
    /\ Events!Header = 8 /\ Events!MarkSize = 2 /\ Events!Mark = [kind |-> "done", size |-> 2]
    /\ \A k, s : Events!Item(k, s) = [kind |-> k, size |-> s]
BY DEF Events!Header, Events!MarkSize, Events!Mark, Events!Item

(* The remaining items of an event that begins.                             *)
LEMMA EventItems ==
    ASSUME Events!ArgumentsAssumption, NEW list \in EventArguments, NEW items,
           items = Append([k \in DOMAIN list |-> Events!Sized(list[k])], Events!Mark)
    PROVE  /\ items \in Seq(ItemTypes) /\ Len(items) \in 1 .. FSE_MAX_ARGS + 1
           /\ \A k \in 1 .. Len(items) :
                 /\ items[k].size >= 2 /\ ~IsHead(items[k].kind)
                 /\ items[k].kind = "done" <=> k = Len(items)
                 /\ items[k].kind = "vnode" => k < Len(items) /\ items[k + 1].kind = "dev"
<1> DEFINE n == Len(list)
           sized == [k \in 1 .. n |-> Events!Sized(list[k])]
           types == [kind : STRING \ {"event", "invalid", "dropped", "done"}, len : Nat]
<1>a. /\ FSE_MAX_ARGS \in Nat /\ list \in Seq(types) /\ n <= FSE_MAX_ARGS
      /\ \A k \in DOMAIN list : list[k].kind = "vnode" => k < n /\ list[k + 1].kind = "dev"
  BY DEF Events!ArgumentsAssumption
<1>b. \A t \in types : t.kind \notin {"event", "invalid", "dropped", "done"} /\ t.len \in Nat
  OBVIOUS
<1>c. DOMAIN list = 1 .. n /\ n \in Nat /\ \A k \in 1 .. n : list[k] \in types
  <2> HIDE DEF types
  <2> QED BY <1>a
<1> HIDE DEF n, types
<1>1. /\ FSE_MAX_ARGS \in Nat /\ n \in 0 .. FSE_MAX_ARGS /\ DOMAIN list = 1 .. n
      /\ \A k \in 1 .. n : /\ list[k].kind \notin {"event", "invalid", "dropped", "done"} /\ list[k].len \in Nat
                           /\ list[k].kind = "vnode" => k < n /\ list[k + 1].kind = "dev"
  BY <1>a, <1>b, <1>c
<1>2. \A k \in 1 .. n : sized[k] = [kind |-> list[k].kind, size |-> 2 + 2 + list[k].len]
  BY DEF Events!Sized, Events!Item
<1>3. \A k \in 1 .. n : list[k].kind \in EventKinds
  BY <1>1 DEF EventKinds
<1>4. \A k \in 1 .. n : sized[k] \in ItemTypes
  BY <1>1, <1>2, <1>3 DEF ItemTypes
<1>5. sized \in Seq(ItemTypes) /\ Len(sized) = n
  <2>1. sized \in [1 .. n -> ItemTypes]
    BY <1>4
  <2> HIDE DEF sized
  <2> QED BY <1>1, <2>1
<1>6. items = Append(sized, [kind |-> "done", size |-> 2])
  BY <1>1, EventSizes
<1>7. [kind |-> "done", size |-> 2] \in ItemTypes
  BY DEF ItemTypes, EventKinds
<1> HIDE DEF sized
<1>8. /\ items \in Seq(ItemTypes) /\ Len(items) = n + 1
      /\ items[n + 1] = [kind |-> "done", size |-> 2]
      /\ \A k \in 1 .. n : items[k] = sized[k]
  <2> DEFINE mark == [kind |-> "done", size |-> 2]
  <2>1. mark \in ItemTypes /\ items = Append(sized, mark)
    BY <1>6, <1>7
  <2> HIDE DEF mark
  <2>2. /\ items \in Seq(ItemTypes) /\ Len(items) = n + 1 /\ items[n + 1] = mark
        /\ \A k \in 1 .. n : items[k] = sized[k]
    BY <1>1, <1>5, <2>1
  <2> QED BY <2>2 DEF mark
<1>9. /\ items[n + 1].kind = "done" /\ items[n + 1].size = 2
      /\ \A k \in 1 .. n : items[k].kind = list[k].kind /\ items[k].size = 2 + 2 + list[k].len
  <2>1. items[n + 1].kind = "done" /\ items[n + 1].size = 2
    BY ONLY <1>8
  <2>2. ASSUME NEW k \in 1 .. n PROVE items[k].kind = list[k].kind /\ items[k].size = 2 + 2 + list[k].len
    <3> DEFINE len == 2 + 2 + list[k].len
    <3>1. items[k] = [kind |-> list[k].kind, size |-> len]
      BY <1>2, <1>8, Zenon
    <3> HIDE DEF len
    <3>2. items[k].kind = list[k].kind /\ items[k].size = len
      BY ONLY <3>1
    <3> QED BY ONLY <3>2 DEF len
  <2> QED BY <2>1, <2>2
<1>10. ASSUME NEW k \in 1 .. Len(items)
       PROVE  /\ items[k].size >= 2 /\ ~IsHead(items[k].kind)
              /\ items[k].kind = "done" <=> k = Len(items)
              /\ items[k].kind = "vnode" => k < Len(items) /\ items[k + 1].kind = "dev"
  <2>1. CASE k = n + 1
    BY <1>8, <1>9, <2>1 DEF IsHead
  <2>2. CASE k \in 1 .. n
    <3>1. items[k].kind = list[k].kind /\ items[k].size = 2 + 2 + list[k].len /\ list[k].len \in Nat
      BY <1>1, <1>9, <2>2
    <3>2. items[k].size >= 2 /\ ~IsHead(items[k].kind) /\ items[k].kind # "done"
      BY <1>1, <2>2, <3>1 DEF IsHead
    <3>3. ASSUME items[k].kind = "vnode" PROVE k < Len(items) /\ items[k + 1].kind = "dev"
      <4>1. k < n /\ list[k + 1].kind = "dev"
        BY <1>1, <2>2, <3>1, <3>3
      <4>2. k + 1 \in 1 .. n
        BY <1>1, <2>2, <4>1
      <4> QED BY <1>1, <1>8, <1>9, <4>1, <4>2
    <3>4. k # Len(items)
      BY <1>1, <1>8, <2>2
    <3> QED BY <3>2, <3>3, <3>4
  <2> QED BY <1>1, <1>8, <2>1, <2>2
<1>11. Len(items) \in 1 .. FSE_MAX_ARGS + 1
  BY <1>1, <1>8
<1> QED BY <1>8, <1>10, <1>11

(* An item that the driver copies.                                          *)
LEMMA ItemJoins ==
    ASSUME LoggerTypes, ret \in Nat, NEW item \in ItemTypes, Events!Copy(item)
    PROVE  /\ buffer' \in Seq(PlacedTypes) /\ Len(buffer') = Len(buffer) + 1
           /\ \A k \in 1 .. Len(buffer) : buffer'[k] = buffer[k]
           /\ buffer'[Len(buffer) + 1].kind = item.kind
           /\ buffer'[Len(buffer) + 1].size = item.size
           /\ buffer'[Len(buffer) + 1].at = ret
           /\ ret' = ret + item.size
           /\ UNCHANGED <<logger, open, off, kea, count, is_fse_arg_vnode, printed, reads>>
<1> DEFINE it == Events!Placed(item)
<1>1. it \in PlacedTypes /\ it.kind = item.kind /\ it.size = item.size /\ it.at = ret
  BY DEF Events!Placed, ItemTypes, PlacedTypes
<1>2. buffer' = Append(buffer, it) /\ buffer \in Seq(PlacedTypes)
  BY DEF Events!Copy, LoggerTypes
<1> HIDE DEF it
<1>3. /\ buffer' \in Seq(PlacedTypes) /\ Len(buffer') = Len(buffer) + 1
      /\ \A k \in 1 .. Len(buffer) : buffer'[k] = buffer[k]
      /\ buffer'[Len(buffer) + 1] = it
  BY <1>1, <1>2
<1> QED BY <1>1, <1>3 DEF Events!Copy

LEMMA LayoutGrows ==
    ASSUME LoggerTypes, Layout, reads > 0, NEW item \in ItemTypes, Events!Copy(item),
           item.size >= 2, item.kind \in {"event", "invalid"} => item.size = Events!Header,
           item.kind = "dropped" => item.size = Events!Header + Events!MarkSize
    PROVE  Layout'
<1> PICK n \in Nat : n = Len(buffer)
  BY DEF LoggerTypes
<1>1. ret \in Nat /\ StartOf(1) = 0
  BY DEF Layout
<1>2. /\ buffer' \in Seq(PlacedTypes) /\ Len(buffer') = n + 1
      /\ \A k \in 1 .. n : buffer'[k] = buffer[k]
      /\ buffer'[n + 1].kind = item.kind /\ buffer'[n + 1].size = item.size
      /\ buffer'[n + 1].at = ret /\ ret' = ret + item.size /\ reads' = reads
  BY <1>1, ItemJoins
<1>3. n \in Nat /\ item.size \in Nat
  BY DEF LoggerTypes, ItemTypes
<1>4. \A k \in 1 .. n : buffer[k].at \in Nat /\ buffer[k].size \in Nat
  <2>1. \A k \in 1 .. n : buffer[k] \in PlacedTypes
    BY DEF LoggerTypes
  <2> QED BY <2>1 DEF PlacedTypes
<1>5. \A k \in 1 .. n + 1 : StartOf(k)' = StartOf(k)
  <2>1. ASSUME NEW k \in 1 .. n PROVE StartOf(k)' = StartOf(k)
    BY <1>2, <1>3 DEF StartOf
  <2>2. StartOf(n + 1)' = StartOf(n + 1)
    BY <1>2, <1>3 DEF StartOf
  <2> QED BY <1>3, <2>1, <2>2
<1>6. StartOf(n + 2)' = ret'
  BY <1>2, <1>3 DEF StartOf
<1>7. StartOf(1)' = 0
  BY <1>1, <1>3, <1>5
<1> DEFINE Right(k) ==
        /\ buffer'[k].size >= 2
        /\ buffer'[k].kind \in {"event", "invalid"} => buffer'[k].size = Events!Header
        /\ buffer'[k].kind = "dropped" => buffer'[k].size = Events!Header + Events!MarkSize
        /\ StartOf(k + 1)' = buffer'[k].at + buffer'[k].size
        /\ buffer'[k].at + buffer'[k].size <= ret'
<1>8. ASSUME NEW k \in 1 .. n PROVE Right(k)
  <2>1. /\ buffer[k].size >= 2
        /\ buffer[k].kind \in {"event", "invalid"} => buffer[k].size = Events!Header
        /\ buffer[k].kind = "dropped" => buffer[k].size = Events!Header + Events!MarkSize
        /\ StartOf(k + 1) = buffer[k].at + buffer[k].size
        /\ buffer[k].at + buffer[k].size <= ret
    BY DEF Layout
  <2>2. k + 1 \in 1 .. n + 1
    BY <1>3
  <2>3. StartOf(k + 1)' = StartOf(k + 1)
    BY <1>5, <2>2
  <2>4. buffer'[k] = buffer[k]
    BY <1>2
  <2>5. buffer[k].at + buffer[k].size <= ret'
    BY <1>1, <1>2, <1>3, <1>4, <2>1
  <2> QED BY <2>1, <2>3, <2>4, <2>5
<1>9. Right(n + 1)
  <2>1. StartOf((n + 1) + 1)' = ret'
    BY <1>3, <1>6
  <2>2. buffer'[n + 1].at + buffer'[n + 1].size = ret'
    BY <1>2
  <2> QED BY <1>1, <1>2, <1>3, <2>1, <2>2
<1>10. ASSUME NEW k \in 1 .. Len(buffer'), NEW m \in 1 .. Len(buffer'), k < m
       PROVE  buffer'[k].at + buffer'[k].size <= buffer'[m].at
  <2>1. k \in 1 .. n
    BY <1>2, <1>3, <1>10
  <2>2. CASE m \in 1 .. n
    BY <1>2, <1>10, <2>1, <2>2 DEF Layout
  <2>3. CASE m = n + 1
    BY <1>2, <2>1, <2>3 DEF Layout
  <2> QED BY <1>2, <1>3, <2>2, <2>3
<1>11. \A k \in 1 .. Len(buffer') : Right(k)
  <2>1. \A k \in 1 .. Len(buffer') : k \in 1 .. n \/ k = n + 1
    BY <1>2, <1>3
  <2> HIDE DEF Right
  <2> QED BY <1>8, <1>9, <2>1
<1>12. ret' \in Nat
  BY <1>1, <1>2, <1>3
<1> QED BY <1>7, <1>10, <1>11, <1>12 DEF Layout

LEMMA GrammarGrows ==
    ASSUME LoggerTypes, Grammar, ret \in Nat, NEW n \in Nat, n = Len(buffer), FSE_MAX_ARGS \in Nat,
           NEW item \in ItemTypes, Events!Copy(item),
           IsHead(item.kind) <=> buffer = <<>> \/ Closes(buffer[Len(buffer)].kind),
           buffer # <<>> /\ buffer[Len(buffer)].kind = "vnode" => item.kind = "dev",
           ~Closes(item.kind) =>
              \A h \in 1 .. n : Under(h, n) => n + 1 - h <= FSE_MAX_ARGS
    PROVE  /\ Grammar'
           /\ \A h \in 1 .. n + 1 :
                 Under(h, n + 1)' =>
                    IF h <= n THEN Under(h, n) /\ ~IsHead(item.kind) /\ ~Closes(item.kind)
                              ELSE item.kind \in {"event", "invalid"}
<1>1. /\ Len(buffer') = n + 1 /\ \A k \in 1 .. n : buffer'[k] = buffer[k]
      /\ buffer'[n + 1].kind = item.kind
  BY ItemJoins
<1>2. n \in Nat /\ (buffer = <<>> <=> n = 0)
  BY DEF LoggerTypes
<1>3. \A k \in 1 .. n : \A h \in 1 .. k : Under(h, k)' <=> Under(h, k)
  BY <1>1, <1>2 DEF Under
<1>4. \A h \in 1 .. n : Under(h, n + 1)' <=> Under(h, n) /\ ~IsHead(item.kind) /\ ~Closes(item.kind)
  <2> TAKE h \in 1 .. n
  <2>1. Under(h, n + 1)' => Under(h, n) /\ ~IsHead(item.kind) /\ ~Closes(item.kind)
    BY <1>1, <1>2 DEF Under
  <2>2. ASSUME Under(h, n), ~IsHead(item.kind), ~Closes(item.kind) PROVE Under(h, n + 1)'
    <3>1. ASSUME NEW m \in 1 .. n + 1, m > h
          PROVE  ~IsHead(buffer'[m].kind) /\ ~Closes(buffer'[m].kind)
      <4>1. CASE m = n + 1
        BY <1>1, <2>2, <4>1
      <4>2. CASE m \in 1 .. n
        BY <1>1, <2>2, <3>1, <4>2 DEF Under
      <4> QED BY <1>2, <4>1, <4>2
    <3>2. h \in 1 .. n + 1 /\ buffer'[h].kind \in {"event", "invalid"}
      BY <1>1, <1>2, <2>2 DEF Under
    <3> QED BY <3>1, <3>2 DEF Under, IsHead, Closes
  <2> QED BY <2>1, <2>2
<1>5. Under(n + 1, n + 1)' <=> item.kind \in {"event", "invalid"}
  BY <1>1, <1>2 DEF Under
<1> DEFINE Right(k) ==
       /\ IsHead(buffer'[k].kind) <=> k = 1 \/ Closes(buffer'[k - 1].kind)
       /\ k > 1 /\ buffer'[k - 1].kind = "vnode" => buffer'[k].kind = "dev"
       /\ ~Closes(buffer'[k].kind) => \E h \in 1 .. k : Under(h, k)'
       /\ \A h \in 1 .. k : Under(h, k)' => k - h <= FSE_MAX_ARGS
<1>6. ASSUME NEW k \in 1 .. n PROVE Right(k)
  <2>1. buffer'[k] = buffer[k] /\ (k > 1 => buffer'[k - 1] = buffer[k - 1])
    BY <1>1, <1>2
  <2>2. /\ IsHead(buffer[k].kind) <=> k = 1 \/ Closes(buffer[k - 1].kind)
        /\ k > 1 /\ buffer[k - 1].kind = "vnode" => buffer[k].kind = "dev"
        /\ ~Closes(buffer[k].kind) => \E h \in 1 .. k : Under(h, k)
        /\ \A h \in 1 .. k : Under(h, k) => k - h <= FSE_MAX_ARGS
    BY DEF Grammar
  <2>3. k = 1 \/ k > 1
    BY <1>2
  <2> QED BY <1>3, <2>1, <2>2, <2>3
<1>7. Right(n + 1)
  <2>1. n > 0 => buffer'[(n + 1) - 1] = buffer[n]
    BY <1>1, <1>2
  <2>2. IsHead(buffer'[n + 1].kind) <=> n + 1 = 1 \/ Closes(buffer'[(n + 1) - 1].kind)
    BY <1>1, <1>2, <2>1
  <2>3. n + 1 > 1 /\ buffer'[(n + 1) - 1].kind = "vnode" => buffer'[n + 1].kind = "dev"
    BY <1>1, <1>2, <2>1
  <2>4. ASSUME ~Closes(buffer'[n + 1].kind) PROVE \E h \in 1 .. n + 1 : Under(h, n + 1)'
    <3>1. CASE IsHead(item.kind)
      <4>1. item.kind \in {"event", "invalid"}
        BY <1>1, <2>4, <3>1 DEF IsHead, Closes
      <4> QED BY <1>2, <1>5, <4>1
    <3>2. CASE ~IsHead(item.kind)
      <4>1. n \in 1 .. n /\ ~Closes(buffer[n].kind) /\ ~Closes(item.kind)
        BY <1>1, <1>2, <2>4, <3>2
      <4>2. PICK h \in 1 .. n : Under(h, n)
        BY <4>1 DEF Grammar
      <4>3. Under(h, n + 1)' /\ h \in 1 .. n + 1
        BY <1>2, <1>4, <3>2, <4>1, <4>2
      <4> QED BY <4>3
    <3> QED BY <3>1, <3>2
  <2>5. ASSUME NEW h \in 1 .. n + 1, Under(h, n + 1)' PROVE (n + 1) - h <= FSE_MAX_ARGS
    <3>1. CASE h = n + 1
      BY <1>2, <3>1
    <3>2. CASE h \in 1 .. n
      BY <1>4, <2>5, <3>2
    <3> QED BY <1>2, <3>1, <3>2
  <2> QED BY <2>2, <2>3, <2>4, <2>5
<1>8. \A k \in 1 .. Len(buffer') : Right(k)
  <2>1. \A k \in 1 .. Len(buffer') : k \in 1 .. n \/ k = n + 1
    BY <1>1, <1>2
  <2> HIDE DEF Right
  <2> QED BY <1>6, <1>7, <2>1
<1>9. Grammar'
  BY <1>8 DEF Grammar
<1>10. ASSUME NEW h \in 1 .. n + 1, Under(h, n + 1)'
       PROVE  IF h <= n THEN Under(h, n) /\ ~IsHead(item.kind) /\ ~Closes(item.kind)
                        ELSE item.kind \in {"event", "invalid"}
  <2>1. h \in 1 .. n \/ (h = n + 1 /\ ~(h <= n))
    BY <1>2
  <2> QED BY <1>2, <1>4, <1>5, <1>10, <2>1
<1> QED BY <1>9, <1>10

(* One more item in the buffer, whichever.                                  *)
LEMMA Copied ==
    ASSUME LoggerInv, FSE_MAX_ARGS \in Nat, NEW item \in ItemTypes, Events!Copy(item), logger = "reading",
           due' \in Seq(ItemTypes)
    PROVE  /\ LoggerTypes' /\ Progress' /\ ret \in Nat /\ reads > 0
           /\ buffer'[Len(buffer')].kind = item.kind /\ buffer' # <<>> /\ Len(buffer') = Len(buffer) + 1
<1> USE DEF LoggerInv
<1>1. ret \in Nat /\ reads > 0
  BY DEF LoggerTypes, Layout
<1>2. /\ buffer' \in Seq(PlacedTypes) /\ Len(buffer') = Len(buffer) + 1
      /\ buffer'[Len(buffer) + 1].kind = item.kind /\ ret' = ret + item.size
      /\ UNCHANGED <<logger, open, off, kea, count, is_fse_arg_vnode, printed, reads>>
  BY <1>1, ItemJoins
<1>3. item.size \in Nat
  BY DEF ItemTypes
<1>4. LoggerTypes'
  BY <1>1, <1>2, <1>3 DEF LoggerTypes
<1>5. Progress'
  BY <1>2 DEF Progress
<1>6. buffer' # <<>>
  BY <1>2 DEF LoggerTypes
<1> QED BY <1>1, <1>2, <1>4, <1>5, <1>6

LEMMA CopyEventStep ==
    ASSUME Events!ArgumentsAssumption, LoggerInv, Events!CopyEvent
    PROVE  LoggerInv'
<1> PICK n \in Nat : n = Len(buffer)
  BY DEF LoggerInv, LoggerTypes
<1>1. /\ FSE_MAX_ARGS \in Nat /\ logger = "reading" /\ due = <<>> /\ reads > 0
  BY DEF Events!ArgumentsAssumption, Events!CopyEvent, LoggerInv, LoggerTypes
<1>2. buffer = <<>> \/ Closes(buffer[n].kind)
  BY <1>1 DEF LoggerInv, Remainder
<1>3. buffer # <<>> => buffer[n].kind # "vnode"
  BY <1>2 DEF Closes
<1>4. ASSUME NEW kind \in {"event", "invalid"}, Events!Copy(Events!Item(kind, Events!Header)),
             \E list \in EventArguments : due' = Append([k \in DOMAIN list |-> Events!Sized(list[k])], Events!Mark)
      PROVE  LoggerInv'
  <2> PICK list \in EventArguments : due' = Append([k \in DOMAIN list |-> Events!Sized(list[k])], Events!Mark)
    BY <1>4
  <2> DEFINE item == Events!Item(kind, Events!Header)
  <2>1. /\ item \in ItemTypes /\ item.kind \in {"event", "invalid"} /\ item.size = Events!Header /\ Events!Header >= 2
        /\ IsHead(kind) /\ ~Closes(kind) /\ item.kind = kind /\ IsHead(item.kind) /\ ~Closes(item.kind)
    BY EventSizes DEF ItemTypes, EventKinds, IsHead, Closes
  <2>2. /\ due' \in Seq(ItemTypes) /\ Len(due') \in 1 .. FSE_MAX_ARGS + 1
        /\ \A k \in 1 .. Len(due') :
              /\ due'[k].size >= 2 /\ ~IsHead(due'[k].kind)
              /\ due'[k].kind = "done" <=> k = Len(due')
              /\ due'[k].kind = "vnode" => k < Len(due') /\ due'[k + 1].kind = "dev"
    <3> DEFINE items == Append([k \in DOMAIN list |-> Events!Sized(list[k])], Events!Mark)
    <3>1. /\ items \in Seq(ItemTypes) /\ Len(items) \in 1 .. FSE_MAX_ARGS + 1
          /\ \A k \in 1 .. Len(items) :
                /\ items[k].size >= 2 /\ ~IsHead(items[k].kind)
                /\ items[k].kind = "done" <=> k = Len(items)
                /\ items[k].kind = "vnode" => k < Len(items) /\ items[k + 1].kind = "dev"
      BY EventItems
    <3>2. due' = items
      OBVIOUS
    <3> HIDE DEF items
    <3> QED BY ONLY <3>1, <3>2
  <2>a. Events!Copy(item)
    BY <1>4
  <2> HIDE DEF item
  <2>3. /\ LoggerTypes' /\ Progress' /\ ret \in Nat /\ reads > 0 
        /\ buffer'[Len(buffer')].kind \in {"event", "invalid"} /\ buffer' # <<>> /\ Len(buffer') = n + 1
    BY <1>1, <2>1, <2>2, <2>a, Copied
  <2>4. Layout'
    BY <1>1, <2>1, <2>a, LayoutGrows DEF LoggerInv
  <2>5. \A h \in 1 .. n : ~Under(h, n)
    BY <1>2 DEF Under, Closes, LoggerInv, LoggerTypes
  <2>6. /\ Grammar'
        /\ \A h \in 1 .. n + 1 :
                 Under(h, n + 1)' =>
                    IF h <= n THEN Under(h, n) /\ ~IsHead(item.kind) /\ ~Closes(item.kind)
                              ELSE item.kind \in {"event", "invalid"}
    BY <1>1, <1>2, <1>3, <2>1, <2>3, <2>5, <2>a, GrammarGrows DEF LoggerInv
  <2>7. ASSUME NEW h \in 1 .. n + 1, Under(h, n + 1)' PROVE (n + 1) - h + Len(due') <= FSE_MAX_ARGS + 1
    <3>1. h = n + 1
      BY <2>1, <2>6, <2>7
    <3> QED BY <2>2, <3>1
  <2>8. due' # <<>>
    <3>1. Len(due') # 0 /\ Len(<<>>) = 0
      BY <2>2
    <3> QED BY <3>1, Zenon
  <2>9. logger' = "reading"
    BY <1>1, <2>a DEF Events!Copy
  <2>10. Remainder'
    <3>1. ~(buffer' = <<>> \/ Closes(buffer'[Len(buffer')].kind))
      BY <2>3 DEF Closes
    <3>2. ~(buffer'[Len(buffer')].kind = "vnode")
      BY <2>3
    <3>3. \A h \in 1 .. n + 1 :
             Under(h, Len(buffer))' => Len(buffer') - h + Len(due') <= FSE_MAX_ARGS + 1
      BY <2>3, <2>7 DEF Under
    <3> QED BY <2>2, <2>3, <2>8, <2>9, <3>1, <3>2, <3>3 DEF Remainder
  <2> QED BY <2>3, <2>4, <2>6, <2>10 DEF LoggerInv
<1>5. CASE Events!Copy(Events!Item("dropped", Events!Header + Events!MarkSize)) /\ due' = due
  <2> DEFINE item == Events!Item("dropped", Events!Header + Events!MarkSize)
  <2>1. /\ item \in ItemTypes /\ item.kind = "dropped" /\ item.size = Events!Header + Events!MarkSize
        /\ item.size >= 2 /\ IsHead("dropped") /\ Closes("dropped")
    BY EventSizes DEF ItemTypes, EventKinds, IsHead, Closes
  <2>2. due' \in Seq(ItemTypes) /\ due' = <<>>
    BY <1>1, <1>5 DEF LoggerInv, LoggerTypes
  <2>a. Events!Copy(item)
    BY <1>5
  <2> HIDE DEF item
  <2>3. /\ LoggerTypes' /\ Progress' /\ ret \in Nat /\ reads > 0
        /\ buffer'[Len(buffer')].kind = "dropped" /\ buffer' # <<>> /\ Len(buffer') = n + 1
    BY <1>1, <2>1, <2>2, <2>a, Copied
  <2>4. Layout'
    BY <1>1, <2>1, <2>a, LayoutGrows DEF LoggerInv
  <2>6. /\ Grammar'
        /\ \A h \in 1 .. n + 1 :
                 Under(h, n + 1)' =>
                    IF h <= n THEN Under(h, n) /\ ~IsHead(item.kind) /\ ~Closes(item.kind)
                              ELSE item.kind \in {"event", "invalid"}
    BY <1>1, <1>2, <1>3, <2>1, <2>3, <2>a, GrammarGrows DEF LoggerInv
  <2>7. \A h \in 1 .. n + 1 : ~Under(h, n + 1)'
    BY <2>1, <2>6
  <2>9. logger' = "reading" /\ Len(due') = 0
    BY <1>1, <2>2, <2>a DEF Events!Copy
  <2>10. Remainder'
    BY <2>1, <2>2, <2>3, <2>7, <2>9 DEF Remainder
  <2> QED BY <2>3, <2>4, <2>6, <2>10 DEF LoggerInv
<1> QED BY <1>4, <1>5 DEF Events!CopyEvent

LEMMA CopyArgumentStep ==
    ASSUME Events!ArgumentsAssumption, LoggerInv, Events!CopyArgument
    PROVE  LoggerInv'
<1> PICK n \in Nat : n = Len(buffer)
  BY DEF LoggerInv, LoggerTypes
<1> PICK d \in Nat : d = Len(due)
  BY DEF LoggerInv, LoggerTypes
<1> DEFINE item == due[1]
<1>1. /\ FSE_MAX_ARGS \in Nat /\ logger = "reading" /\ due # <<>> /\ reads > 0
  BY DEF Events!ArgumentsAssumption, Events!CopyArgument, LoggerInv, LoggerTypes
<1>2. /\ due \in Seq(ItemTypes) /\ d >= 1
  BY <1>1 DEF LoggerInv, LoggerTypes
<1>3. Events!Copy(item) /\ item \in ItemTypes
  BY <1>2 DEF Events!CopyArgument
<1>4. /\ due' \in Seq(ItemTypes) /\ Len(due') = d - 1
      /\ \A k \in 1 .. d - 1 : due'[k] = due[k + 1]
  BY <1>2 DEF Events!CopyArgument
<1>5. /\ buffer # <<>> /\ n > 0 /\ ~Closes(buffer[n].kind)
      /\ buffer[n].kind = "vnode" => item.kind = "dev"
      /\ \A h \in 1 .. n : Under(h, n) => n - h + d <= FSE_MAX_ARGS + 1
      /\ \A k \in 1 .. d :
            /\ due[k].size >= 2 /\ ~IsHead(due[k].kind)
            /\ due[k].kind = "done" <=> k = d
            /\ due[k].kind = "vnode" => k < d /\ due[k + 1].kind = "dev"
  BY <1>1 DEF LoggerInv, Remainder, LoggerTypes
<1>6. /\ item.size >= 2 /\ ~IsHead(item.kind) /\ item.kind \notin {"event", "invalid", "dropped"}
      /\ Closes(item.kind) <=> d = 1
      /\ item.kind = "vnode" => d > 1 /\ due[2].kind = "dev"
  <2>1. 1 \in 1 .. d
    BY <1>2
  <2>2. /\ item.size >= 2 /\ ~IsHead(item.kind) /\ (item.kind = "done" <=> 1 = d)
        /\ item.kind = "vnode" => 1 < d /\ due[1 + 1].kind = "dev"
    BY <1>5, <2>1
  <2> QED BY <2>2 DEF IsHead, Closes
<1> HIDE DEF item
<1>7. /\ LoggerTypes' /\ Progress' /\ ret \in Nat /\ reads > 0
      /\ buffer'[Len(buffer')].kind = item.kind /\ buffer' # <<>> /\ Len(buffer') = n + 1
  BY <1>1, <1>3, <1>4, Copied
<1>8. Layout'
  BY <1>1, <1>3, <1>6, LayoutGrows DEF LoggerInv
<1>9. ~Closes(item.kind) => \A h \in 1 .. n : Under(h, n) => n + 1 - h <= FSE_MAX_ARGS
  BY <1>1, <1>2, <1>5, <1>6
<1>10. /\ Grammar'
       /\ \A h \in 1 .. n + 1 :
                 Under(h, n + 1)' =>
                    IF h <= n THEN Under(h, n) /\ ~IsHead(item.kind) /\ ~Closes(item.kind)
                              ELSE item.kind \in {"event", "invalid"}
  BY <1>1, <1>3, <1>5, <1>6, <1>7, <1>9, GrammarGrows DEF LoggerInv
<1>11. ASSUME NEW h \in 1 .. n + 1, Under(h, n + 1)' PROVE (n + 1) - h + Len(due') <= FSE_MAX_ARGS + 1
  <2>1. h \in 1 .. n /\ Under(h, n)
    BY <1>6, <1>10, <1>11
  <2> QED BY <1>1, <1>4, <1>5, <2>1
<1>12. due' = <<>> <=> Closes(item.kind)
  BY <1>2, <1>4, <1>6
<1>13. ASSUME NEW k \in 1 .. Len(due')
       PROVE  /\ due'[k].size >= 2 /\ ~IsHead(due'[k].kind)
              /\ due'[k].kind = "done" <=> k = Len(due')
              /\ due'[k].kind = "vnode" => k < Len(due') /\ due'[k + 1].kind = "dev"
  <2>1. k + 1 \in 1 .. d /\ due'[k] = due[k + 1]
    BY <1>2, <1>4
  <2>2. k + 1 < d => due'[k + 1] = due[(k + 1) + 1]
    BY <1>2, <1>4
  <2>3. /\ due[k + 1].size >= 2 /\ ~IsHead(due[k + 1].kind)
        /\ due[k + 1].kind = "done" <=> k + 1 = d
        /\ due[k + 1].kind = "vnode" => k + 1 < d /\ due[(k + 1) + 1].kind = "dev"
    BY <1>5, <2>1
  <2>4. k + 1 = d <=> k = Len(due')
    BY <1>4
  <2> QED BY <1>4, <2>1, <2>2, <2>3, <2>4
<1>14. due' # <<>> /\ item.kind = "vnode" => due'[1].kind = "dev"
  BY <1>2, <1>4, <1>6
<1>15. logger' = "reading"
  BY <1>1, <1>3 DEF Events!Copy
<1>16. Remainder'
  BY <1>7, <1>11, <1>12, <1>13, <1>14, <1>15 DEF Remainder
<1> QED BY <1>7, <1>8, <1>10, <1>16 DEF LoggerInv
-----------------------------------------------------------------------------
(* Reading the buffer.  At off lies the item after those that have been      *)
(* printed.                                                                 *)
LEMMA ItemAtOffset ==
    ASSUME LoggerTypes, Layout, reads > 0, NEW k \in 1 .. Len(buffer), off = StartOf(k)
    PROVE  Events!At(off) = buffer[k] /\ off < ret /\ off = buffer[k].at
<1>1. \A m \in 1 .. Len(buffer) : buffer[m].at \in Nat /\ buffer[m].size \in Nat
  <2>1. \A m \in 1 .. Len(buffer) : buffer[m] \in PlacedTypes
    BY DEF LoggerTypes
  <2> QED BY <2>1 DEF PlacedTypes
<1>2. off = buffer[k].at
  BY DEF StartOf
<1>3. \A m \in 1 .. Len(buffer) : buffer[m].size >= 2 /\ buffer[m].at + buffer[m].size <= ret
  BY DEF Layout
<1>4. \A m \in 1 .. Len(buffer) : buffer[m].at = off => m = k
  <2> TAKE m \in 1 .. Len(buffer)
  <2>1. m < k => buffer[m].at + buffer[m].size <= buffer[k].at
    BY DEF Layout
  <2>2. k < m => buffer[k].at + buffer[k].size <= buffer[m].at
    BY DEF Layout
  <2> QED BY <1>1, <1>2, <1>3, <2>1, <2>2
<1>5. DOMAIN buffer = 1 .. Len(buffer)
  BY DEF LoggerTypes
<1>6. {m \in DOMAIN buffer : buffer[m].at = off} = {k}
  BY <1>2, <1>4, <1>5
<1>7. (CHOOSE m \in {k} : TRUE) = k
  OBVIOUS
<1>8. {k} # {}
  OBVIOUS
<1>9. Events!At(off) = buffer[k]
  BY <1>6, <1>7, <1>8, Zenon DEF Events!At
<1>10. ret \in Nat
  BY DEF Layout
<1> QED BY <1>1, <1>2, <1>3, <1>9, <1>10

LEMMA SameBuffer ==
    ASSUME LoggerInv, UNCHANGED <<buffer, due, ret, reads>>, logger' = "reading" => logger = "reading",
           logger' # "reading" => due = <<>>
    PROVE  Layout' /\ Grammar' /\ Remainder'
<1>1. \A k \in Nat : StartOf(k)' = StartOf(k)
  BY DEF StartOf
<1>2. \A h, k \in Nat : Under(h, k)' <=> Under(h, k)
  BY DEF Under
<1>3. Layout'
  BY <1>1 DEF LoggerInv, Layout, StartOf
<1>4. Grammar'
  <2>1. \A k \in 1 .. Len(buffer) : k \in Nat /\ \A h \in 1 .. k : h \in Nat
    BY DEF LoggerInv, LoggerTypes
  <2> QED BY <1>2, <2>1 DEF LoggerInv, Grammar
<1>5. Remainder'
  BY <1>2 DEF LoggerInv, Remainder, Under
<1> QED BY <1>3, <1>4, <1>5

LEMMA ReadSteps ==
    ASSUME Events!ArgumentsAssumption, LoggerInv,
           Events!Setup \/ Events!Clone \/ Events!Read \/ Events!ReadReturns
    PROVE  LoggerInv'
<1> USE DEF LoggerInv
<1>1. CASE Events!Setup
  <2>1. LoggerTypes' /\ Progress'
    BY <1>1 DEF Events!Setup, LoggerTypes, Progress
  <2>2. Layout' /\ Grammar' /\ Remainder'
    BY <1>1, SameBuffer DEF Events!Setup, Remainder
  <2> QED BY <2>1, <2>2
<1>2. CASE Events!Clone
  <2>1. LoggerTypes' /\ Progress'
    BY <1>2 DEF Events!Clone, LoggerTypes, Progress
  <2>2. Layout' /\ Grammar' /\ Remainder'
    BY <1>2, SameBuffer DEF Events!Clone, Remainder
  <2> QED BY <2>1, <2>2
<1>3. CASE Events!Read
  <2>1. /\ logger = "read" /\ logger' = "reading" /\ buffer' = <<>> /\ ret' = 0 /\ reads' = reads + 1
        /\ UNCHANGED <<open, due, off, kea, count, is_fse_arg_vnode, printed>>
    BY <1>3 DEF Events!Read
  <2>2. LoggerTypes' /\ Progress'
    BY <2>1 DEF LoggerTypes, Progress
  <2>3. Len(buffer') = 0 /\ due' = <<>> /\ Len(due') = 0
    BY <2>1 DEF Remainder
  <2>4. Layout'
    BY <2>1, <2>3 DEF Layout, StartOf
  <2>5. Grammar' /\ Remainder'
    BY <2>1, <2>3 DEF Grammar, Remainder
  <2> QED BY <2>2, <2>4, <2>5
<1>4. CASE Events!ReadReturns
  <2>1. /\ logger = "reading" /\ due = <<>> /\ off' = 0 /\ printed' = <<>>
        /\ logger' = (IF ret > 0 THEN "event" ELSE "read") /\ reads > 0
        /\ UNCHANGED <<open, buffer, due, ret, kea, count, is_fse_arg_vnode, reads>>
    BY <1>4 DEF Events!ReadReturns, LoggerTypes
  <2>2. LoggerTypes'
    BY <2>1 DEF LoggerTypes
  <2>3. Layout' /\ Grammar' /\ Remainder'
    BY <2>1, SameBuffer
  <2>4. ret \in Nat /\ StartOf(1)' = 0 /\ Len(printed') = 0
    BY <2>1 DEF Layout, StartOf
  <2>5. CASE ret > 0
    <3>1. off' = StartOf(0 + 1)' /\ logger' = "event" /\ 0 <= Len(buffer')
      BY <2>1, <2>2, <2>4, <2>5 DEF LoggerTypes
    <3> QED BY <2>1, <2>2, <2>3, <2>4, <3>1 DEF Progress
  <2>6. CASE ~(ret > 0)
    <3>1. Len(buffer) = 0
      <4> PICK n \in Nat : n = Len(buffer)
        BY DEF LoggerTypes
      <4>1. ASSUME n > 0 PROVE FALSE
        <5>1. n \in 1 .. n /\ buffer[n] \in PlacedTypes
          BY <4>1 DEF LoggerTypes
        <5>2. buffer[n].at \in Nat /\ buffer[n].size >= 2 /\ buffer[n].size \in Nat
              /\ buffer[n].at + buffer[n].size <= ret
          BY <5>1 DEF Layout, PlacedTypes
        <5> QED BY <2>4, <2>6, <5>2
      <4> QED BY <4>1
    <3>2. Events!Meant' = <<>>
      BY <2>1, <3>1 DEF Events!Meant, LoggerTypes
    <3> QED BY <2>1, <2>2, <2>3, <2>4, <2>6, <3>2 DEF Progress
  <2> QED BY <2>5, <2>6
<1> QED BY <1>1, <1>2, <1>3, <1>4

(* Printing one more item, at least as it is meant.                         *)
LEMMA OneMorePrinted ==
    ASSUME LoggerTypes, Layout, reads > 0, UNCHANGED <<buffer, ret>>,
           NEW n \in Nat, n = Len(printed), n < Len(buffer), off = StartOf(n + 1),
           \A k \in 1 .. n : printed[k] = Events!Meant[k],
           NEW text \in EventKinds \cup {"fsid"}, text = Events!Meant[n + 1],
           printed' = Append(printed, text), off' = off + buffer[n + 1].size
    PROVE  /\ printed' \in Seq(EventKinds \cup {"fsid"}) /\ Len(printed') = n + 1 /\ n + 1 <= Len(buffer')
           /\ off' = StartOf(Len(printed) + 1)' /\ off' \in Int
           /\ \A k \in 1 .. Len(printed') : printed'[k] = Events!Meant'[k]
<1>1. Len(buffer) \in Nat /\ n + 1 \in 1 .. Len(buffer) /\ printed \in Seq(EventKinds \cup {"fsid"})
  BY DEF LoggerTypes
<1>2. /\ printed' \in Seq(EventKinds \cup {"fsid"}) /\ Len(printed') = n + 1
      /\ printed'[n + 1] = text /\ \A k \in 1 .. n : printed'[k] = printed[k]
  BY <1>1
<1>3. off = buffer[n + 1].at /\ StartOf((n + 1) + 1) = buffer[n + 1].at + buffer[n + 1].size
  BY <1>1 DEF StartOf, Layout
<1>4. off' = StartOf((n + 1) + 1)
  BY <1>3
<1>5. StartOf(Len(printed) + 1)' = StartOf((n + 1) + 1)
  BY <1>2 DEF StartOf
<1>6. Events!Meant' = Events!Meant
  BY DEF Events!Meant
<1>7. \A k \in 1 .. Len(printed') : printed'[k] = Events!Meant'[k]
  <2> TAKE k \in 1 .. Len(printed')
  <2>1. k \in 1 .. n \/ k = n + 1
    BY <1>2
  <2> QED BY <1>2, <1>6, <2>1, Zenon
<1>8. off' \in Int
  <2>1. buffer[n + 1] \in PlacedTypes
    BY <1>1 DEF LoggerTypes
  <2> QED BY <1>3, <2>1 DEF PlacedTypes
<1> QED BY <1>1, <1>2, <1>4, <1>5, <1>7, <1>8

LEMMA EventStep ==
    ASSUME Events!ArgumentsAssumption, LoggerInv, Events!Event
    PROVE  LoggerInv'
<1> USE DEF LoggerInv
<1> PICK n \in Nat : n = Len(printed)
  BY DEF LoggerTypes
<1>1. /\ logger = "event" /\ off < ret /\ reads > 0 /\ n <= Len(buffer) /\ Len(buffer) \in Nat
      /\ off = StartOf(n + 1) /\ ~is_fse_arg_vnode /\ due = <<>>
      /\ \A k \in 1 .. n : printed[k] = Events!Meant[k]
      /\ UNCHANGED <<open, buffer, due, ret, is_fse_arg_vnode, reads>>
  BY DEF Events!Event, LoggerTypes, Progress, Remainder
<1>2. n < Len(buffer)
  <2>1. n # Len(buffer)
    BY <1>1 DEF StartOf, LoggerTypes
  <2> QED BY <1>1, <2>1
<1>3. n + 1 \in 1 .. Len(buffer)
  BY <1>1, <1>2
<1>4. Events!At(off) = buffer[n + 1] /\ off = buffer[n + 1].at
  BY <1>1, <1>3, ItemAtOffset
<1>5. IsHead(buffer[n + 1].kind)
  <2>1. n = 0 \/ Closes(buffer[n].kind)
    BY <1>1 DEF Progress
  <2>2. IsHead(buffer[n + 1].kind) <=> n + 1 = 1 \/ Closes(buffer[(n + 1) - 1].kind)
    BY <1>3 DEF Grammar
  <2> QED BY <2>1, <2>2
<1>6. /\ buffer[n + 1].kind \in EventKinds
      /\ buffer[n + 1].kind \in {"event", "invalid"} => buffer[n + 1].size = Events!Header
      /\ buffer[n + 1].kind = "dropped" => buffer[n + 1].size = Events!Header + Events!MarkSize
  <2>1. buffer[n + 1] \in PlacedTypes
    BY <1>3 DEF LoggerTypes
  <2> QED BY <1>3, <2>1 DEF PlacedTypes, Layout
<1>7. Events!Meant[n + 1] = buffer[n + 1].kind
  <2>1. n + 1 \in DOMAIN buffer
    BY <1>3 DEF LoggerTypes
  <2> QED BY <1>5, <2>1 DEF Events!Meant, IsHead
<1>8. printed' = Append(printed, buffer[n + 1].kind)
  BY <1>4 DEF Events!Event
<1>9. /\ off' = off + buffer[n + 1].size
      /\ \/ buffer[n + 1].kind = "dropped" /\ logger' = "event" /\ UNCHANGED <<kea, count>>
         \/ buffer[n + 1].kind \in {"event", "invalid"} /\ logger' = "argument" /\ kea' = off' /\ count' = 0
  <2>1. CASE buffer[n + 1].kind = "dropped"
    <3>1. off' = off + Events!Header + Events!MarkSize /\ UNCHANGED <<logger, kea, count>>
      BY <1>4, <2>1 DEF Events!Event
    <3>2. off' = off + (Events!Header + Events!MarkSize)
      BY <3>1, EventSizes DEF LoggerTypes
    <3> QED BY <1>1, <1>6, <2>1, <3>1, <3>2
  <2>2. CASE buffer[n + 1].kind \in {"event", "invalid"}
    <3>1. off' = off + Events!Header /\ kea' = off + Events!Header /\ count' = 0 /\ logger' = "argument"
      BY <1>4, <2>2 DEF Events!Event
    <3> QED BY <1>6, <2>2, <3>1
  <2> QED BY <1>5, <2>1, <2>2 DEF IsHead
<1>10. /\ printed' \in Seq(EventKinds \cup {"fsid"}) /\ Len(printed') = n + 1 /\ n + 1 <= Len(buffer')
       /\ off' = StartOf(Len(printed) + 1)' /\ off' \in Int
       /\ \A k \in 1 .. Len(printed') : printed'[k] = Events!Meant'[k]
  BY <1>1, <1>2, <1>6, <1>7, <1>8, <1>9, OneMorePrinted
<1>11. Layout' /\ Grammar' /\ Remainder'
  BY <1>1, <1>9, SameBuffer
<1>12. FSE_MAX_ARGS \in Nat
  BY DEF Events!ArgumentsAssumption
<1>13. LoggerTypes'
  BY <1>1, <1>9, <1>10, <1>12 DEF LoggerTypes
<1>14. CASE buffer[n + 1].kind = "dropped" /\ logger' = "event"
  <2>1. Closes(buffer'[Len(printed')].kind)
    BY <1>1, <1>10, <1>14 DEF Closes
  <2>2. ~is_fse_arg_vnode'
    BY <1>1
  <2>3. Progress'
    BY <1>10, <1>14, <2>1, <2>2 DEF Progress
  <2> QED BY <1>11, <1>13, <2>3
<1>15. CASE buffer[n + 1].kind \in {"event", "invalid"} /\ logger' = "argument" /\ kea' = off' /\ count' = 0
  <2>1. ~Closes(buffer'[Len(printed')].kind) /\ buffer'[Len(printed')].kind # "vnode"
    BY <1>1, <1>10, <1>15 DEF Closes
  <2>2. ~is_fse_arg_vnode'
    BY <1>1
  <2>3. n + 1 \in 1 .. Len(printed') /\ Under(n + 1, Len(printed))' /\ count' = Len(printed') - (n + 1)
    BY <1>1, <1>10, <1>15 DEF Under
  <2>4. Progress'
    BY <1>10, <1>15, <2>1, <2>2, <2>3 DEF Progress
  <2> QED BY <1>11, <1>13, <2>4
<1> QED BY <1>9, <1>14, <1>15

LEMMA BufferDoneStep ==
    ASSUME Events!ArgumentsAssumption, LoggerInv, Events!BufferDone
    PROVE  LoggerInv'
<1> USE DEF LoggerInv
<1> PICK n \in Nat : n = Len(printed)
  BY DEF LoggerTypes
<1>1. /\ logger = "event" /\ off >= ret /\ logger' = "read" /\ reads > 0 /\ due = <<>>
      /\ n <= Len(buffer) /\ Len(buffer) \in Nat /\ off = StartOf(n + 1)
      /\ \A k \in 1 .. n : printed[k] = Events!Meant[k]
      /\ UNCHANGED <<open, buffer, due, ret, off, kea, count, is_fse_arg_vnode, printed, reads>>
  BY DEF Events!BufferDone, LoggerTypes, Progress, Remainder
<1>2. n = Len(buffer)
  <2>1. ASSUME n < Len(buffer) PROVE FALSE
    <3>1. n + 1 \in 1 .. Len(buffer)
      BY <1>1, <2>1
    <3>2. off < ret
      BY <1>1, <3>1, ItemAtOffset
    <3> QED BY <1>1, <3>2 DEF LoggerTypes
  <2> QED BY <1>1, <2>1
<1>3. off = ret
  BY <1>2, <1>1 DEF StartOf
<1>4. printed = Events!Meant
  <2>1. DOMAIN buffer = 1 .. n /\ printed = [k \in 1 .. n |-> printed[k]]
    <3> DEFINE texts == EventKinds \cup {"fsid"}
    <3>1. buffer \in Seq(PlacedTypes) /\ printed \in Seq(texts)
      BY DEF LoggerTypes
    <3> HIDE DEF texts
    <3>2. DOMAIN buffer = 1 .. Len(buffer) /\ DOMAIN printed = 1 .. Len(printed)
      BY <3>1
    <3>3. printed = [k \in DOMAIN printed |-> printed[k]]
      BY <3>1
    <3> QED BY <1>2, <3>2, <3>3
  <2>2. Events!Meant = [k \in 1 .. n |-> Events!Meant[k]]
    BY <2>1 DEF Events!Meant
  <2> QED BY <1>1, <2>1, <2>2
<1>5. Events!Meant' = Events!Meant
  BY <1>1 DEF Events!Meant
<1>6. LoggerTypes'
  BY <1>1 DEF LoggerTypes
<1>7. Layout' /\ Grammar' /\ Remainder'
  BY <1>1, SameBuffer
<1>8. Progress'
  BY <1>1, <1>3, <1>4, <1>5 DEF Progress
<1> QED BY <1>6, <1>7, <1>8

LEMMA ArgumentStep ==
    ASSUME Events!ArgumentsAssumption, LoggerInv, Events!Argument
    PROVE  LoggerInv'
<1> USE DEF LoggerInv
<1> PICK n \in Nat : n = Len(printed)
  BY DEF LoggerTypes
<1> DEFINE arg == buffer[n + 1]
<1>1. /\ logger = "argument" /\ reads > 0 /\ n <= Len(buffer) /\ n > 0 /\ Len(buffer) \in Nat
      /\ off = StartOf(n + 1) /\ kea = off /\ due = <<>> /\ ~Closes(buffer[n].kind)
      /\ is_fse_arg_vnode <=> buffer[n].kind = "vnode"
      /\ \A k \in 1 .. n : printed[k] = Events!Meant[k]
      /\ UNCHANGED <<open, buffer, due, ret, reads>>
  BY DEF Events!Argument, LoggerTypes, Progress, Remainder
<1>2. n < Len(buffer)
  <2>1. n # Len(buffer)
    BY <1>1 DEF Remainder, LoggerTypes
  <2> QED BY <1>1, <2>1
<1>3. n + 1 \in 1 .. Len(buffer) /\ n \in 1 .. Len(buffer)
  BY <1>1, <1>2
<1>4. Events!At(kea) = arg /\ off < ret
  BY <1>1, <1>3, ItemAtOffset
<1>5. PICK h \in 1 .. n : Under(h, n) /\ count = n - h
  BY <1>1 DEF Progress
<1>6. count <= FSE_MAX_ARGS /\ FSE_MAX_ARGS \in Nat
  BY <1>3, <1>5 DEF Grammar, Events!ArgumentsAssumption
<1>7. Events!MoreArguments
  BY <1>4, <1>6 DEF Events!MoreArguments
<1>8. ~IsHead(arg.kind) /\ (is_fse_arg_vnode => arg.kind = "dev")
  <2>1. /\ IsHead(buffer[n + 1].kind) <=> n + 1 = 1 \/ Closes(buffer[(n + 1) - 1].kind)
        /\ n + 1 > 1 /\ buffer[(n + 1) - 1].kind = "vnode" => buffer[n + 1].kind = "dev"
    BY <1>3 DEF Grammar
  <2> QED BY <1>1, <2>1
<1>9. arg.kind \in EventKinds /\ arg.size \in Nat
  <2>1. buffer[n + 1] \in PlacedTypes
    BY <1>3 DEF LoggerTypes
  <2> QED BY <2>1 DEF PlacedTypes
<1>10. Events!Meant[n + 1] = IF arg.kind = "dev" /\ is_fse_arg_vnode THEN "fsid" ELSE arg.kind
  <2>1. n + 1 \in DOMAIN buffer /\ n + 1 > 1 /\ (n + 1) - 1 = n
    BY <1>1, <1>3 DEF LoggerTypes
  <2> QED BY <1>1, <2>1 DEF Events!Meant
<1>11. CASE arg.kind = "done"
  <2>1. /\ off' = off + arg.size /\ count' = count + 1 /\ logger' = "event"
        /\ printed' = Append(printed, arg.kind) /\ UNCHANGED <<kea, is_fse_arg_vnode>>
    BY <1>4, <1>7, <1>11 DEF Events!Argument
  <2>2. Events!Meant[n + 1] = arg.kind /\ ~is_fse_arg_vnode
    BY <1>8, <1>10, <1>11
  <2>3. /\ printed' \in Seq(EventKinds \cup {"fsid"}) /\ Len(printed') = n + 1 /\ n + 1 <= Len(buffer')
        /\ off' = StartOf(Len(printed) + 1)' /\ off' \in Int
        /\ \A k \in 1 .. Len(printed') : printed'[k] = Events!Meant'[k]
    BY <1>1, <1>2, <1>9, <2>1, <2>2, OneMorePrinted
  <2>4. Layout' /\ Grammar' /\ Remainder'
    BY <1>1, <2>1, SameBuffer
  <2>5. LoggerTypes'
    BY <1>1, <1>6, <2>1, <2>3 DEF LoggerTypes
  <2>6. Closes(buffer'[Len(printed')].kind)
    BY <1>1, <1>11, <2>3 DEF Closes
  <2>7. ~is_fse_arg_vnode'
    BY <2>1, <2>2
  <2>8. Progress'
    BY <2>1, <2>3, <2>6, <2>7 DEF Progress
  <2> QED BY <2>4, <2>5, <2>8
<1>12. CASE arg.kind # "done"
  <2>1. /\ off' = off + arg.size /\ kea' = kea + arg.size /\ count' = count + 1 /\ logger' = "argument"
        /\ is_fse_arg_vnode' = CASE arg.kind = "vnode" -> TRUE [] arg.kind = "dev" -> FALSE
                                 [] OTHER -> is_fse_arg_vnode
        /\ printed' = Append(printed, IF arg.kind = "dev" /\ is_fse_arg_vnode THEN "fsid" ELSE arg.kind)
    BY <1>1, <1>4, <1>7, <1>12 DEF Events!Argument
  <2>2. is_fse_arg_vnode' <=> arg.kind = "vnode"
    <3>1. CASE arg.kind = "vnode"
      BY <2>1, <3>1
    <3>2. CASE arg.kind = "dev"
      BY <2>1, <3>2
    <3>3. CASE arg.kind \notin {"vnode", "dev"}
      BY <1>8, <2>1, <3>3
    <3> QED BY <3>1, <3>2, <3>3
  <2>3. /\ printed' \in Seq(EventKinds \cup {"fsid"}) /\ Len(printed') = n + 1 /\ n + 1 <= Len(buffer')
        /\ off' = StartOf(Len(printed) + 1)' /\ off' \in Int
        /\ \A k \in 1 .. Len(printed') : printed'[k] = Events!Meant'[k]
    BY <1>1, <1>2, <1>9, <1>10, <2>1, OneMorePrinted
  <2>4. Layout' /\ Grammar' /\ Remainder'
    BY <1>1, <2>1, SameBuffer
  <2>5. is_fse_arg_vnode' \in BOOLEAN
    BY <2>1 DEF LoggerTypes
  <2>6. LoggerTypes'
    <3>1. count' \in 0 .. FSE_MAX_ARGS + 1
      BY <1>5, <1>6, <2>1
    <3>2. kea' \in Int
      BY <1>1, <2>1, <2>3
    <3> QED BY <1>1, <2>1, <2>3, <2>5, <3>1, <3>2 DEF LoggerTypes
  <2>7. ~Closes(buffer'[Len(printed')].kind) /\ (is_fse_arg_vnode' <=> buffer'[Len(printed')].kind = "vnode")
    BY <1>1, <1>8, <1>12, <2>2, <2>3 DEF Closes, IsHead
  <2>8. h \in 1 .. Len(printed') /\ Under(h, Len(printed))' /\ count' = Len(printed') - h
    <3>1. ASSUME NEW m \in 1 .. n + 1, m > h
          PROVE  ~IsHead(buffer[m].kind) /\ ~Closes(buffer[m].kind)
      <4>1. CASE m = n + 1
        BY <1>8, <1>12, <4>1 DEF IsHead, Closes
      <4>2. CASE m \in 1 .. n
        BY <1>5, <3>1, <4>2 DEF Under
      <4> QED BY <4>1, <4>2
    <3>2. Under(h, Len(printed))'
      BY <1>1, <1>5, <2>3, <3>1 DEF Under
    <3> QED BY <1>5, <2>1, <2>3, <3>2
  <2>9. kea' = off'
    BY <1>1, <2>1
  <2>10. Progress'
    BY <2>1, <2>3, <2>7, <2>8, <2>9 DEF Progress
  <2> QED BY <2>4, <2>6, <2>10
<1> QED BY <1>11, <1>12

(* What it cannot survive lies at off.                                      *)
LEMMA BadAccessStep ==
    ASSUME LoggerInv, Events!BadAccess
    PROVE  LoggerInv'
<1> USE DEF LoggerInv
<1>1. /\ logger \in {"event", "argument"} /\ logger' = "crashed"
      /\ UNCHANGED <<open, buffer, due, ret, off, kea, count, is_fse_arg_vnode, printed, reads>>
  BY DEF Events!BadAccess, Events!BadPointer
<1>2. Events!At(off).kind \in {"invalid", "raw"}
  <2>1. CASE logger = "event"
    BY <2>1 DEF Events!BadAccess, Events!BadPointer
  <2>2. CASE logger = "argument"
    BY <2>2 DEF Events!BadAccess, Events!BadPointer, Progress
  <2> QED BY <1>1, <2>1, <2>2
<1>3. Events!At(off)' = Events!At(off)
  BY <1>1 DEF Events!At
<1>4. Layout' /\ Grammar' /\ Remainder'
  <2>1. due = <<>>
    BY <1>1 DEF Remainder
  <2> QED BY <1>1, <2>1, SameBuffer
<1>5. LoggerTypes'
  BY <1>1 DEF LoggerTypes
<1>6. Progress'
  BY <1>1, <1>2, <1>3 DEF Progress
<1> QED BY <1>4, <1>5, <1>6

LEMMA LoggerStart ==
    ASSUME Events!ArgumentsAssumption, Events!Init
    PROVE  LoggerInv
<1>1. FSE_MAX_ARGS \in Nat
  BY DEF Events!ArgumentsAssumption
<1>2. /\ logger = "start" /\ reads = 0 /\ Len(buffer) = 0 /\ Len(due) = 0 /\ Len(printed) = 0
      /\ buffer = <<>> /\ due = <<>> /\ printed = <<>> /\ ~is_fse_arg_vnode
  BY DEF Events!Init
<1>3. LoggerTypes
  <2>1. /\ ret = -1 /\ off = 0 /\ kea = 0 /\ count = 0 /\ open = {} /\ is_fse_arg_vnode \in BOOLEAN
    BY DEF Events!Init
  <2>2. buffer \in Seq(PlacedTypes) /\ due \in Seq(ItemTypes) /\ printed \in Seq(EventKinds \cup {"fsid"})
    BY <1>2
  <2> QED BY <1>1, <1>2, <2>1, <2>2 DEF LoggerTypes
<1>4. Layout /\ Grammar /\ Remainder /\ Progress
  BY <1>2 DEF Layout, Grammar, Remainder, Progress
<1> QED BY <1>3, <1>4 DEF LoggerInv

LEMMA LoggerStep ==
    ASSUME Events!ArgumentsAssumption, LoggerInv, [Events!Next]_(Events!vars)
    PROVE  LoggerInv'
<1>1. CASE UNCHANGED Events!vars
  <2>1. Layout' /\ Grammar' /\ Remainder'
    BY <1>1, SameBuffer DEF Events!vars, LoggerInv, Remainder
  <2>2. LoggerTypes'
    BY <1>1 DEF Events!vars, LoggerInv, LoggerTypes
  <2>3. Events!Meant' = Events!Meant
    BY <1>1 DEF Events!vars, Events!Meant
  <2>4. Events!At(off)' = Events!At(off)
    BY <1>1 DEF Events!vars, Events!At
  <2>5. Progress'
    BY <1>1, <2>3, <2>4 DEF Events!vars, LoggerInv, Progress, StartOf, Under
  <2> QED BY <2>1, <2>2, <2>5 DEF LoggerInv
<1> QED BY <1>1, ReadSteps, CopyEventStep, CopyArgumentStep, EventStep, BufferDoneStep, ArgumentStep, BadAccessStep
        DEF Events!Next

\* fslogger prints what the driver sent: however long the arguments of an event
\* and however many events in a buffer, off and kea follow the same items, each is
\* printed once, in order and under its own name, no buffer ends inside an event,
\* and the program never takes the driver's data for "a program bug"; only an
\* event of type -1 or a raw argument can be the end of it.
THEOREM EventsArePrinted ==
    ASSUME Events!ArgumentsAssumption
    PROVE  Events!Spec => []Events!PrintsEveryEvent
<1>1. Events!Init => LoggerInv
  BY LoggerStart
<1>2. LoggerInv /\ [Events!Next]_(Events!vars) => LoggerInv'
  BY LoggerStep
<1>3. LoggerInv => Events!PrintsEveryEvent
  BY DEF LoggerInv, LoggerTypes, Progress, Events!PrintsEveryEvent, Events!TypeOK
<1> QED BY <1>1, <1>2, <1>3, PTL DEF Events!Spec

-----------------------------------------------------------------------------
(* vmachmon32 (6-51/vmachmon32.c).  The guest's factorial has called itself *)
(* depth times: where its stack pointer was on entry, what the caller's r30 *)
(* and return address are, what it is to compute.                           *)
SP(depth)       == Vmm!TopOfStack - 96 * depth
CallersR30(depth) == IF depth = 0 THEN 0 ELSE SP(depth)
ReturnTo(depth) == IF depth = 0 THEN Vmm!Text + PageSize - 4 ELSE Vmm!Text + 64
Number(depth)   == GuestArgument - depth

Offsets == {-96, -32, -8, -4, 8, 24}
Slot(depth, offset) == Vmm!Word(SP(depth) + offset)

(* The frame of a call that is waiting for the next one.                    *)
Frame(depth) ==
    /\ Slot(depth, -8) = CallersR30(depth) /\ Slot(depth, -4) = 0
    /\ Slot(depth, 8) = ReturnTo(depth)
    /\ Slot(depth, -96) = SP(depth)
    /\ Slot(depth, 24) = Number(depth)
Frames(depth) == \A d \in 0 .. depth - 1 : Frame(d)

(* The frame of the current call before its kth instruction.                *)
FrameAt(k, depth) ==
    /\ k \in 3 .. 26 => Slot(depth, -8) = CallersR30(depth) /\ Slot(depth, -4) = 0
    /\ k \in 4 .. 26 => Slot(depth, 8) = ReturnTo(depth)
    /\ k \in 5 .. 26 => Slot(depth, -96) = SP(depth)
    /\ k \in 7 .. 26 => Slot(depth, 24) = Number(depth)
    /\ k \in {12, 21} => Slot(depth, -32) = Vmm!FactorialOf[Number(depth)]

(* The registers before its kth instruction.                                *)
RegistersAt(k, depth) ==
    /\ guestPc = Vmm!Text + 4 * (k - 1)
    /\ gpr[1] = IF k \in 5 .. 22 THEN SP(depth) - 96 ELSE SP(depth)
    /\ gpr[30] = IF k \in 6 .. 25 THEN SP(depth) - 96 ELSE CallersR30(depth)
    /\ gpr[31] = 0
    /\ k \in {1, 25, 26} => lr = ReturnTo(depth)
    /\ k \in {2, 3, 24} => gpr[0] = ReturnTo(depth)
    /\ k \in 1 .. 6 => gpr[3] = Number(depth)
    /\ k \in {8, 19} => gpr[0] = Number(depth)
    /\ k = 9 => (gt <=> Number(depth) > 0)
    /\ k \in 10 .. 12 => Number(depth) = 0
    /\ k \in 13 .. 20 => Number(depth) > 0
    /\ k = 14 => gpr[2] = Number(depth)
    /\ k = 15 => gpr[0] = Number(depth) - 1
    /\ k = 16 => gpr[3] = Number(depth) - 1
    /\ k = 17 => gpr[3] = Vmm!FactorialOf[Number(depth) - 1]
    /\ k \in {18, 19} => gpr[2] = Vmm!FactorialOf[Number(depth) - 1]
    /\ k \in {11, 20} => gpr[0] = Vmm!FactorialOf[Number(depth)]
    /\ k \in 22 .. 26 => gpr[3] = Vmm!FactorialOf[Number(depth)]

CallAt(k, depth) == RegistersAt(k, depth) /\ FrameAt(k, depth) /\ Frames(depth)
Returned ==
    /\ guestPc = Vmm!Text + PageSize - 4
    /\ gpr[1] = Vmm!TopOfStack /\ gpr[3] = Vmm!FactorialOf[GuestArgument] /\ gpr[30] = 0
         /\ gpr[31] = 0

(* The other program, before its kth instruction.                           *)
AddsAt(k) ==
    /\ guestPc = Vmm!Text + 4 * (k - 1)
    /\ k >= 2 => gpr[10] = 4
    /\ k >= 3 => gpr[11] = 5
    /\ k >= 6 => gpr[12] = 9

Guest ==
    /\ demo_id = 0 => \E k \in {1, 2, 3, 5, 6} : AddsAt(k)
    /\ demo_id = 1 /\ "stack" \in mapped =>
          Returned \/ \E k \in 1 .. 26, depth \in 0 .. GuestArgument : CallAt(k, depth)
    /\ demo_id = 1 /\ "stack" \notin mapped => guestPc \in {Vmm!Text, Vmm!Text + 4}

GuestEnded ==
    CASE demo_id = 0 -> gpr[12] = 9 /\ guestPc = Vmm!Text + 5 * 4
      [] demo_id = 1 /\ "stack" \in mapped -> Returned
      [] OTHER -> guestPc = Vmm!Text + 4

Monitor ==
    /\ stage \in {"usage", "state", "text", "stack", "init", "map", "fill", "execute", "guest",
                  "report", "tear down", "out", "exit"}
    /\ stage \in {"usage", "exit"} => pages = {}
    /\ stage \in {"stack", "init", "map", "fill", "execute", "guest"} => "text" \in pages
    /\ stage \in {"init", "map", "fill", "execute", "guest"} => "stack" \in pages
    /\ stage \in {"map", "fill", "execute", "guest"} => context
    /\ stage \notin {"usage", "exit"} => demo_id \in {0, 1}
    /\ stage \in {"usage", "state", "text", "stack", "init", "map"} => mapped = {}
    /\ stage \in {"fill", "execute"} => mapped \subseteq {"stack"}
    /\ stage = "guest" => "text" \in mapped

Zeroes == [r \in 0 .. 31 |-> 0]
VmmInv ==
    /\ Vmm!TypeOK /\ Monitor
    /\ gpr \in [0 .. 31 -> Int] /\ \A x \in DOMAIN memory : memory[x] \in Int
    /\ stage \in {"usage", "state", "text", "stack", "init"} => gpr = Zeroes
    /\ stage \in {"map", "fill"} => guestPc = Vmm!Text
         /\ gpr = [Zeroes EXCEPT ![1] = Vmm!TopOfStack]
    /\ stage \in {"execute", "guest"} => Guest
    /\ stage = "report" /\ "text" \in mapped => GuestEnded

LEMMA FactorialOfRecursion ==
    Vmm!FactorialOf = [n \in 0 .. 12 |-> IF n <= 0 THEN 1 ELSE n * Vmm!FactorialOf[n - 1]]
<1> DEFINE values == <<1, 2, 6, 24, 120, 720, 5040, 40320, 362880, 3628800, 39916800, 479001600>>
           g == [n \in 0 .. 12 |-> IF n <= 0 THEN 1 ELSE values[n]]
<1>1. ASSUME NEW n \in 0 .. 12
      PROVE  g[n] = IF n <= 0 THEN 1 ELSE n * g[n - 1]
  OBVIOUS
<1>2. g = [n \in 0 .. 12 |-> IF n <= 0 THEN 1 ELSE n * g[n - 1]]
  <2> HIDE DEF g
  <2>1. g = [n \in 0 .. 12 |-> g[n]]
    BY DEF g
  <2> QED BY <1>1, <2>1
<1> HIDE DEF g
<1> QED BY <1>2, Zenon DEF Vmm!FactorialOf

LEMMA FactorialOfInts ==
    /\ Vmm!FactorialOf[0] = 1
    /\ \A n \in 1 .. 12 : Vmm!FactorialOf[n] = Vmm!FactorialOf[n - 1] * n
    /\ \A n \in 0 .. 12 : Vmm!FactorialOf[n] \in Int
<1>1. \A n \in 0 .. 12 : Vmm!FactorialOf[n] = IF n <= 0 THEN 1 ELSE n * Vmm!FactorialOf[n - 1]
  BY FactorialOfRecursion
<1>2. Vmm!FactorialOf[0] = 1
  BY <1>1
<1>3. \A n \in 1 .. 12 : Vmm!FactorialOf[n] = n * Vmm!FactorialOf[n - 1]
  BY <1>1
<1>4. /\ Vmm!FactorialOf[1] = 1 /\ Vmm!FactorialOf[2] = 2
      /\ Vmm!FactorialOf[3] = 6 /\ Vmm!FactorialOf[4] = 24
      /\ Vmm!FactorialOf[5] = 120 /\ Vmm!FactorialOf[6] = 720 /\ Vmm!FactorialOf[7] = 5040
      /\ Vmm!FactorialOf[8] = 40320 /\ Vmm!FactorialOf[9] = 362880
           /\ Vmm!FactorialOf[10] = 3628800
      /\ Vmm!FactorialOf[11] = 39916800 /\ Vmm!FactorialOf[12] = 479001600
  BY <1>2, <1>3
<1>5. \A n \in 0 .. 12 : Vmm!FactorialOf[n] \in Int
  BY <1>2, <1>4
<1>6. \A n \in 1 .. 12 : Vmm!FactorialOf[n] = Vmm!FactorialOf[n - 1] * n
  <2> TAKE n \in 1 .. 12
  <2>1. Vmm!FactorialOf[n] = n * Vmm!FactorialOf[n - 1] /\ Vmm!FactorialOf[n - 1] \in Int
    BY <1>3, <1>5
  <2> QED BY <2>1
<1> QED BY <1>2, <1>5, <1>6

LEMMA StoredWords ==
    ASSUME NEW words, memory' = Vmm!Stored(words)
    PROVE  /\ DOMAIN memory' = DOMAIN memory \cup DOMAIN words
           /\ \A x : Vmm!Word(x)' = IF x \in DOMAIN words THEN words[x] ELSE Vmm!Word(x)
BY DEF Vmm!Stored, Vmm!Word

LEMMA OneStored ==
    ASSUME NEW y, NEW v, memory' = Vmm!Stored([address \in {y} |-> v])
    PROVE  \A x : Vmm!Word(x)' = IF x = y THEN v ELSE Vmm!Word(x)
<1> DEFINE words == [address \in {y} |-> v]
<1>1. DOMAIN words = {y} /\ words[y] = v
  OBVIOUS
<1> HIDE DEF words
<1>2. \A x : Vmm!Word(x)' = IF x \in DOMAIN words THEN words[x] ELSE Vmm!Word(x)
  BY StoredWords DEF words
<1> QED BY <1>1, <1>2

LEMMA SameMemory == ASSUME memory' = memory PROVE \A x : Vmm!Word(x)' = Vmm!Word(x)
BY DEF Vmm!Word

LEMMA Addresses ==
    ASSUME Vmm!SizesAssumption, NEW depth \in 0 .. GuestArgument
    PROVE  /\ Vmm!Text \in Int /\ Vmm!Stack \in Int /\ Vmm!TopOfStack \in Int /\ SP(depth) \in Int
           /\ ReturnTo(depth) \in 0 .. 3 * PageSize
           /\ Number(depth) \in 0 .. GuestArgument
           /\ \A c \in {-96, -32, -8, -4, 8, 24} : SP(depth) + c \in Vmm!Stack .. Vmm!Stack + PageSize - 4
BY DEF Vmm!SizesAssumption, Vmm!Text, Vmm!Stack, Vmm!TopOfStack, SP, ReturnTo, Number

LEMMA Apart96 ==
    ASSUME Vmm!SizesAssumption, NEW d \in 0 .. GuestArgument, NEW e \in 0 .. GuestArgument,
           NEW s \in {-96, -32, -8, -4, 8, 24}, NEW c \in {-96, -32, -8, -4, 8, 24},
           SP(d) + s = SP(e) + c
    PROVE  d = e /\ s = c
BY DEF Vmm!SizesAssumption, Vmm!Stack, Vmm!TopOfStack, SP

GuestTypes ==
    /\ Vmm!TypeOK /\ demo_id = 1 /\ "stack" \in mapped
    /\ gpr \in [0 .. 31 -> Int] /\ \A x \in DOMAIN memory : memory[x] \in Int

LEMMA Fetches ==
    ASSUME Vmm!SizesAssumption, demo_id = 1, NEW k \in 1 .. 26, guestPc = Vmm!Text + 4 * (k - 1)
    PROVE  Vmm!Fetched = Vmm!Factorial[k]
<1>1. (guestPc - Vmm!Text) \div 4 + 1 = k
  BY DEF Vmm!SizesAssumption, Vmm!Text
<1>2. k \in DOMAIN Vmm!Factorial
  BY DEF Vmm!Factorial
<1>3. Vmm!SupportedDemos[demo_id + 1] = Vmm!Factorial
  BY DEF Vmm!SupportedDemos
<1> QED BY <1>1, <1>2, <1>3, Zenon DEF Vmm!Fetched

LEMMA Instructions ==
    /\ Vmm!Factorial[1] = Vmm!I("mflr", 0, 0, 0) /\ Vmm!Factorial[2] = Vmm!I("stmw", 30, 1, -8)
    /\ Vmm!Factorial[3] = Vmm!I("stw", 0, 1, 8) /\ Vmm!Factorial[4] = Vmm!I("stwu", 1, 1, -96)
    /\ Vmm!Factorial[5] = Vmm!I("addi", 30, 1, 0) /\ Vmm!Factorial[6] = Vmm!I("stw", 3, 30, 120)
    /\ Vmm!Factorial[7] = Vmm!I("lwz", 0, 30, 120) /\ Vmm!Factorial[8] = Vmm!I("cmpwi", 0, 0, 0)
    /\ Vmm!Factorial[9] = Vmm!I("bgt", 0, 0, 16) /\ Vmm!Factorial[10] = Vmm!I("li", 0, 0, 1)
    /\ Vmm!Factorial[11] = Vmm!I("stw", 0, 30, 64) /\ Vmm!Factorial[12] = Vmm!I("b", 0, 0, 36)
    /\ Vmm!Factorial[13] = Vmm!I("lwz", 2, 30, 120) /\ Vmm!Factorial[14] = Vmm!I("addi", 0, 2, -1)
    /\ Vmm!Factorial[15] = Vmm!I("addi", 3, 0, 0) /\ Vmm!Factorial[16] = Vmm!I("bl", 0, 0, -60)
    /\ Vmm!Factorial[17] = Vmm!I("addi", 2, 3, 0) /\ Vmm!Factorial[18] = Vmm!I("lwz", 0, 30, 120)
    /\ Vmm!Factorial[19] = Vmm!I("mullw", 0, 2, 0) /\ Vmm!Factorial[20] = Vmm!I("stw", 0, 30, 64)
    /\ Vmm!Factorial[21] = Vmm!I("lwz", 3, 30, 64) /\ Vmm!Factorial[22] = Vmm!I("lwz", 1, 1, 0)
    /\ Vmm!Factorial[23] = Vmm!I("lwz", 0, 1, 8) /\ Vmm!Factorial[24] = Vmm!I("mtlr", 0, 0, 0)
    /\ Vmm!Factorial[25] = Vmm!I("lmw", 30, 1, -8) /\ Vmm!Factorial[26] = Vmm!I("blr", 0, 0, 0)
BY Zenon DEF Vmm!Factorial

LEMMA Constants ==
    /\ Vmm!Text' = Vmm!Text /\ Vmm!TopOfStack' = Vmm!TopOfStack
         /\ Vmm!FactorialOf' = Vmm!FactorialOf
    /\ \A d : SP(d)' = SP(d) /\ CallersR30(d)' = CallersR30(d) /\ ReturnTo(d)' = ReturnTo(d)
              /\ Number(d)' = Number(d)
<1>1. Vmm!Text' = Vmm!Text /\ Vmm!TopOfStack' = Vmm!TopOfStack
  BY DEF Vmm!Text, Vmm!TopOfStack, Vmm!Stack
<1>2. Vmm!FactorialOf' = Vmm!FactorialOf
  BY DEF Vmm!FactorialOf
<1>3. \A d : SP(d)' = SP(d) /\ Number(d)' = Number(d)
  BY DEF SP, Number, Vmm!TopOfStack, Vmm!Stack
<1>4. \A d : CallersR30(d)' = CallersR30(d) /\ ReturnTo(d)' = ReturnTo(d)
  BY DEF SP, CallersR30, ReturnTo, Vmm!Text, Vmm!TopOfStack, Vmm!Stack
<1> QED BY <1>1, <1>2, <1>3, <1>4

LEMMA SameSlots ==
    ASSUME memory' = memory
    PROVE  \A d, c : Slot(d, c)' = Slot(d, c)
<1>1. \A d, c : Slot(d, c)' = Vmm!Word(SP(d) + c)'
  BY Constants DEF Slot
<1> QED BY <1>1, SameMemory DEF Slot

LEMMA FramesStay ==
    ASSUME NEW depth, Frames(depth),
           \A d \in 0 .. depth - 1, c \in Offsets : Slot(d, c)' = Slot(d, c)
    PROVE  Frames(depth)'
BY Constants DEF Frames, Frame, Offsets

LEMMA SlotsStored ==
    ASSUME Vmm!SizesAssumption, NEW depth \in 0 .. GuestArgument, NEW Y \in SUBSET Offsets, NEW w,
           \A x : Vmm!Word(x)' = IF x \in {SP(depth) + c : c \in Y} THEN w[x] ELSE Vmm!Word(x)
    PROVE  /\ Frames(depth) => Frames(depth)'
           /\ \A c \in Offsets \ Y : Slot(depth, c)' = Slot(depth, c)
           /\ \A c \in Y : Slot(depth, c)' = w[SP(depth) + c]
<1>1. \A d, c : Slot(d, c)' = Vmm!Word(SP(d) + c)'
  BY Constants DEF Slot
<1>2. ASSUME NEW d \in 0 .. depth, NEW s \in Offsets, d # depth \/ s \notin Y
      PROVE  Slot(d, s)' = Slot(d, s)
  <2>1. d \in 0 .. GuestArgument
    BY DEF Vmm!SizesAssumption
  <2>2. ASSUME NEW c \in Y, SP(d) + s = SP(depth) + c PROVE FALSE
    BY <1>2, <2>1, <2>2, Apart96 DEF Offsets
  <2> QED BY <1>1, <2>2 DEF Slot
<1>3. Frames(depth) => Frames(depth)'
  BY <1>2, FramesStay
<1> QED BY <1>1, <1>2, <1>3

LEMMA OneSlot ==
    ASSUME Vmm!SizesAssumption, NEW depth \in 0 .. GuestArgument, NEW s \in Offsets, NEW v,
           memory' = Vmm!Stored([address \in {SP(depth) + s} |-> v])
    PROVE  /\ Frames(depth) => Frames(depth)'
           /\ \A c \in Offsets \ {s} : Slot(depth, c)' = Slot(depth, c)
           /\ Slot(depth, s)' = v
<1> DEFINE w == [address \in {SP(depth) + s} |-> v]
<1>1. \A x : Vmm!Word(x)' = IF x = SP(depth) + s THEN v ELSE Vmm!Word(x)
  BY OneStored
<1>2. \A x : Vmm!Word(x)' = IF x \in {SP(depth) + c : c \in {s}} THEN w[x] ELSE Vmm!Word(x)
  BY <1>1
<1>3. w[SP(depth) + s] = v
  OBVIOUS
<1> HIDE DEF w
<1> QED BY <1>2, <1>3, SlotsStored

LEMMA TwoSlots ==
    ASSUME Vmm!SizesAssumption, NEW depth \in 0 .. GuestArgument, NEW u, NEW v,
           memory' = Vmm!Stored([address \in {SP(depth) + (-8), SP(depth) + (-4)} |->
                               IF address = SP(depth) + (-8) THEN u ELSE v])
    PROVE  /\ Frames(depth) => Frames(depth)'
           /\ Slot(depth, -8)' = u /\ Slot(depth, -4)' = v
<1> DEFINE Y == {-8, -4}
           w == [address \in {SP(depth) + (-8), SP(depth) + (-4)} |->
                   IF address = SP(depth) + (-8) THEN u ELSE v]
<1>1. DOMAIN w = {SP(depth) + c : c \in Y} /\ w[SP(depth) + (-8)] = u /\ w[SP(depth) + (-4)] = v
  BY Addresses
<1>2. Y \in SUBSET Offsets /\ -8 \in Y /\ -4 \in Y
  BY DEF Offsets
<1> HIDE DEF w, Y
<1>3. \A x : Vmm!Word(x)' = IF x \in {SP(depth) + c : c \in Y} THEN w[x] ELSE Vmm!Word(x)
  <2>1. \A x : Vmm!Word(x)' = IF x \in DOMAIN w THEN w[x] ELSE Vmm!Word(x)
    BY StoredWords DEF w
  <2> QED BY <1>1, <2>1
<1> QED BY <1>1, <1>2, <1>3, SlotsStored

(* On entry the function saves registers and return address, and takes a frame.*)
LEMMA EntryStep ==
    ASSUME Vmm!SizesAssumption, GuestTypes, NEW depth \in 0 .. GuestArgument,
           NEW k \in 1 .. 6, CallAt(k, depth), Vmm!Execute(Vmm!Fetched)
    PROVE  CallAt(k + 1, depth)'
<1>0. Vmm!Fetched = Vmm!Factorial[k]
  BY Fetches DEF CallAt, RegistersAt, GuestTypes
<1>1. CASE k = 1
  <2>1. Vmm!Fetched = Vmm!I("mflr", 0, 0, 0)
    BY <1>0, <1>1, Instructions
  <2>3. guestPc' = guestPc + 4 /\ lr' = lr /\ gpr' = [gpr EXCEPT ![0] = lr] /\ memory' = memory
    BY <2>1 DEF Vmm!Execute, Vmm!Load, Vmm!I
  <2>4. RegistersAt(2, depth)'
    BY <1>1, <2>3, Constants, Addresses DEF CallAt, RegistersAt, GuestTypes
  <2>5. FrameAt(2, depth)' /\ Frames(depth)'
    BY <1>1, <2>3, SameSlots, FramesStay, Constants DEF CallAt, FrameAt
  <2> QED BY <1>1, <2>4, <2>5 DEF CallAt
<1>2. CASE k = 2
  <2>1. Vmm!Fetched = Vmm!I("stmw", 30, 1, -8)
    BY <1>0, <1>2, Instructions
  <2>2. Vmm!Address = SP(depth) + (-8) /\ Vmm!Touches = {SP(depth) + (-8), SP(depth) + (-4)}
    BY <1>2, <2>1, Addresses DEF Vmm!Touches, Vmm!Address, Vmm!I, CallAt, RegistersAt
  <2>3. /\ guestPc' = guestPc + 4 /\ lr' = lr /\ gpr' = gpr
        /\ memory' = Vmm!Stored([address \in {SP(depth) + (-8), SP(depth) + (-4)} |->
                             IF address = SP(depth) + (-8) THEN gpr[30] ELSE gpr[31]])
    BY <2>1, <2>2 DEF Vmm!Execute, Vmm!Load, Vmm!I
  <2>4. RegistersAt(3, depth)'
    BY <1>2, <2>3, Constants, Addresses DEF CallAt, RegistersAt, GuestTypes
  <2>5. FrameAt(3, depth)' /\ Frames(depth)'
    <3>1. /\ Frames(depth) => Frames(depth)'
          /\ Slot(depth, -8)' = gpr[30] /\ Slot(depth, -4)' = gpr[31]
      BY <2>3, TwoSlots
    <3> QED BY <1>2, <3>1, Constants DEF CallAt, RegistersAt, FrameAt
  <2> QED BY <1>2, <2>4, <2>5 DEF CallAt
<1>3. CASE k = 3
  <2>1. Vmm!Fetched = Vmm!I("stw", 0, 1, 8)
    BY <1>0, <1>3, Instructions
  <2>2. Vmm!Address = SP(depth) + 8 /\ Vmm!Touches = {SP(depth) + 8}
    BY <1>3, <2>1, Addresses DEF Vmm!Touches, Vmm!Address, Vmm!I, CallAt, RegistersAt
  <2>3. /\ guestPc' = guestPc + 4 /\ lr' = lr /\ gpr' = gpr
        /\ memory' = Vmm!Stored([address \in {SP(depth) + 8} |-> gpr[0]])
    BY <2>1, <2>2 DEF Vmm!Execute, Vmm!Load, Vmm!I
  <2>4. RegistersAt(4, depth)'
    BY <1>3, <2>3, Constants, Addresses DEF CallAt, RegistersAt, GuestTypes
  <2>5. FrameAt(4, depth)' /\ Frames(depth)'
    <3>1. /\ Frames(depth) => Frames(depth)' /\ Slot(depth, 8)' = gpr[0]
          /\ \A c \in Offsets \ {8} : Slot(depth, c)' = Slot(depth, c)
      <4>1. 8 \in Offsets
        BY DEF Offsets
      <4> QED BY <2>3, <4>1, OneSlot, Zenon
    <3> QED BY <1>3, <3>1, Constants DEF Offsets, CallAt, RegistersAt, FrameAt
  <2> QED BY <1>3, <2>4, <2>5 DEF CallAt
<1>4. CASE k = 4
  <2>1. Vmm!Fetched = Vmm!I("stwu", 1, 1, -96)
    BY <1>0, <1>4, Instructions
  <2>2. Vmm!Address = SP(depth) + (-96) /\ Vmm!Touches = {SP(depth) + (-96)}
    BY <1>4, <2>1, Addresses DEF Vmm!Touches, Vmm!Address, Vmm!I, CallAt, RegistersAt
  <2>3. /\ guestPc' = guestPc + 4 /\ lr' = lr /\ gpr' = [gpr EXCEPT ![1] = SP(depth) + (-96)]
        /\ memory' = Vmm!Stored([address \in {SP(depth) + (-96)} |-> gpr[1]])
    BY <2>1, <2>2 DEF Vmm!Execute, Vmm!Load, Vmm!I
  <2>4. RegistersAt(5, depth)'
    BY <1>4, <2>3, Constants, Addresses DEF CallAt, RegistersAt, GuestTypes
  <2>5. FrameAt(5, depth)' /\ Frames(depth)'
    <3>1. /\ Frames(depth) => Frames(depth)' /\ Slot(depth, -96)' = gpr[1]
          /\ \A c \in Offsets \ {-96} : Slot(depth, c)' = Slot(depth, c)
      <4> DEFINE below == -96
      <4>1. below \in Offsets /\ memory' = Vmm!Stored([address \in {SP(depth) + below} |-> gpr[1]])
        BY <2>3 DEF Offsets
      <4> HIDE DEF below
      <4>2. /\ Frames(depth) => Frames(depth)' /\ Slot(depth, below)' = gpr[1]
            /\ \A c \in Offsets \ {below} : Slot(depth, c)' = Slot(depth, c)
        BY <4>1, OneSlot, Zenon
      <4> QED BY <4>2 DEF below
    <3> QED BY <1>4, <3>1, Constants DEF Offsets, CallAt, RegistersAt, FrameAt
  <2> QED BY <1>4, <2>4, <2>5 DEF CallAt
<1>5. CASE k = 5
  <2>1. Vmm!Fetched = Vmm!I("addi", 30, 1, 0)
    BY <1>0, <1>5, Instructions
  <2>3. /\ guestPc' = guestPc + 4 /\ lr' = lr /\ gpr' = [gpr EXCEPT ![30] = gpr[1] + 0]
        /\ memory' = memory
    BY <2>1 DEF Vmm!Execute, Vmm!Load, Vmm!I
  <2>4. RegistersAt(6, depth)'
    BY <1>5, <2>3, Constants, Addresses DEF CallAt, RegistersAt, GuestTypes
  <2>5. FrameAt(6, depth)' /\ Frames(depth)'
    BY <1>5, <2>3, SameSlots, FramesStay, Constants DEF CallAt, FrameAt
  <2> QED BY <1>5, <2>4, <2>5 DEF CallAt
<1>6. CASE k = 6
  <2>1. Vmm!Fetched = Vmm!I("stw", 3, 30, 120)
    BY <1>0, <1>6, Instructions
  <2>2. Vmm!Address = SP(depth) + 24 /\ Vmm!Touches = {SP(depth) + 24}
    BY <1>6, <2>1, Addresses DEF Vmm!Touches, Vmm!Address, Vmm!I, CallAt, RegistersAt
  <2>3. /\ guestPc' = guestPc + 4 /\ lr' = lr /\ gpr' = gpr
        /\ memory' = Vmm!Stored([address \in {SP(depth) + 24} |-> gpr[3]])
    BY <2>1, <2>2 DEF Vmm!Execute, Vmm!Load, Vmm!I
  <2>4. RegistersAt(7, depth)'
    BY <1>6, <2>3, Constants, Addresses DEF CallAt, RegistersAt, GuestTypes
  <2>5. FrameAt(7, depth)' /\ Frames(depth)'
    <3>1. /\ Frames(depth) => Frames(depth)' /\ Slot(depth, 24)' = gpr[3]
          /\ \A c \in Offsets \ {24} : Slot(depth, c)' = Slot(depth, c)
      <4>1. 24 \in Offsets
        BY DEF Offsets
      <4> QED BY <2>3, <4>1, OneSlot, Zenon
    <3> QED BY <1>6, <3>1, Constants DEF Offsets, CallAt, RegistersAt, FrameAt
  <2> QED BY <1>6, <2>4, <2>5 DEF CallAt
<1> QED BY <1>1, <1>2, <1>3, <1>4, <1>5, <1>6

(* It looks at its number, and begins with the answer 1 if that is 0.       *)
LEMMA TestStep ==
    ASSUME Vmm!SizesAssumption, GuestTypes, NEW depth \in 0 .. GuestArgument,
           NEW k \in {7, 8, 10, 11, 12}, CallAt(k, depth), Vmm!Execute(Vmm!Fetched)
    PROVE  CallAt(IF k = 12 THEN 21 ELSE k + 1, depth)'
<1>0. Vmm!Fetched = Vmm!Factorial[k]
  BY Fetches DEF CallAt, RegistersAt, GuestTypes
<1>7. CASE k = 7
  <2>1. Vmm!Fetched = Vmm!I("lwz", 0, 30, 120)
    BY <1>0, <1>7, Instructions
  <2>2. Vmm!Word(Vmm!Address) = Number(depth)
    <3>1. Vmm!Address = SP(depth) + 24
      BY <1>7, <2>1, Addresses DEF Vmm!Address, Vmm!I, CallAt, RegistersAt
    <3> QED BY <1>7, <3>1 DEF Slot, CallAt, FrameAt
  <2>3. /\ guestPc' = guestPc + 4 /\ lr' = lr /\ gpr' = [gpr EXCEPT ![0] = Number(depth)]
        /\ memory' = memory
    BY <2>1, <2>2 DEF Vmm!Execute, Vmm!Load, Vmm!I
  <2>4. RegistersAt(8, depth)'
    BY <1>7, <2>3, Constants, Addresses DEF CallAt, RegistersAt, GuestTypes
  <2>5. FrameAt(8, depth)' /\ Frames(depth)'
    BY <1>7, <2>3, SameSlots, FramesStay, Constants DEF CallAt, FrameAt
  <2> QED BY <1>7, <2>4, <2>5 DEF CallAt
<1>8. CASE k = 8
  <2>1. Vmm!Fetched = Vmm!I("cmpwi", 0, 0, 0)
    BY <1>0, <1>8, Instructions
  <2>3. /\ guestPc' = guestPc + 4 /\ lr' = lr /\ (gt' <=> gpr[0] > 0) /\ gpr' = gpr
        /\ memory' = memory
    BY <2>1 DEF Vmm!Execute, Vmm!Load, Vmm!I
  <2>4. RegistersAt(9, depth)'
    BY <1>8, <2>3, Constants, Addresses DEF CallAt, RegistersAt, GuestTypes
  <2>5. FrameAt(9, depth)' /\ Frames(depth)'
    BY <1>8, <2>3, SameSlots, FramesStay, Constants DEF CallAt, FrameAt
  <2> QED BY <1>8, <2>4, <2>5 DEF CallAt
<1>10. CASE k = 10
  <2>1. Vmm!Fetched = Vmm!I("li", 0, 0, 1)
    BY <1>0, <1>10, Instructions
  <2>3. guestPc' = guestPc + 4 /\ lr' = lr /\ gpr' = [gpr EXCEPT ![0] = 1] /\ memory' = memory
    BY <2>1 DEF Vmm!Execute, Vmm!Load, Vmm!I
  <2>4. RegistersAt(11, depth)'
    BY <1>10, <2>3, Constants, Addresses, FactorialOfInts DEF CallAt, RegistersAt, GuestTypes
  <2>5. FrameAt(11, depth)' /\ Frames(depth)'
    BY <1>10, <2>3, SameSlots, FramesStay, Constants DEF CallAt, FrameAt
  <2> QED BY <1>10, <2>4, <2>5 DEF CallAt
<1>11. CASE k = 11
  <2>1. Vmm!Fetched = Vmm!I("stw", 0, 30, 64)
    BY <1>0, <1>11, Instructions
  <2>2. Vmm!Address = SP(depth) + (-32) /\ Vmm!Touches = {SP(depth) + (-32)}
    BY <1>11, <2>1, Addresses DEF Vmm!Touches, Vmm!Address, Vmm!I, CallAt, RegistersAt
  <2>3. /\ guestPc' = guestPc + 4 /\ lr' = lr /\ gpr' = gpr
        /\ memory' = Vmm!Stored([address \in {SP(depth) + (-32)} |-> gpr[0]])
    BY <2>1, <2>2 DEF Vmm!Execute, Vmm!Load, Vmm!I
  <2>4. RegistersAt(12, depth)'
    BY <1>11, <2>3, Constants, Addresses DEF CallAt, RegistersAt, GuestTypes
  <2>5. FrameAt(12, depth)' /\ Frames(depth)'
    <3>1. /\ Frames(depth) => Frames(depth)' /\ Slot(depth, -32)' = gpr[0]
          /\ \A c \in Offsets \ {-32} : Slot(depth, c)' = Slot(depth, c)
      <4>1. -32 \in Offsets
        BY DEF Offsets
      <4> QED BY <2>3, <4>1, OneSlot, Zenon
    <3> QED BY <1>11, <3>1, Constants DEF Offsets, CallAt, RegistersAt, FrameAt
  <2> QED BY <1>11, <2>4, <2>5 DEF CallAt
<1>12. CASE k = 12
  <2>1. Vmm!Fetched = Vmm!I("b", 0, 0, 36)
    BY <1>0, <1>12, Instructions
  <2>3. guestPc' = guestPc + 36 /\ lr' = lr /\ gpr' = gpr /\ memory' = memory
    BY <2>1 DEF Vmm!Execute, Vmm!Load, Vmm!I
  <2>4. RegistersAt(21, depth)'
    BY <1>12, <2>3, Constants, Addresses DEF CallAt, RegistersAt, GuestTypes
  <2>5. FrameAt(21, depth)' /\ Frames(depth)'
    BY <1>12, <2>3, SameSlots, FramesStay, Constants DEF CallAt, FrameAt
  <2> QED BY <1>12, <2>4, <2>5 DEF CallAt
<1> QED BY <1>7, <1>8, <1>10, <1>11, <1>12

(* It prepares its call, and multiplies what came of it.                    *)
LEMMA MultiplyStep ==
    ASSUME Vmm!SizesAssumption, GuestTypes, NEW depth \in 0 .. GuestArgument,
           NEW k \in {13, 14, 15, 17, 18, 19, 20}, CallAt(k, depth), Vmm!Execute(Vmm!Fetched)
    PROVE  CallAt(k + 1, depth)'
<1>0. Vmm!Fetched = Vmm!Factorial[k]
  BY Fetches DEF CallAt, RegistersAt, GuestTypes
<1>13. CASE k = 13
  <2>1. Vmm!Fetched = Vmm!I("lwz", 2, 30, 120)
    BY <1>0, <1>13, Instructions
  <2>2. Vmm!Word(Vmm!Address) = Number(depth)
    <3>1. Vmm!Address = SP(depth) + 24
      BY <1>13, <2>1, Addresses DEF Vmm!Address, Vmm!I, CallAt, RegistersAt
    <3> QED BY <1>13, <3>1 DEF Slot, CallAt, FrameAt
  <2>3. /\ guestPc' = guestPc + 4 /\ lr' = lr /\ gpr' = [gpr EXCEPT ![2] = Number(depth)]
        /\ memory' = memory
    BY <2>1, <2>2 DEF Vmm!Execute, Vmm!Load, Vmm!I
  <2>4. RegistersAt(14, depth)'
    BY <1>13, <2>3, Constants, Addresses DEF CallAt, RegistersAt, GuestTypes
  <2>5. FrameAt(14, depth)' /\ Frames(depth)'
    BY <1>13, <2>3, SameSlots, FramesStay, Constants DEF CallAt, FrameAt
  <2> QED BY <1>13, <2>4, <2>5 DEF CallAt
<1>14. CASE k = 14
  <2>1. Vmm!Fetched = Vmm!I("addi", 0, 2, -1)
    BY <1>0, <1>14, Instructions
  <2>3. /\ guestPc' = guestPc + 4 /\ lr' = lr /\ gpr' = [gpr EXCEPT ![0] = gpr[2] + (-1)]
        /\ memory' = memory
    BY <2>1 DEF Vmm!Execute, Vmm!Load, Vmm!I
  <2>4. RegistersAt(15, depth)'
    BY <1>14, <2>3, Constants, Addresses DEF CallAt, RegistersAt, GuestTypes
  <2>5. FrameAt(15, depth)' /\ Frames(depth)'
    BY <1>14, <2>3, SameSlots, FramesStay, Constants DEF CallAt, FrameAt
  <2> QED BY <1>14, <2>4, <2>5 DEF CallAt
<1>15. CASE k = 15
  <2>1. Vmm!Fetched = Vmm!I("addi", 3, 0, 0)
    BY <1>0, <1>15, Instructions
  <2>3. /\ guestPc' = guestPc + 4 /\ lr' = lr /\ gpr' = [gpr EXCEPT ![3] = gpr[0] + 0]
        /\ memory' = memory
    BY <2>1 DEF Vmm!Execute, Vmm!Load, Vmm!I
  <2>4. RegistersAt(16, depth)'
    BY <1>15, <2>3, Constants, Addresses DEF CallAt, RegistersAt, GuestTypes
  <2>5. FrameAt(16, depth)' /\ Frames(depth)'
    BY <1>15, <2>3, SameSlots, FramesStay, Constants DEF CallAt, FrameAt
  <2> QED BY <1>15, <2>4, <2>5 DEF CallAt
<1>17. CASE k = 17
  <2>1. Vmm!Fetched = Vmm!I("addi", 2, 3, 0)
    BY <1>0, <1>17, Instructions
  <2>3. /\ guestPc' = guestPc + 4 /\ lr' = lr /\ gpr' = [gpr EXCEPT ![2] = gpr[3] + 0]
        /\ memory' = memory
    BY <2>1 DEF Vmm!Execute, Vmm!Load, Vmm!I
  <2>4. RegistersAt(18, depth)'
    BY <1>17, <2>3, Constants, Addresses DEF CallAt, RegistersAt, GuestTypes
  <2>5. FrameAt(18, depth)' /\ Frames(depth)'
    BY <1>17, <2>3, SameSlots, FramesStay, Constants DEF CallAt, FrameAt
  <2> QED BY <1>17, <2>4, <2>5 DEF CallAt
<1>18. CASE k = 18
  <2>1. Vmm!Fetched = Vmm!I("lwz", 0, 30, 120)
    BY <1>0, <1>18, Instructions
  <2>2. Vmm!Word(Vmm!Address) = Number(depth)
    <3>1. Vmm!Address = SP(depth) + 24
      BY <1>18, <2>1, Addresses DEF Vmm!Address, Vmm!I, CallAt, RegistersAt
    <3> QED BY <1>18, <3>1 DEF Slot, CallAt, FrameAt
  <2>3. /\ guestPc' = guestPc + 4 /\ lr' = lr /\ gpr' = [gpr EXCEPT ![0] = Number(depth)]
        /\ memory' = memory
    BY <2>1, <2>2 DEF Vmm!Execute, Vmm!Load, Vmm!I
  <2>4. RegistersAt(19, depth)'
    BY <1>18, <2>3, Constants, Addresses DEF CallAt, RegistersAt, GuestTypes
  <2>5. FrameAt(19, depth)' /\ Frames(depth)'
    BY <1>18, <2>3, SameSlots, FramesStay, Constants DEF CallAt, FrameAt
  <2> QED BY <1>18, <2>4, <2>5 DEF CallAt
<1>19. CASE k = 19
  <2>1. Vmm!Fetched = Vmm!I("mullw", 0, 2, 0)
    BY <1>0, <1>19, Instructions
  <2>3. /\ guestPc' = guestPc + 4 /\ lr' = lr /\ gpr' = [gpr EXCEPT ![0] = gpr[2] * gpr[0]]
        /\ memory' = memory
    BY <2>1 DEF Vmm!Execute, Vmm!Load, Vmm!I
  <2>4. RegistersAt(20, depth)'
    <3>1. gpr[2] = Vmm!FactorialOf[Number(depth) - 1] /\ gpr[0] = Number(depth)
          /\ Number(depth) > 0
      BY <1>19 DEF CallAt, RegistersAt
    <3>2. Number(depth) \in 1 .. 12
      BY <3>1 DEF Vmm!SizesAssumption, Number
    <3>3. gpr[2] * gpr[0] = Vmm!FactorialOf[Number(depth)]
      BY <3>1, <3>2, FactorialOfInts
    <3>4. gpr' = [gpr EXCEPT ![0] = Vmm!FactorialOf[Number(depth)]]
      BY <2>3, <3>3
    <3> QED BY <1>19, <2>3, <3>4, Constants, Addresses DEF CallAt, RegistersAt, GuestTypes
  <2>5. FrameAt(20, depth)' /\ Frames(depth)'
    BY <1>19, <2>3, SameSlots, FramesStay, Constants DEF CallAt, FrameAt
  <2> QED BY <1>19, <2>4, <2>5 DEF CallAt
<1>20. CASE k = 20
  <2>1. Vmm!Fetched = Vmm!I("stw", 0, 30, 64)
    BY <1>0, <1>20, Instructions
  <2>2. Vmm!Address = SP(depth) + (-32) /\ Vmm!Touches = {SP(depth) + (-32)}
    BY <1>20, <2>1, Addresses DEF Vmm!Touches, Vmm!Address, Vmm!I, CallAt, RegistersAt
  <2>3. /\ guestPc' = guestPc + 4 /\ lr' = lr /\ gpr' = gpr
        /\ memory' = Vmm!Stored([address \in {SP(depth) + (-32)} |-> gpr[0]])
    BY <2>1, <2>2 DEF Vmm!Execute, Vmm!Load, Vmm!I
  <2>4. RegistersAt(21, depth)'
    BY <1>20, <2>3, Constants, Addresses DEF CallAt, RegistersAt, GuestTypes
  <2>5. FrameAt(21, depth)' /\ Frames(depth)'
    <3>1. /\ Frames(depth) => Frames(depth)' /\ Slot(depth, -32)' = gpr[0]
          /\ \A c \in Offsets \ {-32} : Slot(depth, c)' = Slot(depth, c)
      <4>1. -32 \in Offsets
        BY DEF Offsets
      <4> QED BY <2>3, <4>1, OneSlot, Zenon
    <3> QED BY <1>20, <3>1, Constants DEF Offsets, CallAt, RegistersAt, FrameAt
  <2> QED BY <1>20, <2>4, <2>5 DEF CallAt
<1> QED BY <1>13, <1>14, <1>15, <1>17, <1>18, <1>19, <1>20

(* It puts back what it has saved.                                          *)
LEMMA ExitStep ==
    ASSUME Vmm!SizesAssumption, GuestTypes, NEW depth \in 0 .. GuestArgument,
           NEW k \in 21 .. 25, CallAt(k, depth), Vmm!Execute(Vmm!Fetched)
    PROVE  CallAt(k + 1, depth)'
<1>0. Vmm!Fetched = Vmm!Factorial[k]
  BY Fetches DEF CallAt, RegistersAt, GuestTypes
<1>21. CASE k = 21
  <2>1. Vmm!Fetched = Vmm!I("lwz", 3, 30, 64)
    BY <1>0, <1>21, Instructions
  <2>2. Vmm!Word(Vmm!Address) = Vmm!FactorialOf[Number(depth)]
    <3>1. Vmm!Address = SP(depth) + (-32)
      BY <1>21, <2>1, Addresses DEF Vmm!Address, Vmm!I, CallAt, RegistersAt
    <3> QED BY <1>21, <3>1 DEF Slot, CallAt, FrameAt
  <2>3. /\ guestPc' = guestPc + 4 /\ lr' = lr
             /\ gpr' = [gpr EXCEPT ![3] = Vmm!FactorialOf[Number(depth)]]
        /\ memory' = memory
    BY <2>1, <2>2 DEF Vmm!Execute, Vmm!Load, Vmm!I
  <2>4. RegistersAt(22, depth)'
    BY <1>21, <2>3, Constants, Addresses DEF CallAt, RegistersAt, GuestTypes
  <2>5. FrameAt(22, depth)' /\ Frames(depth)'
    BY <1>21, <2>3, SameSlots, FramesStay, Constants DEF CallAt, FrameAt
  <2> QED BY <1>21, <2>4, <2>5 DEF CallAt
<1>22. CASE k = 22
  <2>1. Vmm!Fetched = Vmm!I("lwz", 1, 1, 0)
    BY <1>0, <1>22, Instructions
  <2>2. Vmm!Word(Vmm!Address) = SP(depth)
    <3>1. Vmm!Address = SP(depth) + (-96)
      BY <1>22, <2>1, Addresses DEF Vmm!Address, Vmm!I, CallAt, RegistersAt
    <3> QED BY <1>22, <3>1 DEF Slot, CallAt, FrameAt
  <2>3. /\ guestPc' = guestPc + 4 /\ lr' = lr /\ gpr' = [gpr EXCEPT ![1] = SP(depth)]
        /\ memory' = memory
    BY <2>1, <2>2 DEF Vmm!Execute, Vmm!Load, Vmm!I
  <2>4. RegistersAt(23, depth)'
    BY <1>22, <2>3, Constants, Addresses DEF CallAt, RegistersAt, GuestTypes
  <2>5. FrameAt(23, depth)' /\ Frames(depth)'
    BY <1>22, <2>3, SameSlots, FramesStay, Constants DEF CallAt, FrameAt
  <2> QED BY <1>22, <2>4, <2>5 DEF CallAt
<1>23. CASE k = 23
  <2>1. Vmm!Fetched = Vmm!I("lwz", 0, 1, 8)
    BY <1>0, <1>23, Instructions
  <2>2. Vmm!Word(Vmm!Address) = ReturnTo(depth)
    <3>1. Vmm!Address = SP(depth) + 8
      BY <1>23, <2>1, Addresses DEF Vmm!Address, Vmm!I, CallAt, RegistersAt
    <3> QED BY <1>23, <3>1 DEF Slot, CallAt, FrameAt
  <2>3. /\ guestPc' = guestPc + 4 /\ lr' = lr /\ gpr' = [gpr EXCEPT ![0] = ReturnTo(depth)]
        /\ memory' = memory
    BY <2>1, <2>2 DEF Vmm!Execute, Vmm!Load, Vmm!I
  <2>4. RegistersAt(24, depth)'
    BY <1>23, <2>3, Constants, Addresses DEF CallAt, RegistersAt, GuestTypes
  <2>5. FrameAt(24, depth)' /\ Frames(depth)'
    BY <1>23, <2>3, SameSlots, FramesStay, Constants DEF CallAt, FrameAt
  <2> QED BY <1>23, <2>4, <2>5 DEF CallAt
<1>24. CASE k = 24
  <2>1. Vmm!Fetched = Vmm!I("mtlr", 0, 0, 0)
    BY <1>0, <1>24, Instructions
  <2>3. guestPc' = guestPc + 4 /\ lr' = gpr[0] /\ gpr' = gpr /\ memory' = memory
    BY <2>1 DEF Vmm!Execute, Vmm!Load, Vmm!I
  <2>4. RegistersAt(25, depth)'
    BY <1>24, <2>3, Constants, Addresses DEF CallAt, RegistersAt, GuestTypes
  <2>5. FrameAt(25, depth)' /\ Frames(depth)'
    BY <1>24, <2>3, SameSlots, FramesStay, Constants DEF CallAt, FrameAt
  <2> QED BY <1>24, <2>4, <2>5 DEF CallAt
<1>25. CASE k = 25
  <2>1. Vmm!Fetched = Vmm!I("lmw", 30, 1, -8)
    BY <1>0, <1>25, Instructions
  <2>2. Vmm!Word(Vmm!Address) = CallersR30(depth) /\ Vmm!Word(Vmm!Address + 4) = 0
    <3>1. Vmm!Address = SP(depth) + (-8) /\ Vmm!Address + 4 = SP(depth) + (-4)
      BY <1>25, <2>1, Addresses DEF Vmm!Address, Vmm!I, CallAt, RegistersAt
    <3> QED BY <1>25, <3>1 DEF Slot, CallAt, FrameAt
  <2>3. /\ guestPc' = guestPc + 4 /\ lr' = lr
             /\ gpr' = [gpr EXCEPT ![30] = CallersR30(depth), ![31] = 0]
        /\ memory' = memory
    BY <2>1, <2>2 DEF Vmm!Execute, Vmm!Load, Vmm!I
  <2>4. RegistersAt(26, depth)'
    BY <1>25, <2>3, Constants, Addresses DEF CallAt, RegistersAt, GuestTypes
  <2>5. FrameAt(26, depth)' /\ Frames(depth)'
    BY <1>25, <2>3, SameSlots, FramesStay, Constants DEF CallAt, FrameAt
  <2> QED BY <1>25, <2>4, <2>5 DEF CallAt
<1> QED BY <1>21, <1>22, <1>23, <1>24, <1>25
(* If its number is above 0 it goes on to call itself.                      *)
LEMMA BranchStep ==
    ASSUME Vmm!SizesAssumption, GuestTypes, NEW depth \in 0 .. GuestArgument,
           CallAt(9, depth), Vmm!Execute(Vmm!Fetched)
    PROVE  CallAt(10, depth)' \/ CallAt(13, depth)'
<1>1. Vmm!Fetched = Vmm!I("bgt", 0, 0, 16)
  BY Fetches, Instructions DEF CallAt, RegistersAt, GuestTypes
<1>2. lr' = lr /\ gpr' = gpr /\ memory' = memory
      /\ guestPc' = IF gt THEN guestPc + 16 ELSE guestPc + 4
  BY <1>1 DEF Vmm!Execute, Vmm!Load, Vmm!I
<1>3. Frames(depth)' /\ FrameAt(10, depth)' /\ FrameAt(13, depth)'
  BY <1>2, SameSlots, FramesStay, Constants DEF CallAt, FrameAt
<1>4. Number(depth) \in Nat /\ (gt <=> Number(depth) > 0)
  BY Addresses DEF CallAt, RegistersAt
<1>5. CASE gt
  <2>1. RegistersAt(13, depth)'
    BY <1>2, <1>4, <1>5, Constants, Addresses DEF CallAt, RegistersAt
  <2> QED BY <1>3, <2>1 DEF CallAt
<1>6. CASE ~gt
  <2>1. RegistersAt(10, depth)'
    BY <1>2, <1>4, <1>6, Constants, Addresses DEF CallAt, RegistersAt
  <2> QED BY <1>3, <2>1 DEF CallAt
<1> QED BY <1>5, <1>6

(* The call: the frame is complete, and the next one lies under it.         *)
LEMMA CallStep ==
    ASSUME Vmm!SizesAssumption, GuestTypes, NEW depth \in 0 .. GuestArgument,
           CallAt(16, depth), Vmm!Execute(Vmm!Fetched)
    PROVE  depth + 1 \in 0 .. GuestArgument /\ CallAt(1, depth + 1)'
<1>1. Vmm!Fetched = Vmm!I("bl", 0, 0, -60)
  BY Fetches, Instructions DEF CallAt, RegistersAt, GuestTypes
<1>2. lr' = guestPc + 4 /\ gpr' = gpr /\ memory' = memory /\ guestPc' = guestPc + (-60)
  BY <1>1 DEF Vmm!Execute, Vmm!Load, Vmm!I
<1>3. depth + 1 \in 0 .. GuestArgument
  BY DEF CallAt, RegistersAt, Number, Vmm!SizesAssumption
<1>4. SP(depth + 1) = SP(depth) - 96 /\ Number(depth + 1) = Number(depth) - 1
  BY <1>3 DEF SP, Vmm!TopOfStack, Vmm!Stack, Vmm!SizesAssumption, Number
<1>5. CallersR30(depth + 1) = SP(depth) - 96 /\ ReturnTo(depth + 1) = Vmm!Text + 64
  BY <1>4 DEF CallersR30, ReturnTo
<1>6. RegistersAt(1, depth + 1)'
  BY <1>2, <1>4, <1>5, Constants, Addresses DEF CallAt, RegistersAt
<1>7. Frame(depth)
  BY DEF CallAt, FrameAt, Frame
<1>8. Frames(depth + 1)'
  <2>1. Frames(depth + 1)
    BY <1>7 DEF CallAt, Frames
  <2> QED BY <1>2, <2>1, SameSlots, FramesStay
<1>9. FrameAt(1, depth + 1)'
  BY DEF FrameAt
<1> QED BY <1>3, <1>6, <1>8, <1>9 DEF CallAt

(* The return, into the call that waits for it or to the end of the text.   *)
LEMMA ReturnStep ==
    ASSUME Vmm!SizesAssumption, GuestTypes, NEW depth \in 0 .. GuestArgument,
           CallAt(26, depth), Vmm!Execute(Vmm!Fetched)
    PROVE  \/ depth = 0 /\ Returned'
           \/ depth - 1 \in 0 .. GuestArgument /\ CallAt(17, depth - 1)'
<1>1. Vmm!Fetched = Vmm!I("blr", 0, 0, 0)
  BY Fetches, Instructions DEF CallAt, RegistersAt, GuestTypes
<1>2. lr' = lr /\ gpr' = gpr /\ memory' = memory /\ guestPc' = lr
  BY <1>1 DEF Vmm!Execute, Vmm!Load, Vmm!I
<1>3. /\ lr = ReturnTo(depth) /\ gpr[1] = SP(depth) /\ gpr[30] = CallersR30(depth)
      /\ gpr[31] = 0 /\ gpr[3] = Vmm!FactorialOf[Number(depth)] /\ Frames(depth)
  BY DEF CallAt, RegistersAt
<1>4. CASE depth = 0
  <2>1. SP(depth) = Vmm!TopOfStack /\ Number(depth) = GuestArgument /\ CallersR30(depth) = 0
        /\ ReturnTo(depth) = Vmm!Text + PageSize - 4
    BY <1>4, Addresses DEF SP, Number, CallersR30, ReturnTo, Vmm!SizesAssumption
  <2> QED BY <1>2, <1>3, <1>4, <2>1, Constants DEF Returned
<1>5. CASE depth # 0
  <2> DEFINE d == depth - 1
  <2>1. d \in 0 .. GuestArgument /\ depth = d + 1
    BY <1>5 DEF Vmm!SizesAssumption
  <2>2. SP(depth) = SP(d) - 96 /\ Number(depth) = Number(d) - 1 /\ Number(d) > 0
    BY <2>1 DEF SP, Vmm!TopOfStack, Vmm!Stack, Vmm!SizesAssumption, Number
  <2>3. CallersR30(depth) = SP(depth) /\ ReturnTo(depth) = Vmm!Text + 64
    BY <1>5 DEF CallersR30, ReturnTo
  <2>4. RegistersAt(17, d)'
    BY <1>2, <1>3, <2>1, <2>2, <2>3, Constants, Addresses DEF RegistersAt
  <2>5. Frame(d) /\ Frames(d)
    BY <1>3, <2>1 DEF Frames
  <2>6. FrameAt(17, d)
    BY <2>5 DEF Frame, FrameAt
  <2>7. FrameAt(17, d)' /\ Frames(d)'
    BY <1>2, <2>5, <2>6, SameSlots, FramesStay, Constants DEF FrameAt
  <2> QED BY <2>1, <2>4, <2>7 DEF CallAt
<1> QED BY <1>4, <1>5

(* Wherever the call is, what it touches lies in the stack page.            *)
LEMMA InsideStack ==
    ASSUME Vmm!SizesAssumption, GuestTypes, NEW depth \in 0 .. GuestArgument,
           NEW k \in 1 .. 26, CallAt(k, depth)
    PROVE  /\ Vmm!Fetched.op # "illegal"
           /\ Vmm!Touches \subseteq Vmm!Stack .. Vmm!Stack + PageSize - 4
<1>1. Vmm!Fetched = Vmm!Factorial[k]
  BY Fetches DEF CallAt, RegistersAt, GuestTypes
<1>2. /\ gpr[1] = IF k \in 5 .. 22 THEN SP(depth) - 96 ELSE SP(depth)
      /\ k \in 6 .. 25 => gpr[30] = SP(depth) - 96
  BY DEF CallAt, RegistersAt
<1>3. CASE k \in {1, 5, 8, 9, 10, 12, 14, 15, 16, 17, 19, 24, 26}
  BY <1>1, <1>3, Instructions DEF Vmm!Touches, Vmm!I
<1>4. CASE k \in {2, 25}
  <2>1. Vmm!Fetched.op \in {"stmw", "lmw"} /\ Vmm!Fetched.a = 1 /\ Vmm!Fetched.n = -8
    BY <1>1, <1>4, Instructions DEF Vmm!I
  <2>2. Vmm!Touches = {SP(depth) + (-8), SP(depth) + (-4)}
    BY <1>2, <1>4, <2>1, Addresses DEF Vmm!Touches, Vmm!Address
  <2> QED BY <2>1, <2>2, Addresses
<1>5. CASE k \in {3, 4, 6, 7, 11, 13, 18, 20, 21, 22, 23}
  <2>1. /\ Vmm!Fetched.op \in {"stw", "lwz", "stwu"}
        /\ k = 3 \/ k = 23 => Vmm!Fetched.a = 1 /\ Vmm!Fetched.n = 8
        /\ k = 4 => Vmm!Fetched.a = 1 /\ Vmm!Fetched.n = -96
        /\ k = 22 => Vmm!Fetched.a = 1 /\ Vmm!Fetched.n = 0
        /\ k \in {6, 7, 13, 18} => Vmm!Fetched.a = 30 /\ Vmm!Fetched.n = 120
        /\ k \in {11, 20, 21} => Vmm!Fetched.a = 30 /\ Vmm!Fetched.n = 64
    BY <1>1, <1>5, Instructions DEF Vmm!I
  <2>2. Vmm!Touches = {gpr[Vmm!Fetched.a] + Vmm!Fetched.n}
    BY <2>1 DEF Vmm!Touches, Vmm!Address
  <2>3. \E c \in {-96, -32, 8, 24} : gpr[Vmm!Fetched.a] + Vmm!Fetched.n = SP(depth) + c
    BY <1>2, <1>5, <2>1, Addresses
  <2> QED BY <2>1, <2>2, <2>3, Addresses
<1> QED BY <1>3, <1>4, <1>5

(* What an instruction leaves is of the right type.                         *)
GuestValues ==
    /\ gpr \in [0 .. 31 -> Int] /\ gt \in BOOLEAN /\ lr \in Int
    /\ DOMAIN memory \subseteq Vmm!Stack .. Vmm!Stack + PageSize - 4
    /\ \A x \in DOMAIN memory : memory[x] \in Int
WellFormed(in) ==
    /\ in.t \in 0 .. 31 /\ in.a \in 0 .. 31 /\ in.n \in Int
    /\ in.op \in {"add", "mullw"} => in.n \in 0 .. 31

LEMMA ValuesStay ==
    ASSUME GuestValues, WellFormed(Vmm!Fetched), Vmm!Execute(Vmm!Fetched),
           Vmm!Touches \subseteq Vmm!Stack .. Vmm!Stack + PageSize - 4
    PROVE  /\ gpr' \in [0 .. 31 -> Int] /\ gt' \in BOOLEAN
           /\ DOMAIN memory' \subseteq Vmm!Stack .. Vmm!Stack + PageSize - 4
           /\ \A x \in DOMAIN memory' : memory'[x] \in Int
<1>1. Vmm!Address \in Int /\ \A x : Vmm!Word(x) \in Int
  BY DEF GuestValues, WellFormed, Vmm!Address, Vmm!Word
<1>2. gpr' \in [0 .. 31 -> Int]
  <2>1. Vmm!Fetched.t \in 0 .. 31 /\ Vmm!Fetched.a \in 0 .. 31 /\ Vmm!Fetched.n \in Int
    BY DEF WellFormed
  <2>2. \A r \in 0 .. 31 : gpr[r] \in Int
    BY DEF GuestValues
  <2>3. CASE Vmm!Fetched.op = "li"
    <3>1. gpr' = [gpr EXCEPT ![Vmm!Fetched.t] = Vmm!Fetched.n]
      BY <2>3 DEF Vmm!Execute, Vmm!Load
    <3> QED BY <1>1, <2>1, <2>2, <3>1 DEF GuestValues
  <2>4. CASE Vmm!Fetched.op = "addi"
    <3>1. gpr' = [gpr EXCEPT ![Vmm!Fetched.t] = gpr[Vmm!Fetched.a] + Vmm!Fetched.n]
      BY <2>4 DEF Vmm!Execute, Vmm!Load
    <3> QED BY <1>1, <2>1, <2>2, <3>1 DEF GuestValues
  <2>5. CASE Vmm!Fetched.op = "add"
    <3>2. Vmm!Fetched.n \in 0 .. 31
      BY <2>5 DEF WellFormed
    <3>1. gpr' = [gpr EXCEPT ![Vmm!Fetched.t] = gpr[Vmm!Fetched.a] + gpr[Vmm!Fetched.n]]
      BY <2>5 DEF Vmm!Execute, Vmm!Load
    <3> QED BY <1>1, <2>1, <2>2, <3>1, <3>2 DEF GuestValues
  <2>6. CASE Vmm!Fetched.op = "mullw"
    <3>2. Vmm!Fetched.n \in 0 .. 31
      BY <2>6 DEF WellFormed
    <3>1. gpr' = [gpr EXCEPT ![Vmm!Fetched.t] = gpr[Vmm!Fetched.a] * gpr[Vmm!Fetched.n]]
      BY <2>6 DEF Vmm!Execute, Vmm!Load
    <3> QED BY <1>1, <2>1, <2>2, <3>1, <3>2 DEF GuestValues
  <2>7. CASE Vmm!Fetched.op = "mflr"
    <3>1. gpr' = [gpr EXCEPT ![Vmm!Fetched.t] = lr]
      BY <2>7 DEF Vmm!Execute, Vmm!Load
    <3> QED BY <1>1, <2>1, <2>2, <3>1 DEF GuestValues
  <2>8. CASE Vmm!Fetched.op = "lwz"
    <3>1. gpr' = [gpr EXCEPT ![Vmm!Fetched.t] = Vmm!Word(Vmm!Address)]
      BY <2>8 DEF Vmm!Execute, Vmm!Load
    <3> QED BY <1>1, <2>1, <2>2, <3>1 DEF GuestValues
  <2>9. CASE Vmm!Fetched.op = "stwu"
    <3>1. gpr' = [gpr EXCEPT ![Vmm!Fetched.a] = Vmm!Address]
      BY <2>9 DEF Vmm!Execute, Vmm!Load
    <3> QED BY <1>1, <2>1, <2>2, <3>1 DEF GuestValues
  <2>10. CASE Vmm!Fetched.op = "lmw"
    <3>1. gpr' = [gpr EXCEPT ![30] = Vmm!Word(Vmm!Address), ![31] = Vmm!Word(Vmm!Address + 4)]
      BY <2>10 DEF Vmm!Execute, Vmm!Load
    <3> QED BY <1>1, <2>1, <2>2, <3>1 DEF GuestValues
  <2>11. CASE Vmm!Fetched.op \notin {"li", "addi", "add", "mullw", "mflr", "lwz", "stwu", "lmw"}
    BY <2>11 DEF Vmm!Execute, GuestValues
  <2> QED BY <2>3, <2>4, <2>5, <2>6, <2>7, <2>8, <2>9, <2>10, <2>11
<1>3. gt' \in BOOLEAN
  <2>1. CASE Vmm!Fetched.op = "cmpwi"
    <3>1. gt' = (gpr[Vmm!Fetched.a] > Vmm!Fetched.n)
      BY <2>1 DEF Vmm!Execute
    <3> QED BY <3>1
  <2>2. CASE Vmm!Fetched.op # "cmpwi"
    BY <2>2, Zenon DEF Vmm!Execute, GuestValues
  <2> QED BY <2>1, <2>2
<1>4. ASSUME NEW words, memory' = Vmm!Stored(words), DOMAIN words \subseteq Vmm!Touches,
             \A x \in DOMAIN words : words[x] \in Int
      PROVE  /\ DOMAIN memory' \subseteq Vmm!Stack .. Vmm!Stack + PageSize - 4
             /\ \A x \in DOMAIN memory' : memory'[x] \in Int
  <2>1. /\ DOMAIN memory' = DOMAIN memory \cup DOMAIN words
        /\ \A x \in DOMAIN memory' : memory'[x] = IF x \in DOMAIN words THEN words[x] ELSE memory[x]
    BY <1>4 DEF Vmm!Stored
  <2> QED BY <1>4, <2>1 DEF GuestValues
<1>5. CASE memory' = memory
  BY <1>2, <1>3, <1>5 DEF GuestValues
<1>6. CASE memory' = Vmm!Stored([address \in Vmm!Touches |-> gpr[Vmm!Fetched.t]])
  <2> DEFINE words == [address \in Vmm!Touches |-> gpr[Vmm!Fetched.t]]
  <2>1. DOMAIN words \subseteq Vmm!Touches /\ \A x \in DOMAIN words : words[x] \in Int
    BY DEF GuestValues, WellFormed
  <2>2. memory' = Vmm!Stored(words)
    BY <1>6
  <2> HIDE DEF words
  <2> QED BY <1>2, <1>3, <1>4, <2>1, <2>2
<1>7. CASE memory' = Vmm!Stored([address \in Vmm!Touches |-> IF address = Vmm!Address THEN gpr[30] ELSE gpr[31]])
  <2> DEFINE words == [address \in Vmm!Touches |-> IF address = Vmm!Address THEN gpr[30] ELSE gpr[31]]
  <2>1. DOMAIN words \subseteq Vmm!Touches /\ \A x \in DOMAIN words : words[x] \in Int
    BY DEF GuestValues
  <2>2. memory' = Vmm!Stored(words)
    BY <1>7
  <2> HIDE DEF words
  <2> QED BY <1>2, <1>3, <1>4, <2>1, <2>2
<1>8. \/ memory' = memory
      \/ memory' = Vmm!Stored([address \in Vmm!Touches |-> gpr[Vmm!Fetched.t]])
      \/ memory' = Vmm!Stored([address \in Vmm!Touches |-> IF address = Vmm!Address THEN gpr[30] ELSE gpr[31]])
  BY Zenon DEF Vmm!Execute
<1> QED BY <1>5, <1>6, <1>7, <1>8

LEMMA LinkStep ==
    ASSUME Vmm!SizesAssumption, GuestTypes, NEW depth \in 0 .. GuestArgument,
           NEW k \in 1 .. 26, CallAt(k, depth),
           Vmm!Execute(Vmm!Fetched)
    PROVE  lr' \in 0 .. 3 * PageSize /\ WellFormed(Vmm!Fetched)
<1>1. Vmm!Fetched = Vmm!Factorial[k]
  BY Fetches DEF CallAt, RegistersAt, GuestTypes
<1>2. /\ Vmm!Fetched.op = "bl" => k = 16
      /\ Vmm!Fetched.op = "mtlr" => k = 24 /\ Vmm!Fetched.t = 0
      /\ WellFormed(Vmm!Fetched)
  BY <1>1, Instructions DEF Vmm!I, WellFormed
<1>3. CASE Vmm!Fetched.op = "bl"
  <2>1. lr' = guestPc + 4 /\ guestPc = Vmm!Text + 60
    BY <1>2, <1>3, Addresses DEF Vmm!Execute, CallAt, RegistersAt
  <2> QED BY <1>2, <2>1 DEF Vmm!Text, Vmm!SizesAssumption
<1>4. CASE Vmm!Fetched.op = "mtlr"
  <2>1. lr' = gpr[0] /\ gpr[0] = ReturnTo(depth)
    BY <1>2, <1>4 DEF Vmm!Execute, CallAt, RegistersAt
  <2> QED BY <1>2, <2>1, Addresses
<1>5. CASE Vmm!Fetched.op \notin {"bl", "mtlr"}
  <2>1. lr' = lr
    BY <1>5 DEF Vmm!Execute
  <2> QED BY <1>2, <2>1 DEF GuestTypes, Vmm!TypeOK
<1> QED BY <1>3, <1>4, <1>5

(* One instruction of the factorial.                                        *)
LEMMA FactorialStep ==
    ASSUME Vmm!SizesAssumption, GuestTypes, NEW depth \in 0 .. GuestArgument,
           NEW k \in 1 .. 26, CallAt(k, depth),
           Vmm!Execute(Vmm!Fetched)
    PROVE  Returned' \/ \E n \in 1 .. 26, d \in 0 .. GuestArgument : CallAt(n, d)'
<1>1. CASE k \in 1 .. 6
  BY <1>1, EntryStep
<1>2. CASE k \in {7, 8, 10, 11, 12}
  BY <1>2, TestStep
<1>3. CASE k \in {13, 14, 15, 17, 18, 19, 20}
  BY <1>3, MultiplyStep
<1>4. CASE k \in 21 .. 25
  BY <1>4, ExitStep
<1>5. CASE k = 9
  BY <1>5, BranchStep
<1>6. CASE k = 16
  BY <1>6, CallStep
<1>7. CASE k = 26
  BY <1>7, ReturnStep
<1> QED BY <1>1, <1>2, <1>3, <1>4, <1>5, <1>6, <1>7

(* One instruction of the other program.                                    *)
LEMMA DummyInstructions ==
    ASSUME Vmm!SizesAssumption, demo_id = 0, NEW k \in {1, 2, 3, 5, 6}, AddsAt(k)
    PROVE  Vmm!Fetched = Vmm!Dummy[k]
<1>1. (guestPc - Vmm!Text) \div 4 + 1 = k
  BY DEF Vmm!SizesAssumption, Vmm!Text, AddsAt
<1>2. k \in DOMAIN Vmm!Dummy
  BY DEF Vmm!Dummy
<1>3. Vmm!SupportedDemos[demo_id + 1] = Vmm!Dummy
  BY DEF Vmm!SupportedDemos
<1> QED BY <1>1, <1>2, <1>3, Zenon DEF Vmm!Fetched

LEMMA DummyStep ==
    ASSUME Vmm!SizesAssumption, GuestValues, demo_id = 0, NEW k \in {1, 2, 3, 5, 6}, AddsAt(k)
    PROVE  /\ WellFormed(Vmm!Fetched) /\ Vmm!Touches = {}
           /\ k = 6 <=> Vmm!Fetched.op = "illegal"
           /\ k # 6 /\ Vmm!Execute(Vmm!Fetched) => lr' = lr
                /\ \E n \in {1, 2, 3, 5, 6} : AddsAt(n)'
<1>1. Vmm!Fetched = Vmm!Dummy[k]
  BY DummyInstructions
<1>2. /\ Vmm!Dummy[1] = Vmm!I("li", 10, 0, 4) /\ Vmm!Dummy[2] = Vmm!I("li", 11, 0, 5)
      /\ Vmm!Dummy[3] = Vmm!I("ba", 0, 0, Vmm!Text + 4 * 4)
           /\ Vmm!Dummy[5] = Vmm!I("add", 12, 10, 11)
      /\ Vmm!Dummy[6] = Vmm!I("illegal", 0, 0, 0)
  BY DEF Vmm!Dummy
<1>3. Vmm!Text \in Int /\ Vmm!Text' = Vmm!Text
  BY Constants DEF Vmm!Text, Vmm!SizesAssumption
<1>4. WellFormed(Vmm!Fetched) /\ Vmm!Touches = {} /\ (k = 6 <=> Vmm!Fetched.op = "illegal")
  BY <1>1, <1>2, <1>3 DEF WellFormed, Vmm!Touches, Vmm!I
<1>5. ASSUME k # 6, Vmm!Execute(Vmm!Fetched)
      PROVE  lr' = lr /\ \E n \in {1, 2, 3, 5, 6} : AddsAt(n)'
  <2>1. CASE k = 1
    <3>1. guestPc' = guestPc + 4 /\ lr' = lr /\ gpr' = [gpr EXCEPT ![10] = 4]
      BY <1>1, <1>2, <1>5, <2>1 DEF Vmm!Execute, Vmm!Load, Vmm!I
    <3>2. AddsAt(2)'
      BY <1>3, <2>1, <3>1 DEF AddsAt, GuestValues
    <3> QED BY <3>1, <3>2
  <2>2. CASE k = 2
    <3>1. guestPc' = guestPc + 4 /\ lr' = lr /\ gpr' = [gpr EXCEPT ![11] = 5]
      BY <1>1, <1>2, <1>5, <2>2 DEF Vmm!Execute, Vmm!Load, Vmm!I
    <3>2. AddsAt(3)'
      BY <1>3, <2>2, <3>1 DEF AddsAt, GuestValues
    <3> QED BY <3>1, <3>2
  <2>3. CASE k = 3
    <3>1. guestPc' = Vmm!Text + 4 * 4 /\ lr' = lr /\ gpr' = gpr
      BY <1>1, <1>2, <1>5, <2>3 DEF Vmm!Execute, Vmm!Load, Vmm!I
    <3>2. AddsAt(5)'
      BY <1>3, <2>3, <3>1 DEF AddsAt, GuestValues
    <3> QED BY <3>1, <3>2
  <2>4. CASE k = 5
    <3>1. guestPc' = guestPc + 4 /\ lr' = lr /\ gpr' = [gpr EXCEPT ![12] = gpr[10] + gpr[11]]
      BY <1>1, <1>2, <1>5, <2>4 DEF Vmm!Execute, Vmm!Load, Vmm!I
    <3>2. AddsAt(6)'
      BY <1>3, <2>4, <3>1 DEF AddsAt, GuestValues
    <3> QED BY <3>1, <3>2
  <2> QED BY <1>5, <2>1, <2>2, <2>3, <2>4
<1> QED BY <1>4, <1>5

(* Once it has returned, its next instruction is an illegal one.            *)
LEMMA BeyondCode ==
    ASSUME Vmm!SizesAssumption, demo_id = 1, guestPc = Vmm!Text + PageSize - 4
    PROVE  Vmm!Fetched = Vmm!I("illegal", 0, 0, 0) /\ Vmm!Touches = {}
<1>1. (guestPc - Vmm!Text) \div 4 + 1 > 26
  BY DEF Vmm!SizesAssumption, Vmm!Text
<1>2. (guestPc - Vmm!Text) \div 4 + 1 \notin DOMAIN Vmm!Factorial
  BY <1>1 DEF Vmm!Factorial
<1>3. Vmm!SupportedDemos[demo_id + 1] = Vmm!Factorial
  BY DEF Vmm!SupportedDemos
<1>4. Vmm!Fetched = Vmm!I("illegal", 0, 0, 0)
  BY <1>2, <1>3, Zenon DEF Vmm!Fetched
<1> QED BY <1>4 DEF Vmm!Touches, Vmm!I

(* Without its stack page it gets to the first word it saves.               *)
LEMMA NoStackStep ==
    ASSUME Vmm!SizesAssumption, GuestValues, demo_id = 1, "stack" \notin mapped,
           guestPc \in {Vmm!Text, Vmm!Text + 4}
    PROVE  /\ WellFormed(Vmm!Fetched) /\ Vmm!Fetched.op # "illegal"
           /\ guestPc = Vmm!Text => Vmm!Touches = {}
                /\ (Vmm!Execute(Vmm!Fetched) => lr' = lr /\ guestPc' = Vmm!Text + 4)
           /\ guestPc = Vmm!Text + 4 => Vmm!Faults
<1>1. Vmm!Text \in Int
  BY DEF Vmm!Text, Vmm!SizesAssumption
<1>2. CASE guestPc = Vmm!Text
  <2>1. guestPc = Vmm!Text + 4 * (1 - 1) /\ guestPc # Vmm!Text + 4
    BY <1>1, <1>2
  <2>2. Vmm!Fetched = Vmm!I("mflr", 0, 0, 0)
    BY <2>1, Fetches, Instructions
  <2> QED BY <1>2, <2>1, <2>2 DEF WellFormed, Vmm!Touches, Vmm!Execute, Vmm!I
<1>3. CASE guestPc = Vmm!Text + 4
  <2>1. guestPc = Vmm!Text + 4 * (2 - 1) /\ guestPc # Vmm!Text
    BY <1>1, <1>3
  <2>2. Vmm!Fetched = Vmm!I("stmw", 30, 1, -8)
    BY <2>1, Fetches, Instructions
  <2>3. Vmm!Address \in Vmm!Touches
    BY <2>2 DEF Vmm!Touches, Vmm!I
  <2> QED BY <2>1, <2>2, <2>3 DEF WellFormed, Vmm!Faults, Vmm!I
<1> QED BY <1>2, <1>3

LEMMA GuestFaults ==
    ASSUME Vmm!SizesAssumption, VmmInv, stage = "guest", "stack" \in mapped
    PROVE  ~Vmm!Faults
<1>1. Guest /\ GuestValues /\ demo_id \in {0, 1}
  BY DEF VmmInv, Vmm!TypeOK, GuestValues, Monitor, Vmm!SizesAssumption
<1>2. Vmm!Touches \subseteq Vmm!Stack .. Vmm!Stack + PageSize - 4
  <2>1. CASE demo_id = 0
    BY <1>1, <2>1, DummyStep DEF Guest
  <2>2. CASE demo_id = 1 /\ Returned
    BY <2>2, BeyondCode DEF Returned
  <2>3. CASE demo_id = 1 /\ ~Returned
    <3>1. PICK k \in 1 .. 26, depth \in 0 .. GuestArgument : CallAt(k, depth)
      BY <1>1, <2>3 DEF Guest
    <3>2. GuestTypes
      BY <2>3 DEF GuestTypes, VmmInv
    <3> QED BY <3>1, <3>2, InsideStack
  <2> QED BY <1>1, <2>1, <2>2, <2>3
<1> QED BY <1>2 DEF Vmm!Faults

(* The guest gives control back.                                            *)
LEMMA GuestStops ==
    ASSUME Vmm!SizesAssumption, VmmInv, stage = "guest", Vmm!Fetched.op = "illegal" \/ Vmm!Faults
    PROVE  GuestEnded
<1>1. Guest /\ GuestValues /\ demo_id \in {0, 1}
  BY DEF VmmInv, Vmm!TypeOK, GuestValues, Monitor, Vmm!SizesAssumption
<1>2. CASE demo_id = 0
  <2>1. PICK k \in {1, 2, 3, 5, 6} : AddsAt(k)
    BY <1>1, <1>2 DEF Guest
  <2>2. k = 6
    BY <1>1, <1>2, <2>1, DummyStep DEF Vmm!Faults
  <2> QED BY <1>2, <2>1, <2>2 DEF AddsAt, GuestEnded
<1>3. CASE demo_id = 1 /\ "stack" \in mapped
  <2>1. ~Vmm!Faults
    BY <1>3, GuestFaults
  <2>2. ASSUME NEW k \in 1 .. 26, NEW depth \in 0 .. GuestArgument, CallAt(k, depth) PROVE FALSE
    <3>1. GuestTypes
      BY <1>3 DEF GuestTypes, VmmInv
    <3> QED BY <2>1, <2>2, <3>1, InsideStack
  <2> QED BY <1>1, <1>3, <2>2 DEF Guest, GuestEnded
<1>4. CASE demo_id = 1 /\ "stack" \notin mapped
  <2>1. guestPc = Vmm!Text + 4
    BY <1>1, <1>4, NoStackStep DEF Guest, Vmm!Faults
  <2> QED BY <1>4, <2>1 DEF GuestEnded
<1> QED BY <1>1, <1>2, <1>3, <1>4

(* One instruction of the guest.                                            *)
LEMMA GuestRuns ==
    ASSUME Vmm!SizesAssumption, VmmInv, stage = "guest", Vmm!Fetched.op # "illegal", ~Vmm!Faults,
           Vmm!Execute(Vmm!Fetched), UNCHANGED <<demo_id, pages, context, mapped>>
    PROVE  /\ Guest' /\ {guestPc', lr'} \subseteq 0 .. 3 * PageSize
           /\ gpr' \in [0 .. 31 -> Int] /\ gt' \in BOOLEAN
           /\ DOMAIN memory' \subseteq Vmm!Stack .. Vmm!Stack + PageSize - 4
           /\ \A x \in DOMAIN memory' : memory'[x] \in Int
<1>1. Guest /\ GuestValues /\ demo_id \in {0, 1} /\ lr \in 0 .. 3 * PageSize
  BY DEF VmmInv, Vmm!TypeOK, GuestValues, Monitor, Vmm!SizesAssumption
<1>2. Vmm!Text \in Int /\ Vmm!Text' = Vmm!Text
      /\ \A n \in 0 .. 25 : Vmm!Text + 4 * n \in 0 .. 3 * PageSize
  BY Constants DEF Vmm!Text, Vmm!SizesAssumption
<1>3. Vmm!Touches \subseteq Vmm!Stack .. Vmm!Stack + PageSize - 4
  BY DEF Vmm!Faults
<1>4. WellFormed(Vmm!Fetched) => /\ gpr' \in [0 .. 31 -> Int] /\ gt' \in BOOLEAN
                             /\ DOMAIN memory' \subseteq Vmm!Stack .. Vmm!Stack + PageSize - 4
                             /\ \A x \in DOMAIN memory' : memory'[x] \in Int
  BY <1>1, <1>3, ValuesStay
<1>5. CASE demo_id = 0
  <2>1. PICK k \in {1, 2, 3, 5, 6} : AddsAt(k)
    BY <1>1, <1>5 DEF Guest
  <2>2. WellFormed(Vmm!Fetched) /\ lr' = lr /\ \E n \in {1, 2, 3, 5, 6} : AddsAt(n)'
    BY <1>1, <1>5, <2>1, DummyStep
  <2>3. Guest'
    BY <1>5, <2>2 DEF Guest
  <2>4. guestPc' \in 0 .. 3 * PageSize
    <3>1. PICK n \in {1, 2, 3, 5, 6} : AddsAt(n)'
      BY <2>2
    <3> QED BY <1>2, <3>1 DEF AddsAt
  <2> QED BY <1>1, <1>4, <2>2, <2>3, <2>4
<1>6. CASE demo_id = 1 /\ "stack" \in mapped
  <2>1. ~Returned
    BY <1>6, BeyondCode DEF Returned, Vmm!I
  <2>2. PICK k \in 1 .. 26, depth \in 0 .. GuestArgument : CallAt(k, depth)
    BY <1>1, <1>6, <2>1 DEF Guest
  <2>3. GuestTypes
    BY <1>6 DEF GuestTypes, VmmInv
  <2>4. WellFormed(Vmm!Fetched) /\ lr' \in 0 .. 3 * PageSize
    BY <2>2, <2>3, LinkStep
  <2>5. Returned' \/ \E n \in 1 .. 26, d \in 0 .. GuestArgument : CallAt(n, d)'
    BY <2>2, <2>3, FactorialStep
  <2>6. Guest'
    BY <1>6, <2>5 DEF Guest
  <2>7. guestPc' \in 0 .. 3 * PageSize
    <3>1. CASE Returned'
      BY <1>2, <3>1 DEF Returned, Vmm!Text, Vmm!SizesAssumption
    <3>2. ASSUME NEW n \in 1 .. 26, NEW d \in 0 .. GuestArgument,
                 CallAt(n, d)' PROVE guestPc' \in 0 .. 3 * PageSize
      <4>1. guestPc' = Vmm!Text + 4 * (n - 1) /\ n - 1 \in 0 .. 25
        BY <1>2, <3>2 DEF CallAt, RegistersAt
      <4> QED BY <1>2, <4>1
    <3> QED BY <2>5, <3>1, <3>2
  <2> QED BY <1>4, <2>4, <2>6, <2>7
<1>7. CASE demo_id = 1 /\ "stack" \notin mapped
  <2>1. WellFormed(Vmm!Fetched) /\ lr' = lr /\ guestPc' = Vmm!Text + 4
    BY <1>1, <1>7, NoStackStep DEF Guest
  <2>2. Guest'
    BY <1>2, <1>7, <2>1 DEF Guest
  <2>3. guestPc' \in 0 .. 3 * PageSize
    BY <1>2, <2>1
  <2> QED BY <1>1, <1>4, <2>1, <2>2, <2>3
<1> QED BY <1>1, <1>5, <1>6, <1>7

LEMMA RunGuestStep == Vmm!SizesAssumption /\ VmmInv /\ Vmm!RunGuest => VmmInv'
<1> SUFFICES ASSUME Vmm!SizesAssumption, VmmInv, Vmm!RunGuest PROVE VmmInv'
  OBVIOUS
<1>1. stage = "guest" /\ UNCHANGED <<demo_id, pages, context, mapped>>
  BY DEF Vmm!RunGuest
<1>2. CASE Vmm!Fetched.op = "illegal" \/ Vmm!Faults
  <2>1. stage' = "report" /\ UNCHANGED Vmm!machine
    BY <1>2 DEF Vmm!RunGuest
  <2>2. GuestEnded
    BY <1>1, <1>2, GuestStops
  <2>3. GuestEnded'
    BY <1>1, <2>1, <2>2, Constants DEF GuestEnded, Returned, Vmm!machine
  <2>4. Vmm!TypeOK'
    BY <1>1, <2>1 DEF VmmInv, Vmm!TypeOK, Vmm!machine, Vmm!Stack
  <2>5. Monitor'
    BY <1>1, <2>1 DEF VmmInv, Monitor
  <2> QED BY <2>1, <2>3, <2>4, <2>5 DEF VmmInv, Vmm!machine
<1>3. CASE Vmm!Fetched.op # "illegal" /\ ~Vmm!Faults
  <2>1. stage' = stage /\ Vmm!Execute(Vmm!Fetched)
    BY <1>3 DEF Vmm!RunGuest
  <2>2. /\ Guest' /\ {guestPc', lr'} \subseteq 0 .. 3 * PageSize
        /\ gpr' \in [0 .. 31 -> Int] /\ gt' \in BOOLEAN
        /\ DOMAIN memory' \subseteq Vmm!Stack .. Vmm!Stack + PageSize - 4
        /\ \A x \in DOMAIN memory' : memory'[x] \in Int
    BY <1>1, <1>3, <2>1, GuestRuns
  <2>3. Vmm!TypeOK'
    BY <1>1, <2>2 DEF VmmInv, Vmm!TypeOK, Vmm!Stack
  <2>4. Monitor'
    BY <1>1, <2>1 DEF VmmInv, Monitor
  <2> QED BY <1>1, <2>1, <2>2, <2>3, <2>4 DEF VmmInv
<1> QED BY <1>2, <1>3

(* The monitor sets the guest up.                                           *)
LEMMA SetUpStep ==
    ASSUME Vmm!SizesAssumption, VmmInv,
           \/ Vmm!Usage \/ Vmm!Allocate("state", "text") \/ Vmm!Allocate("text", "stack")
                \/ Vmm!Allocate("stack", "init")
           \/ Vmm!InitContext \/ Vmm!MapStack
    PROVE  VmmInv'
<1>1. Vmm!Stack' = Vmm!Stack /\ Vmm!TopOfStack' = Vmm!TopOfStack /\ Vmm!Text' = Vmm!Text
      /\ Zeroes' = Zeroes
      /\ Vmm!Text \in 0 .. 3 * PageSize
  BY Constants DEF Vmm!Stack, Zeroes, Vmm!Text, Vmm!SizesAssumption
<1>2. Vmm!TopOfStack \in Int /\ Zeroes \in [0 .. 31 -> Int]
  BY DEF Vmm!TopOfStack, Vmm!Stack, Vmm!SizesAssumption, Zeroes
<1>3. CASE Vmm!Usage
  BY <1>1, <1>3 DEF Vmm!Usage, VmmInv, Vmm!TypeOK, Monitor, Vmm!machine, Vmm!SupportedDemos
<1>4. CASE Vmm!Allocate("state", "text") \/ Vmm!Allocate("text", "stack")
           \/ Vmm!Allocate("stack", "init")
  BY <1>1, <1>4, Zenon DEF Vmm!Allocate, VmmInv, Vmm!TypeOK, Monitor, Vmm!machine
<1>5. CASE Vmm!InitContext
  <2>1. stage = "init" /\ gpr = Zeroes /\ stage' \in {"map", "out"} /\ memory' = memory
        /\ demo_id \in {0, 1}
    BY <1>5 DEF Vmm!InitContext, VmmInv, Monitor
  <2>2. /\ stage' = "map" => context' = TRUE /\ guestPc' = Vmm!Text
             /\ gpr' = [Zeroes EXCEPT ![1] = Vmm!TopOfStack]
        /\ stage' = "out" => UNCHANGED <<context, guestPc, gpr>>
    BY <1>5, <2>1 DEF Vmm!InitContext
  <2>3. Vmm!TypeOK'
    BY <1>1, <1>5, <2>1, <2>2 DEF Vmm!InitContext, VmmInv, Vmm!TypeOK
  <2>4. Monitor'
    BY <1>5, <2>1, <2>2, Zenon DEF Vmm!InitContext, VmmInv, Monitor
  <2>5. gpr' \in [0 .. 31 -> Int]
    BY <1>2, <2>1, <2>2
  <2> QED BY <1>1, <2>1, <2>2, <2>3, <2>4, <2>5 DEF VmmInv
<1>6. CASE Vmm!MapStack
  BY <1>1, <1>6 DEF Vmm!MapStack, VmmInv, Vmm!TypeOK, Monitor, Vmm!machine
<1> QED BY <1>3, <1>4, <1>5, <1>6

LEMMA FillTextStep == Vmm!SizesAssumption /\ VmmInv /\ Vmm!FillText => VmmInv'
<1> SUFFICES ASSUME Vmm!SizesAssumption, VmmInv, Vmm!FillText PROVE VmmInv'
  OBVIOUS
<1>1. /\ stage = "fill" /\ stage' = "execute" /\ UNCHANGED <<demo_id, pages, context, mapped,
           guestPc, gt, memory>>
      /\ guestPc = Vmm!Text /\ gpr = [Zeroes EXCEPT ![1] = Vmm!TopOfStack] /\ demo_id \in {0, 1}
  BY DEF Vmm!FillText, VmmInv, Monitor
<1>2. Vmm!Text \in Int /\ Vmm!Text' = Vmm!Text /\ Vmm!TopOfStack \in Int
  BY Constants DEF Vmm!Text, Vmm!TopOfStack, Vmm!Stack, Vmm!SizesAssumption
<1>3. demo_id = 0 => Vmm!SupportedDemos[demo_id + 1] # Vmm!Factorial
  <2>1. demo_id = 0 => Vmm!SupportedDemos[demo_id + 1] = Vmm!Dummy
    BY DEF Vmm!SupportedDemos
  <2>2. Vmm!Dummy[1] # Vmm!Factorial[1]
    BY Instructions DEF Vmm!Dummy, Vmm!I
  <2> QED BY <2>1, <2>2
<1>4. demo_id = 1 => Vmm!SupportedDemos[demo_id + 1] = Vmm!Factorial
  BY DEF Vmm!SupportedDemos
<1>5. CASE demo_id = 0
  <2>1. UNCHANGED <<gpr, lr>>
    BY <1>3, <1>5 DEF Vmm!FillText
  <2>2. AddsAt(1)'
    BY <1>1, <1>2 DEF AddsAt
  <2>3. Guest'
    BY <1>1, <1>5, <2>2 DEF Guest
  <2> QED BY <1>1, <2>1, <2>3, Constants DEF VmmInv, Vmm!TypeOK, Monitor, Vmm!Stack
<1>6. CASE demo_id = 1
  <2>1. gpr' = [gpr EXCEPT ![3] = GuestArgument] /\ lr' = Vmm!Text + PageSize - 4
    BY <1>4, <1>6 DEF Vmm!FillText
  <2>2. /\ gpr'[1] = Vmm!TopOfStack /\ gpr'[3] = GuestArgument /\ gpr'[30] = 0 /\ gpr'[31] = 0
        /\ gpr' \in [0 .. 31 -> Int]
    BY <1>1, <1>2, <2>1 DEF Zeroes, Vmm!SizesAssumption
  <2>3. SP(0) = Vmm!TopOfStack /\ CallersR30(0) = 0 /\ ReturnTo(0) = Vmm!Text + PageSize - 4
        /\ Number(0) = GuestArgument
    BY <1>2 DEF SP, CallersR30, ReturnTo, Number, Vmm!SizesAssumption
  <2>4. RegistersAt(1, 0)'
    BY <1>1, <1>2, <2>1, <2>2, <2>3, Constants DEF RegistersAt
  <2>5. FrameAt(1, 0)' /\ Frames(0)'
    BY DEF FrameAt, Frames
  <2>6. 1 \in 1 .. 26 /\ 0 \in 0 .. GuestArgument /\ CallAt(1, 0)'
    BY <2>4, <2>5 DEF CallAt, Vmm!SizesAssumption
  <2>7. Guest'
    <3>1. guestPc' \in {Vmm!Text, Vmm!Text + 4}'
      BY <1>1, <1>2
    <3> QED BY <1>1, <1>6, <2>6, <3>1 DEF Guest
  <2>8. lr' \in 0 .. 3 * PageSize
    BY <2>1 DEF Vmm!Text, Vmm!SizesAssumption
  <2> QED BY <1>1, <2>2, <2>7, <2>8 DEF VmmInv, Vmm!TypeOK, Monitor, Vmm!Stack
<1> QED BY <1>1, <1>5, <1>6

LEMMA MapExecuteStep == Vmm!SizesAssumption /\ VmmInv /\ Vmm!MapExecute => VmmInv'
<1> SUFFICES ASSUME Vmm!SizesAssumption, VmmInv, Vmm!MapExecute PROVE VmmInv'
  OBVIOUS
<1>1. /\ stage = "execute" /\ UNCHANGED <<demo_id, pages, context, Vmm!machine>>
      /\ Guest /\ mapped \subseteq {"stack"} /\ demo_id \in {0, 1}
  BY DEF Vmm!MapExecute, VmmInv, Monitor
<1>2. Vmm!TypeOK'
  BY <1>1 DEF Vmm!MapExecute, VmmInv, Vmm!TypeOK, Vmm!machine, Vmm!Stack
<1>3. CASE mapped' = mapped \cup {"text"} /\ stage' = "guest"
  <2>1. Guest'
    <3>1. "stack" \in mapped' <=> "stack" \in mapped
      BY <1>3
    <3>2. demo_id = 0 => \E k \in {1, 2, 3, 5, 6} : AddsAt(k)'
      BY <1>1, Constants DEF Guest, AddsAt, Vmm!machine
    <3>3. Returned => Returned'
      BY <1>1, Constants DEF Returned, Vmm!machine
    <3>4. \A k \in 1 .. 26, depth \in 0 .. GuestArgument : CallAt(k, depth) => CallAt(k, depth)'
      <4> TAKE k \in 1 .. 26, depth \in 0 .. GuestArgument
      <4> HAVE CallAt(k, depth)
      <4>1. RegistersAt(k, depth)'
        BY <1>1, Constants DEF CallAt, RegistersAt, Vmm!machine
      <4>2. memory' = memory
        BY <1>1 DEF Vmm!machine
      <4>3. FrameAt(k, depth)' /\ Frames(depth)'
        BY <4>2, SameSlots, FramesStay, Constants DEF CallAt, FrameAt
      <4> QED BY <4>1, <4>3 DEF CallAt
    <3>5. guestPc \in {Vmm!Text, Vmm!Text + 4} => guestPc' \in {Vmm!Text, Vmm!Text + 4}'
      BY <1>1, Constants DEF Vmm!machine
    <3> QED BY <1>1, <3>1, <3>2, <3>3, <3>4, <3>5 DEF Guest
  <2>2. Monitor'
    BY <1>1, <1>3 DEF VmmInv, Monitor
  <2> QED BY <1>1, <1>2, <1>3, <2>1, <2>2 DEF VmmInv, Vmm!machine
<1>4. CASE stage' = "report" /\ mapped' = mapped
  <2>1. Monitor'
    BY <1>1, <1>4 DEF VmmInv, Monitor
  <2> QED BY <1>1, <1>2, <1>4, <2>1 DEF VmmInv, Vmm!machine
<1> QED BY <1>3, <1>4 DEF Vmm!MapExecute

LEMMA VmmStart == Vmm!SizesAssumption /\ Vmm!Init => VmmInv
<1> SUFFICES ASSUME Vmm!SizesAssumption, Vmm!Init PROVE VmmInv
  OBVIOUS
<1>1. DOMAIN memory = {}
  BY DEF Vmm!Init
<1>2. 0 \in 0 .. 3 * PageSize
  BY DEF Vmm!SizesAssumption
<1>3. Vmm!TypeOK
  <2>1. demo_id \in -1 .. 2 /\ {guestPc, lr} \subseteq 0 .. 3 * PageSize
    BY <1>2 DEF Vmm!Init
  <2>2. pages = {} /\ mapped = {} /\ context \in BOOLEAN /\ gt \in BOOLEAN
    BY DEF Vmm!Init
  <2> QED BY <1>1, <2>1, <2>2 DEF Vmm!TypeOK
<1>4. Monitor
  BY DEF Vmm!Init, Monitor
<1>5. gpr = Zeroes /\ gpr \in [0 .. 31 -> Int]
  BY DEF Vmm!Init, Zeroes
<1> QED BY <1>1, <1>3, <1>4, <1>5 DEF Vmm!Init, VmmInv

LEMMA VmmStep == Vmm!SizesAssumption /\ VmmInv /\ [Vmm!Next]_(Vmm!vars) => VmmInv'
<1> SUFFICES ASSUME Vmm!SizesAssumption, VmmInv, [Vmm!Next]_(Vmm!vars) PROVE VmmInv'
  OBVIOUS
<1>1. CASE Vmm!Report \/ Vmm!TearDown \/ Vmm!Out
  <2>1. stage' \in {"tear down", "out", "exit"} /\ UNCHANGED <<demo_id, Vmm!machine>>
    BY <1>1, Zenon DEF Vmm!Report, Vmm!TearDown, Vmm!Out
  <2>2. Vmm!TypeOK'
    BY <1>1, Zenon DEF Vmm!Report, Vmm!TearDown, Vmm!Out, VmmInv, Vmm!TypeOK, Vmm!machine, Vmm!Stack
  <2>3. Monitor'
    BY <1>1, Zenon DEF Vmm!Report, Vmm!TearDown, Vmm!Out, VmmInv, Vmm!TypeOK, Monitor
  <2> QED BY <2>1, <2>2, <2>3, Zenon DEF VmmInv, Vmm!machine
<1>2. CASE UNCHANGED Vmm!vars
  <2>1. UNCHANGED <<stage, demo_id, pages, context, mapped, gpr, guestPc, lr, gt, memory>>
    BY <1>2 DEF Vmm!vars, Vmm!machine
  <2>2. Guest => Guest'
    <3>1. Returned => Returned'
      BY <2>1, Constants DEF Returned
    <3>2. \A k : AddsAt(k) => AddsAt(k)'
      BY <2>1, Constants DEF AddsAt
    <3>3. \A k \in 1 .. 26, depth \in 0 .. GuestArgument : CallAt(k, depth) => CallAt(k, depth)'
      <4> TAKE k \in 1 .. 26, depth \in 0 .. GuestArgument
      <4> HAVE CallAt(k, depth)
      <4>1. RegistersAt(k, depth)'
        BY <2>1, Constants DEF CallAt, RegistersAt
      <4>2. FrameAt(k, depth)' /\ Frames(depth)'
        BY <2>1, SameSlots, FramesStay, Constants DEF CallAt, FrameAt
      <4> QED BY <4>1, <4>2 DEF CallAt
    <3> QED BY <2>1, <3>1, <3>2, <3>3, Constants DEF Guest
  <2>3. GuestEnded => GuestEnded'
    BY <2>1, Constants DEF GuestEnded, Returned
  <2>4. Vmm!TypeOK' /\ Monitor'
    BY <2>1, Zenon DEF VmmInv, Vmm!TypeOK, Monitor, Vmm!Stack
  <2> QED BY <2>1, <2>2, <2>3, <2>4, Constants DEF VmmInv, Zeroes
<1> QED BY <1>1, <1>2, SetUpStep, FillTextStep, MapExecuteStep, RunGuestStep DEF Vmm!Next

-----------------------------------------------------------------------------
\* For every argument whose factorial fits a register and every page with room for
\* its calls (vmachmon32.c:227): the guest touches nothing but its stack page, and
\* gives control back with its result, its registers put back; the monitor ends
\* without a page.
THEOREM GuestsFinish ==
    ASSUME Vmm!SizesAssumption
    PROVE  Vmm!Spec => []GuestComputes
<1>1. Vmm!Init => VmmInv
  BY VmmStart
<1>2. VmmInv /\ [Vmm!Next]_(Vmm!vars) => VmmInv'
  BY VmmStep
<1>3. VmmInv => GuestComputes
  <2> SUFFICES ASSUME VmmInv PROVE GuestComputes
    OBVIOUS
  <2>1. stage = "guest" => ~(Vmm!Faults /\ "stack" \in mapped)
        /\ {"text", "stack"} \subseteq pages /\ context
    BY GuestFaults DEF VmmInv, Monitor
  <2>2. stage = "report" /\ "text" \in mapped =>
          CASE demo_id = 0 -> gpr[12] = 9 /\ guestPc = Vmm!Text + 5 * 4
            [] demo_id = 1 /\ "stack" \in mapped ->
                 /\ gpr[3] = Vmm!FactorialOf[GuestArgument] /\ guestPc = Vmm!Text + PageSize - 4
                 /\ gpr[1] = Vmm!TopOfStack /\ gpr[30] = 0 /\ gpr[31] = 0
            [] OTHER -> guestPc = Vmm!Text + 4
    BY DEF VmmInv, GuestEnded, Returned
  <2>3. Vmm!TypeOK /\ (stage = "exit" => pages = {})
    BY Zenon DEF VmmInv, Monitor
  <2> QED BY <2>1, <2>2, <2>3 DEF GuestComputes, Vmm!GuestComputes
<1> QED BY <1>1, <1>2, <1>3, PTL DEF Vmm!Spec

-----------------------------------------------------------------------------
(* The programs together: in every step one of them takes a step of its     *)
(* own, and the others stay as they are.                                    *)
LEMMA Apart ==
    ASSUME [MCNext]_mcVars
    PROVE  /\ [Next]_vars
           /\ [Chat!Next]_(Chat!vars)
           /\ [Cooperation!Next]_(Cooperation!vars)
           /\ [Exception!Next]_(Exception!vars)
           /\ [Interposing!Next]_(Interposing!vars)
           /\ [Inheritance!Next]_(Inheritance!vars)
           /\ [Rerouting!Next]_(Rerouting!vars)
           /\ [Names!Next]_(Names!vars)
           /\ [Region!Next]_(Region!vars)
           /\ [Watch!Next]_(Watch!vars)
           /\ [Query!Next]_(Query!vars)
           /\ [Tasks!Next]_(Tasks!vars)
           /\ [Events!Next]_(Events!vars)
           /\ [Vmm!Next]_(Vmm!vars)
<1>1. [Next]_vars
  BY Zenon DEF MCNext, mcVars
<1>2. [Chat!Next]_(Chat!vars)
  BY Zenon DEF MCNext, mcVars, chat, Chat!vars
<1>3. [Cooperation!Next]_(Cooperation!vars)
  BY Zenon DEF MCNext, mcVars, cooperation, Cooperation!vars
<1>4. [Exception!Next]_(Exception!vars)
  BY Zenon DEF MCNext, mcVars, exception, Exception!vars
<1>5. [Interposing!Next]_(Interposing!vars)
  BY Zenon DEF MCNext, mcVars, injection, Interposing!vars
<1>6. [Inheritance!Next]_(Inheritance!vars)
  BY Zenon DEF MCNext, mcVars, inheritance, Inheritance!vars
<1>7. [Rerouting!Next]_(Rerouting!vars)
  BY Zenon DEF MCNext, mcVars, rerouting, Rerouting!vars
<1>8. [Names!Next]_(Names!vars)
  BY Zenon DEF MCNext, mcVars, names, Names!vars
<1>9. [Region!Next]_(Region!vars)
  BY Zenon DEF MCNext, mcVars, sharedRegion, Region!vars
<1>10. [Watch!Next]_(Watch!vars)
  BY Zenon DEF MCNext, mcVars, watch, Watch!vars
<1>11. [Query!Next]_(Query!vars)
  BY Zenon DEF MCNext, mcVars, query, Query!vars, Query!queryVars, Query!loopVars
<1>12. [Tasks!Next]_(Tasks!vars)
  BY Zenon DEF MCNext, mcVars, tasks, Tasks!vars
<1>13. [Events!Next]_(Events!vars)
  BY Zenon DEF MCNext, mcVars, events, Events!vars
<1>14. [Vmm!Next]_(Vmm!vars)
  <2>1. Vmm!Next \/ UNCHANGED vmm
    BY Zenon DEF MCNext, mcVars
  <2> QED BY <2>1, Zenon DEF vmm, Vmm!vars, Vmm!machine
<1> QED BY <1>1, <1>2, <1>3, <1>4, <1>5, <1>6, <1>7, <1>8, <1>9, <1>10, <1>11, <1>12, <1>13, <1>14

\* The programs as they are model-checked, for all values of the constants that
\* fit: whichever of them runs keeps its promise, and compare-and-store is
\* atomic.
THEOREM ProgramsKeepTheirPromises ==
    MCSpec => AtomicStoreSpec
              /\ [](/\ ReservationHolds /\ SharedSum /\ OneAfterTheOther
                    /\ RepairedBeforeReply /\ RightBeforeUse /\ OwnCopies /\ Reroutes
                    /\ HandlesOutliveNames /\ MapsTheLibrary /\ Reports /\ GuestComputes)
<1>1. MCInit => /\ Init
                /\ Chat!Init
                /\ Cooperation!Init
                /\ Exception!Init
                /\ Interposing!Init
                /\ Inheritance!Init
                /\ Rerouting!Init
                /\ Names!Init
                /\ Region!Init
                /\ Watch!Init
                /\ Query!Init
                /\ Tasks!Init
                /\ Events!Init
                /\ Vmm!Init
  BY Zenon DEF MCInit
<1>2. MCSpec => AtomicStoreSpec /\ []ReservationHolds
  <2> ValuesAssumption
    BY Assumptions DEF Assumptions
  <2> QED BY <1>1, Apart, ReservationsProtect, StoresAtomically, PTL DEF MCSpec, Spec
<1>3. MCSpec => []SharedSum
  <2> Chat!ArgumentsAssumption
    BY Assumptions DEF Assumptions
  <2>1. Chat!Spec => []SharedSum
    BY SumsAreRight
  <2> QED BY <1>1, <2>1, Apart, PTL DEF MCSpec, Chat!Spec
<1>4. MCSpec => []OneAfterTheOther
  <2> Cooperation!ThreadsAssumption
    BY Assumptions DEF Assumptions
  <2> QED BY <1>1, Apart, ThreadsTakeTurns, PTL DEF MCSpec, Cooperation!Spec
<1>5. MCSpec => []RepairedBeforeReply
  <2> Exception!ExpectedAssumption
    BY Assumptions DEF Assumptions
  <2> QED BY <1>1, Apart, RepairComesFirst, PTL DEF MCSpec, Exception!Spec
<1>6. MCSpec => []RightBeforeUse
  BY <1>1, Apart, RightComesFirst, PTL DEF MCSpec, Interposing!Spec
<1>7. MCSpec => []OwnCopies
  BY <1>1, Apart, ChildWritesItsOwn, PTL DEF MCSpec, Inheritance!Spec
<1>8. MCSpec => []Reroutes
  <2> Rerouting!AddressesAssumption
    BY Assumptions DEF Assumptions
  <2> QED BY <1>1, Apart, CallsReachTheOriginal, PTL DEF MCSpec, Rerouting!Spec
<1>9. MCSpec => []HandlesOutliveNames
  <2> Names!NamesAssumption
    BY Assumptions DEF Assumptions
  <2> QED BY <1>1, Apart, NamesComeAndGo, PTL DEF MCSpec, Names!Spec
<1>10. MCSpec => []MapsTheLibrary
  <2> Region!LibrariesAssumption
    BY Assumptions DEF Assumptions
  <2> QED BY <1>1, Apart, RegionIsTheLibrary, PTL DEF MCSpec, Region!Spec
<1>11. MCSpec => []Watch!ReportsChanges
  BY <1>1, Apart, ChangesAreReported, PTL DEF MCSpec, Watch!Spec
<1>12. MCSpec => []Query!ListsResults
  <2> Query!BoundsAssumption
    BY Assumptions DEF Assumptions
  <2> QED BY <1>1, Apart, ResultsAreListed, PTL DEF MCSpec, Query!Spec
<1>13. MCSpec => []Tasks!SummaryAgrees
  <2> Tasks!TasksAssumption
    BY Assumptions DEF Assumptions
  <2> QED BY <1>1, Apart, SummaryIsRight, PTL DEF MCSpec, Tasks!Spec
<1>14. MCSpec => []Events!PrintsEveryEvent
  <2> Events!ArgumentsAssumption
    BY Assumptions DEF Assumptions
  <2> QED BY <1>1, Apart, EventsArePrinted, PTL DEF MCSpec, Events!Spec
<1>15. Tasks!SummaryAgrees /\ Events!PrintsEveryEvent /\ Query!ListsResults /\ Watch!ReportsChanges => Reports
  BY DEF Reports
<1>16. MCSpec => []GuestComputes
  <2> Vmm!SizesAssumption
    BY Assumptions DEF Assumptions
  <2> QED BY <1>1, Apart, GuestsFinish, PTL DEF MCSpec, Vmm!Spec
<1> QED BY <1>2, <1>3, <1>4, <1>5, <1>6, <1>7, <1>8, <1>9, <1>10, <1>11, <1>12, <1>13, <1>14, <1>15,
           <1>16, PTL

=============================================================================
