------------------------------- MODULE DoChat -------------------------------
(***************************************************************************)
(* The server and the clients of a distributed object (9-49/do_server.m,   *)
(* 9-50/do_client.m).  The two operands are the server's, not a client's;  *)
(* the hello of a client makes the server call that client back, and while *)
(* it waits for the answer its run loop serves other requests, so that the *)
(* waiting calls form a stack.  A client gives up after 5 seconds, in      *)
(* connect with a handler, in doTest without.  Connections and the run     *)
(* loop are Foundation's (external).                                       *)
(***************************************************************************)
EXTENDS Integers, Sequences, Functions

CONSTANTS
    Clients,
    Arguments,    \* of setA and setB: 4 and 9 in do_client, others in other clients
    Undefined     \* what a float may be that nothing was stored in

\* Assumed of the constants where they get their values.
ArgumentsAssumption == Arguments \in [Clients -> [a : Nat, b : Nat]] /\ Undefined \subseteq Nat

VARIABLES
    server,       \* off, running, or ended
    a, b,         \* its operands
    calls,        \* the clients it is calling back, the last call innermost
    step,         \* each client: the message it waits for, or where it is
    wire,         \* the request on its connection that is not handled yet
    answer,       \* what has come back: nothing, or one number, 0 for void
    proxy,        \* it has a proxy
    shown         \* the number it has printed

vars == <<server, a, b, calls, step, wire, answer, proxy, shown>>

Messages == <<"rootProxy", "helloFromClient", "setA", "setB", "getSum">>
None     == "none"
Void     == 0
Waits(c) == step[c] \in Range(Messages)

Init ==
    /\ server = "off" /\ a = 0 /\ b = 0 /\ calls = <<>>
    /\ step = [c \in Clients |-> "off"] /\ wire = [c \in Clients |-> None]
    /\ answer = [c \in Clients |-> {}]
    /\ proxy = [c \in Clients |-> FALSE] /\ shown = [c \in Clients |-> {}]

(* NSSocketPort raises an exception if the port is taken.                   *)
StartServer ==
    /\ server = "off" /\ server' \in {"running", "ended"}
    /\ UNCHANGED <<a, b, calls, step, wire, answer, proxy, shown>>

-----------------------------------------------------------------------------
(* The client.                                                              *)
Send(c, m) ==
    /\ step' = [step EXCEPT ![c] = m] /\ wire' = [wire EXCEPT ![c] = m]
    /\ answer' = [answer EXCEPT ![c] = {}]

(* doTest with proxy = nil: every message returns at once, and the result   *)
(* that getSum has left undefined is printed.                               *)
TestNil(c) ==
    /\ step' = [step EXCEPT ![c] = "release"] /\ proxy' = [proxy EXCEPT ![c] = FALSE]
    /\ \E float \in Undefined : shown' = [shown EXCEPT ![c] = {float}]

connect(c) ==
    /\ step[c] = "off"
    /\ IF server = "running"
       THEN Send(c, "rootProxy") /\ UNCHANGED <<proxy, shown>>
       ELSE TestNil(c) /\ UNCHANGED <<wire, answer>>
    /\ UNCHANGED <<server, a, b, calls>>

(* Mutant: the sum is asked for before the second operand is there.         *)
Following_Early(m) == IF m = "setA" THEN "getSum" ELSE Messages[CHOOSE i \in 2..5 : Messages[i - 1] = m]

Following(m) == Messages[CHOOSE i \in 2..5 : Messages[i - 1] = m]

Answered(c) ==
    /\ Waits(c) /\ answer[c] # {} /\ step[c] # "getSum"
    /\ Send(c, Following(step[c]))
    /\ proxy' = [proxy EXCEPT ![c] = TRUE]
    /\ UNCHANGED <<server, a, b, calls, shown>>

PrintSum(c) ==
    /\ step[c] = "getSum" /\ answer[c] # {}
    /\ shown' = [shown EXCEPT ![c] = answer[c]] /\ step' = [step EXCEPT ![c] = "release"]
    /\ UNCHANGED <<server, a, b, calls, wire, answer, proxy>>

(* dealloc cleans up.                                                       *)
Release(c) ==
    /\ step[c] = "release" /\ step' = [step EXCEPT ![c] = "exit"]
    /\ proxy' = [proxy EXCEPT ![c] = FALSE]
    /\ UNCHANGED <<server, a, b, calls, wire, answer, shown>>

(* The request stays on its way.  Only connect has a handler: it cleans up, *)
(* and doTest goes on with nil.                                             *)
TimeOut(c) ==
    /\ Waits(c) /\ answer[c] = {}
    /\ IF step[c] \in {"rootProxy", "helloFromClient"}
       THEN TestNil(c)
       ELSE step' = [step EXCEPT ![c] = "killed"] /\ UNCHANGED <<proxy, shown>>
    /\ UNCHANGED <<server, a, b, calls, wire, answer>>

-----------------------------------------------------------------------------
(* The server handles requests as they come, those of clients that have     *)
(* given up too.                                                            *)
Take(c, m) ==
    /\ server = "running" /\ wire[c] = m /\ wire' = [wire EXCEPT ![c] = None]

Reply(c, value) == answer' = [answer EXCEPT ![c] = IF Waits(c) THEN {value} ELSE {}]

RootProxy(c) ==
    /\ Take(c, "rootProxy") /\ Reply(c, Void)
    /\ UNCHANGED <<server, a, b, calls, step, proxy, shown>>

helloFromClient(c) ==
    /\ Take(c, "helloFromClient") /\ calls' = Append(calls, c)
    /\ UNCHANGED <<server, a, b, step, answer, proxy, shown>>

(* whoAreYou is answered while the client waits for the end of its hello,   *)
(* or ends in an exception; the innermost call returns first.               *)
WhoAreYou ==
    /\ calls # <<>> /\ Reply(calls[Len(calls)], Void)
    /\ calls' = SubSeq(calls, 1, Len(calls) - 1)
    /\ UNCHANGED <<server, a, b, step, wire, proxy, shown>>

setA(c) ==
    /\ Take(c, "setA") /\ Reply(c, Void) /\ a' = Arguments[c].a
    /\ UNCHANGED <<server, b, calls, step, proxy, shown>>

setB(c) ==
    /\ Take(c, "setB") /\ Reply(c, Void) /\ b' = Arguments[c].b
    /\ UNCHANGED <<server, a, calls, step, proxy, shown>>

getSum(c) ==
    /\ Take(c, "getSum") /\ Reply(c, a + b)
    /\ UNCHANGED <<server, a, b, calls, step, proxy, shown>>

Next ==
    \/ StartServer \/ WhoAreYou
    \/ \E c \in Clients :
          \/ connect(c) \/ Answered(c) \/ PrintSum(c) \/ Release(c) \/ TimeOut(c)
          \/ RootProxy(c) \/ helloFromClient(c) \/ setA(c) \/ setB(c) \/ getSum(c)

Spec == Init /\ [][Next]_vars

-----------------------------------------------------------------------------
TypeOK ==
    /\ server \in {"off", "running", "ended"} /\ a \in Nat /\ b \in Nat
    /\ calls \in Seq(Clients)
    /\ step \in [Clients -> {"off", "release", "exit", "killed"} \cup Range(Messages)]
    /\ wire \in [Clients -> {None} \cup Range(Messages)]
    /\ answer \in [Clients -> SUBSET Nat]
    /\ proxy \in [Clients -> BOOLEAN] /\ shown \in [Clients -> SUBSET Nat]

(* The clients that have come, and the sums of what they may have sent.     *)
Started == {c \in Clients : step[c] # "off"}
Sums    == {Arguments[d].a + Arguments[e].b : d \in Started, e \in Started}

\* The operands are shared, and requests of clients that gave up arrive late:
\* whoever still has its proxy when it has printed, has printed the sum of two
\* operands that clients have sent, though not always both its own, and its own
\* sum if all that have come send the same, as do_client does.  One without a
\* proxy prints anything.  A hello that has been taken but not answered is among
\* the calls the server waits for, whatever is nested in it.
SharedSum ==
    /\ TypeOK
    /\ \A c \in Clients :
          /\ step[c] = "release" /\ proxy[c] => shown[c] # {} /\ shown[c] \subseteq Sums
          /\ step[c] = "helloFromClient" /\ wire[c] = None /\ answer[c] = {} => c \in Range(calls)
=============================================================================
