------------------------------- MODULE Notify -------------------------------
(***************************************************************************)
(* Darwin notifications: 9-57/notify_common.h, 9-58/notify_producer.c and  *)
(* 9-59/notify_consumer.c.  A consumer registers for one name by file      *)
(* descriptor, for one by Mach port and for one by signal, each in a       *)
(* thread of its own; a fourth name, on the same Mach port, tells it to    *)
(* cancel everything and exit.  notifyd, the pipe, the port and SIGUSR1    *)
(* are external.  As the comment at 9-59, line 114 has it, the first       *)
(* notify_check() of a registration is always true.                        *)
(***************************************************************************)
EXTENDS Integers, Sequences, FiniteSets

CONSTANTS
    MaxPosts,     \* bound: posts and stray signals together
    MaxFailures   \* bound: calls that fail

\* Assumed of the constants where they get their values.
BoundsAssumption == MaxPosts \in Nat /\ MaxFailures \in Nat

Ways    == {"descriptor", "mach_port", "signal"}   \* NOTIFICATION_BY_...
Names   == Ways \cup {"cancel"}
Threads == {"main", "fd", "port"}

VARIABLES
    up,          \* the consumer runs
    at,          \* where each of its threads is
    name,        \* the name that a thread registers
    step,        \* how far its cancel_all_notifications() is
    token,       \* names whose token is no longer -1
    registered,  \* names notifyd has a registration for
    pipe,        \* tokens to be read from the descriptor
    port,        \* msgh_id of the messages queued at notify_port
    msg,         \* msgh_id in the receive buffer of consumer_mach_port()
    installed,   \* SIGUSR1 has its handler
    pending,     \* SIGUSR1 is pending
    fresh,       \* posted since the last notify_check(token_signal)
    checked,     \* there has been such a check
    early,       \* sighandler_USR1() made one before consumer_signal() did
    due,         \* posts that found a registration, by name
    received,    \* "received notification" printed, by way
    posts, failures

threadVars == <<at, name, step>>
tokenVars  == <<token, registered>>
signalVars == <<installed, pending, fresh, checked, early>>
vars == <<up, threadVars, tokenVars, pipe, port, msg, signalVars, due, received,
          posts, failures>>

Init ==
    /\ up = TRUE
    /\ at = [t \in Threads |-> IF t = "main" THEN "create_fd" ELSE "none"]
    /\ name = [t \in Threads |-> CASE t = "main" -> "signal" [] t = "fd" -> "descriptor"
                                   [] t = "port" -> "mach_port"]
    /\ step = [t \in Threads |-> 1]
    /\ token = {} /\ registered = {}
    /\ pipe = 0 /\ port = <<>> /\ msg = "garbage"
    /\ installed = FALSE /\ pending = FALSE
    /\ fresh = FALSE /\ checked = FALSE /\ early = FALSE
    /\ due = [w \in Names |-> 0] /\ received = [w \in Ways |-> 0]
    /\ posts = 0 /\ failures = 0

Exit == up' = FALSE /\ registered' = {}

Goto(t, place) == at' = [at EXCEPT ![t] = place]

Fail == failures < MaxFailures /\ failures' = failures + 1

-----------------------------------------------------------------------------
(* notify_producer posts one name; notifyd tells whoever has registered.    *)
Post(w) ==
    /\ posts < MaxPosts /\ posts' = posts + 1
    /\ IF w \in registered
       THEN /\ due' = [due EXCEPT ![w] = @ + 1]
            /\ pipe' = IF w = "descriptor" THEN pipe + 1 ELSE pipe
            /\ port' = IF w \in {"mach_port", "cancel"} THEN Append(port, w) ELSE port
            /\ pending' = (pending \/ w = "signal")
            /\ fresh' = (fresh \/ w = "signal")
       ELSE UNCHANGED <<due, pipe, port, pending, fresh>>
    /\ UNCHANGED <<up, threadVars, tokenVars, msg, installed, checked, early, received,
                   failures>>

(* Somebody else sends SIGUSR1, which by default ends the process.          *)
StraySignal ==
    /\ up /\ posts < MaxPosts /\ posts' = posts + 1
    /\ IF installed THEN pending' = TRUE /\ UNCHANGED <<up, registered>>
                    ELSE Exit /\ UNCHANGED pending
    /\ UNCHANGED <<threadVars, token, pipe, port, msg, installed, fresh, checked, early,
                   due, received, failures>>

-----------------------------------------------------------------------------
(* main() creates the two threads and goes on as consumer_signal().         *)
Create(place, t, next) ==
    /\ up /\ at["main"] = place
    /\ \/ at' = [at EXCEPT !["main"] = next, ![t] = "register"] /\ UNCHANGED failures
       \/ Goto("main", "cancel") /\ Fail
    /\ UNCHANGED <<up, name, step, tokenVars, pipe, port, msg, signalVars, due, received,
                   posts>>

CreateThreads == Create("create_fd", "fd", "create_port") \/ Create("create_port", "port", "signal")

InstallHandler ==
    /\ up /\ at["main"] = "signal"
    /\ installed' = TRUE /\ Goto("main", "register")
    /\ UNCHANGED <<up, name, step, tokenVars, pipe, port, msg, pending, fresh, checked,
                   early, due, received, posts, failures>>

(* notify_register_...(): notifyd has the registration before the caller    *)
(* has its token.  A thread whose registration fails returns; main() then   *)
(* cancels and returns, the others leave the program running.               *)
Register(t) ==
    /\ up /\ at[t] = "register"
    /\ \/ /\ registered' = registered \cup {name[t]}
          /\ Goto(t, "assign") /\ UNCHANGED failures
       \/ /\ Goto(t, IF t = "main" THEN "cancel" ELSE "ended")
          /\ Fail /\ UNCHANGED registered
    /\ UNCHANGED <<up, name, step, token, pipe, port, msg, signalVars, due, received, posts>>

Assign(t) ==
    /\ up /\ at[t] = "assign"
    /\ token' = token \cup {name[t]}
    /\ IF name[t] = "mach_port"
       THEN Goto(t, "register") /\ name' = [name EXCEPT ![t] = "cancel"]
       ELSE /\ Goto(t, CASE t = "fd" -> "read" [] t = "port" -> "receive" [] t = "main" -> "check")
            /\ UNCHANGED name
    /\ UNCHANGED <<up, step, registered, pipe, port, msg, signalVars, due, received, posts,
                   failures>>

(* The loop of consumer_file_descriptor(); read() fails once the            *)
(* registration has been cancelled.                                         *)
ReadDescriptor ==
    /\ up /\ at["fd"] = "read"
    /\ IF "descriptor" \notin registered
       THEN Goto("fd", "ended") /\ UNCHANGED <<pipe, received>>
       ELSE /\ pipe > 0 /\ pipe' = pipe - 1
            /\ received' = [received EXCEPT !["descriptor"] = @ + 1]
            /\ UNCHANGED at
    /\ UNCHANGED <<up, name, step, tokenVars, port, msg, signalVars, due, posts, failures>>

(* The loop of consumer_mach_port().  After a failed mach_msg() it goes on  *)
(* with what is in the buffer, at first whatever the stack holds.           *)
Handle_NoExit(id) ==
    /\ received' = [received EXCEPT !["mach_port"] = IF id = "mach_port" THEN @ + 1 ELSE @]
    /\ UNCHANGED at

Handle(id) ==
    /\ received' = [received EXCEPT !["mach_port"] = IF id = "mach_port" THEN @ + 1 ELSE @]
    /\ at' = [at EXCEPT !["port"] = IF id = "cancel" THEN "cancel" ELSE @]

ReceiveMessage ==
    /\ up /\ at["port"] = "receive"
    /\ \/ /\ port # <<>>
          /\ msg' = Head(port) /\ port' = Tail(port)
          /\ Handle(Head(port)) /\ UNCHANGED failures
       \/ /\ \E id \in IF msg = "garbage" THEN {"other", "mach_port", "cancel"} ELSE {msg} : Handle(id)
          /\ Fail /\ UNCHANGED <<port, msg>>
    /\ UNCHANGED <<up, name, step, tokenVars, pipe, signalVars, due, posts>>

(* notify_check(token_signal): fails for a token that is still -1 or has    *)
(* been cancelled.                                                          *)
CheckSignal ==
    IF "signal" \in token \cap registered
    THEN fresh' = FALSE /\ checked' = TRUE
    ELSE UNCHANGED <<fresh, checked>>

CheckIsTrue == "signal" \in token \cap registered /\ (fresh \/ ~checked)

sighandler_USR1 ==
    /\ up /\ pending /\ pending' = FALSE
    /\ CheckSignal
    /\ received' = [received EXCEPT !["signal"] = IF CheckIsTrue THEN @ + 1 ELSE @]
    /\ early' = (early \/ (CheckIsTrue /\ at["main"] = "check"))
    /\ UNCHANGED <<up, threadVars, tokenVars, pipe, port, msg, installed, due, posts, failures>>

(* "since notify_check() always sets check to 'true' when it is called for  *)
(* the first time, we make a dummy call here"; from then on main() sleeps.  *)
DummyCheck_Left ==
    /\ up /\ at["main"] = "check"
    /\ Goto("main", "sleep")
    /\ UNCHANGED <<up, name, step, tokenVars, pipe, port, msg, signalVars,
                   due, received, posts, failures>>

DummyCheck ==
    /\ up /\ at["main"] = "check"
    /\ CheckSignal /\ Goto("main", "sleep")
    /\ UNCHANGED <<up, name, step, tokenVars, pipe, port, msg, installed, pending, early,
                   due, received, posts, failures>>

(* cancel_all_notifications() and exit(), by the thread that had the cancel *)
(* message, or by main() after a failure; both may be at it.                *)
CancelOrder == <<"descriptor", "mach_port", "signal">>

CancelAll(t) ==
    /\ up /\ at[t] = "cancel"
    /\ IF step[t] <= 3
       THEN /\ step' = [step EXCEPT ![t] = @ + 1]
            /\ registered' = registered \ ({CancelOrder[step[t]]} \cap token)
            /\ UNCHANGED up
       ELSE Exit /\ UNCHANGED step
    /\ UNCHANGED <<at, name, token, pipe, port, msg, signalVars, due, received, posts, failures>>

Step(t) ==
    \/ Register(t) \/ Assign(t) \/ CancelAll(t)
    \/ t = "main" /\ (CreateThreads \/ InstallHandler \/ DummyCheck)
    \/ t = "fd" /\ ReadDescriptor
    \/ t = "port" /\ ReceiveMessage

Next ==
    \/ \E w \in Names : Post(w)
    \/ StraySignal
    \/ \E t \in Threads : Step(t)
    \/ sighandler_USR1

Fairness == WF_vars(sighandler_USR1) /\ \A t \in Threads : WF_vars(Step(t))

Spec == Init /\ [][Next]_vars
FairSpec == Spec /\ Fairness

-----------------------------------------------------------------------------
TypeOK ==
    /\ up \in BOOLEAN
    /\ at \in [Threads -> {"none", "create_fd", "create_port", "signal", "register", "assign",
                           "check", "sleep", "read", "receive", "cancel", "ended"}]
    /\ name \in [Threads -> Names] /\ step \in [Threads -> 1 .. 4]
    /\ token \subseteq Names /\ registered \subseteq Names
    /\ pipe \in 0 .. MaxPosts /\ port \in Seq({"mach_port", "cancel"})
    /\ msg \in {"garbage", "mach_port", "cancel"}
    /\ {installed, pending, fresh, checked, early} \subseteq BOOLEAN
    /\ due \in [Names -> 0 .. MaxPosts] /\ received \in [Ways -> Nat]
    /\ posts \in 0 .. MaxPosts /\ failures \in 0 .. MaxFailures

Queued == Cardinality({i \in DOMAIN port : port[i] = "mach_port"})
One(condition) == IF condition THEN 1 ELSE 0

\* Every "received notification" has a post of its own and no post is lost on
\* its way: by descriptor exactly, by Mach port up to receives that failed, by
\* signal (where posts coalesce) at most, a first check by the handler aside.
Accounted ==
    /\ TypeOK
    /\ received["descriptor"] + pipe = due["descriptor"]
    /\ received["mach_port"] + Queued \in due["mach_port"] .. due["mach_port"] + failures
    /\ received["signal"] + One(fresh) <= due["signal"] + One(early)

\* What was posted to a thread that listens is printed, and a cancel message
\* ends the program, unless the program ends before; a post by signal is
\* noticed if it comes after the dummy check.
Noticed ==
    /\ received["descriptor"] < due["descriptor"] ~> received["descriptor"] = due["descriptor"] \/ ~up
    /\ Queued > 0 ~> Queued = 0 \/ at["port"] = "ended" \/ ~up
    /\ due["cancel"] > 0 ~> ~up
    /\ at["main"] = "sleep" /\ fresh ~> ~fresh \/ ~up
=============================================================================
