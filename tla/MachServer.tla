----------------------------- MODULE MachServer -----------------------------
(***************************************************************************)
(* The request-reply skeleton of the Mach servers in chapters 8 and 9, in  *)
(* the version of 9-20/simple_ipc_server.c and 9-21/simple_ipc_client.c.   *)
(* A server creates a bootstrap service and answers one message after the  *)
(* other for ever; a client looks the service up, sends one request with a *)
(* send right to a port of its own and waits there without a timeout.      *)
(* Mach ports and the bootstrap server are external: a port's queue holds  *)
(* a few messages and blocks senders beyond, sending to a port whose       *)
(* receiver is gone fails, and whoever waits for a message is not told     *)
(* that nobody is left to send one.                                        *)
(***************************************************************************)
EXTENDS Integers, Sequences

CONSTANTS
    Clients,
    Data,      \* what a request may carry
    Answers,
    Answer,    \* what the server computes from a request
    NoAnswer,
    NoOne,
    QLimit,    \* messages the queue of the server's port holds
    MayDie     \* clients may be killed

ASSUME ConstantsAssumption ==
    /\ NoOne \notin Clients /\ NoAnswer \notin Answers
    /\ Answer \in [Data -> Answers]
    /\ QLimit \in Nat \ {0} /\ MayDie \in BOOLEAN

VARIABLES
    server,    \* place of the server
    port,      \* the service's port: "none", "alive", "dead"
    queue,     \* requests waiting in it
    request,   \* recv_msg, the request the server works on
    client,    \* place of each client
    asked,     \* the data each client sends
    inbox,     \* the message waiting at each client's port
    result     \* what each client has printed

serverVars == <<server, port, request>>
vars == <<serverVars, queue, client, asked, inbox, result>>

Nothing == [from |-> NoOne]
Requests == [from : Clients, data : Data]

Init ==
    /\ server = "create" /\ port = "none"
    /\ queue = <<>> /\ request = Nothing
    /\ client = [c \in Clients |-> "begin"]
    /\ asked \in [Clients -> Data]
    /\ inbox = [c \in Clients |-> NoAnswer]
    /\ result = [c \in Clients |-> NoAnswer]

-----------------------------------------------------------------------------
(* EXIT_ON_MACH_ERROR in the server.  The bootstrap server may take the     *)
(* port back with what is queued in it, or let it die.                      *)
ServerExits ==
    /\ server' = "exit"
    /\ \/ UNCHANGED <<port, queue>>
       \/ port' = "dead" /\ queue' = <<>>

(* bootstrap_create_service: the service can be looked up from now on.      *)
CreateService ==
    /\ server = "create"
    /\ \/ server' = "checkin" /\ port' = "alive" /\ UNCHANGED queue
       \/ ServerExits
    /\ UNCHANGED <<request, client, asked, inbox, result>>

CheckIn ==
    /\ server = "checkin"
    /\ (server' = "receive" /\ UNCHANGED <<port, queue>>) \/ ServerExits
    /\ UNCHANGED <<request, client, asked, inbox, result>>

(* The server loop: receive a request, or leave when mach_msg() fails ...   *)
Receive_Newest ==
    /\ server = "receive" /\ queue # <<>>
    /\ request' = queue[Len(queue)]
    /\ queue' = Tail(queue)
    /\ server' = "reply"
    /\ UNCHANGED <<port, client, asked, inbox, result>>

Receive_KeepsPort ==
    /\ server = "receive" /\ queue # <<>>
    /\ request' = IF request = Nothing THEN Head(queue)
                                      ELSE [Head(queue) EXCEPT !.from = request.from]
    /\ queue' = Tail(queue)
    /\ server' = "reply"
    /\ UNCHANGED <<port, client, asked, inbox, result>>

Receive ==
    /\ server = "receive"
    /\ \/ /\ queue # <<>>
          /\ request' = Head(queue)
          /\ queue' = Tail(queue)
          /\ server' = "reply"
          /\ UNCHANGED port
       \/ ServerExits /\ UNCHANGED request
    /\ UNCHANGED <<client, asked, inbox, result>>

(* ... and send the answer to the port that came with it.  When that port   *)
(* is dead the send fails, and the server exits.                            *)
PortAlive(c) == client[c] \in {"send", "wait"}

Reply ==
    /\ server = "reply"
    /\ IF PortAlive(request.from)
       THEN /\ inbox' = [inbox EXCEPT ![request.from] = Answer[request.data]]
            /\ server' = "receive"
            /\ UNCHANGED <<port, queue>>
       ELSE ServerExits /\ UNCHANGED inbox
    /\ UNCHANGED <<request, client, asked, result>>

-----------------------------------------------------------------------------
Go(c, from, to) ==
    /\ client[c] = from
    /\ client' = [client EXCEPT ![c] = to]

(* bootstrap_look_up and a port of its own.                                 *)
LookUp(c) ==
    /\ Go(c, "begin", IF port = "alive" THEN "send" ELSE "failed")
    /\ UNCHANGED <<serverVars, queue, asked, inbox, result>>

(* The request; it waits for room in the queue.                             *)
Send(c) ==
    /\ \/ /\ port = "alive" /\ Len(queue) < QLimit
          /\ Go(c, "send", "wait")
          /\ queue' = Append(queue, [from |-> c, data |-> asked[c]])
       \/ /\ port = "dead"
          /\ Go(c, "send", "failed") /\ UNCHANGED queue
    /\ UNCHANGED <<serverVars, asked, inbox, result>>

(* mach_msg(recv) without a timeout; the answer is printed, and its id is   *)
(* the one of the request, which ends the loop and the program.             *)
Take(c) ==
    /\ inbox[c] # NoAnswer
    /\ Go(c, "wait", "done")
    /\ result' = [result EXCEPT ![c] = inbox[c]]
    /\ inbox' = [inbox EXCEPT ![c] = NoAnswer]
    /\ UNCHANGED <<serverVars, queue, asked>>

Killed(c) ==
    /\ MayDie /\ client[c] \in {"send", "wait"}
    /\ client' = [client EXCEPT ![c] = "killed"]
    /\ inbox' = [inbox EXCEPT ![c] = NoAnswer]
    /\ UNCHANGED <<serverVars, queue, asked, result>>

ServerStep == CreateService \/ CheckIn \/ Receive \/ Reply
ClientStep(c) == LookUp(c) \/ Send(c) \/ Take(c)

Next ==
    \/ ServerStep
    \/ \E c \in Clients : ClientStep(c) \/ Killed(c)

Spec == Init /\ [][Next]_vars

(* The server and a client that has started are scheduled.                  *)
FairSpec ==
    /\ Spec
    /\ WF_vars(ServerStep)
    /\ \A c \in Clients : WF_vars(ClientStep(c) /\ client[c] # "begin")

-----------------------------------------------------------------------------
TypeOK ==
    /\ server \in {"create", "checkin", "receive", "reply", "exit"}
    /\ port \in {"none", "alive", "dead"}
    /\ queue \in Seq(Requests)
    /\ request \in Requests \/ (request = Nothing /\ server # "reply")
    /\ client \in [Clients -> {"begin", "send", "wait", "done", "failed", "killed"}]
    /\ asked \in [Clients -> Data]
    /\ inbox \in [Clients -> Answers \cup {NoAnswer}]
    /\ result \in [Clients -> Answers \cup {NoAnswer}]

\* Every client prints the answer to its own request, in whatever order the
\* requests of others arrive, and clients come and go.
OwnAnswer == \A c \in Clients : client[c] = "done" => result[c] = Answer[asked[c]]

Queued(c)  == \E i \in 1 .. Len(queue) : queue[i].from = c
Working(c) == server = "reply" /\ request.from = c
Got(c)     == inbox[c] # NoAnswer

\* The request of a client that waits is at one place only: in the queue, with
\* the server, or answered; it is lost only if the server has exited.
InFlight ==
    \A c \in Clients : client[c] = "wait" =>
       \/ Queued(c) /\ ~Working(c) /\ ~Got(c)
       \/ ~Queued(c) /\ Working(c) /\ ~Got(c)
       \/ ~Queued(c) /\ ~Working(c) /\ (Got(c) \/ server = "exit")

(* The invariant behind both: requests and answers carry what was asked,    *)
(* and nobody has two requests under way.                                   *)
Matching ==
    /\ \A i \in 1 .. Len(queue) : queue[i].data = asked[queue[i].from]
    /\ request # Nothing => request.data = asked[request.from]
    /\ \A c \in Clients :
          /\ Got(c) => inbox[c] = Answer[asked[c]]
          /\ client[c] = "done" => result[c] = Answer[asked[c]]
Single ==
    /\ \A i, j \in 1 .. Len(queue) : queue[i].from = queue[j].from => i = j
    /\ \A c \in Clients :
          /\ Got(c) => client[c] = "wait"
          /\ Queued(c) \/ Working(c) => client[c] \in {"wait", "killed"}
          /\ ~(Queued(c) /\ Working(c))
IInv == TypeOK /\ Matching /\ Single /\ InFlight

\* A client that waits for ever was not answered by a server that has exited,
\* be it for a reply that another client no longer took or for a receive that
\* failed: while the server is up every request is answered or its client
\* gone, and an answer that was sent arrives although the server exits then.
Answered ==
    \A c \in Clients :
       client[c] = "wait" ~> client[c] # "wait" \/ (server = "exit" /\ ~Got(c))
=============================================================================
