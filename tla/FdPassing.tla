----------------------------- MODULE FdPassing ------------------------------
(***************************************************************************)
(* Passing a file descriptor over a local socket: 9-42/fd_common.h,        *)
(* 9-43/fd_sender.c and 9-44/fd_receiver.c.  A sender removes whatever     *)
(* SERVER_NAME refers to, binds its own socket there, opens its file,      *)
(* listens, serves one connection and exits; it never removes the name.    *)
(* A receiver connects to whatever the name refers to.  Several senders    *)
(* and receivers may be started at any time, and killed at any time.       *)
(* Sockets and the file system are external.                               *)
(***************************************************************************)
EXTENDS Integers, FiniteSets

CONSTANTS
    Senders, Receivers,
    Backlog,   \* connections a listening socket holds, listen(sockfd, 0)
    MayDie,    \* processes may be killed
    Nobody

ASSUME ConstantsAssumption ==
    /\ Backlog \in Nat \ {0}
    /\ MayDie \in BOOLEAN
    /\ Nobody \notin Senders \cup Receivers

VARIABLES
    name,    \* the sender whose socket SERVER_NAME refers to
    spc,     \* each sender's place
    client,  \* the receiver it has accepted
    rpc,     \* each receiver's place
    peer,    \* the sender whose socket the receiver is connected to
    inbox,   \* message in the receiver's socket buffer: the file's owner
    file     \* fd: the file the receiver's descriptor refers to

vars == <<name, spc, client, rpc, peer, inbox, file>>

Init ==
    /\ name = Nobody
    /\ spc = [s \in Senders |-> "begin"]
    /\ client = [s \in Senders |-> Nobody]
    /\ rpc = [r \in Receivers |-> "begin"]
    /\ peer = [r \in Receivers |-> Nobody]
    /\ inbox = [r \in Receivers |-> Nobody]
    /\ file = [r \in Receivers |-> Nobody]

SenderGo(s, from, to) ==
    /\ spc[s] = from
    /\ spc' = [spc EXCEPT ![s] = to]

\* a receiver that was killed while it waited is still in the backlog
Pending(s) ==
    {r \in Receivers : rpc[r] \in {"recv", "killed"} /\ peer[r] = s /\ client[s] # r}

-----------------------------------------------------------------------------
(* setup_server(): socket() and unlink(), then bind(), which fails when     *)
(* another sender has bound the name in between.                            *)
Unlink(s) ==
    /\ SenderGo(s, "begin", "bind")
    /\ name' = Nobody
    /\ UNCHANGED <<client, rpc, peer, inbox, file>>

Bind(s) ==
    /\ \/ name = Nobody /\ SenderGo(s, "bind", "open") /\ name' = s
       \/ name # Nobody /\ SenderGo(s, "bind", "exit") /\ UNCHANGED name
    /\ UNCHANGED <<client, rpc, peer, inbox, file>>

(* open() of the file to pass, or its failure; the name stays.              *)
OpenFile(s) ==
    /\ SenderGo(s, "open", "listen") \/ SenderGo(s, "open", "exit")
    /\ UNCHANGED <<name, client, rpc, peer, inbox, file>>

Listen(s) ==
    /\ SenderGo(s, "listen", "accept")
    /\ UNCHANGED <<name, client, rpc, peer, inbox, file>>

(* accept() blocks until there is a connection.                             *)
Accept(s) ==
    /\ SenderGo(s, "accept", "send")
    /\ \E r \in Pending(s) : client' = [client EXCEPT ![s] = r]
    /\ UNCHANGED <<name, rpc, peer, inbox, file>>

(* send_fd_using_sockfd(): the message waits in the receiver's buffer; if   *)
(* the receiver has gone, sendmsg() raises SIGPIPE and the sender ends.     *)
Send(s) ==
    /\ SenderGo(s, "send", IF rpc[client[s]] = "recv" THEN "close" ELSE "exit")
    /\ inbox' = [inbox EXCEPT ![client[s]] =
                   IF rpc[client[s]] = "recv" THEN s ELSE @]
    /\ UNCHANGED <<name, client, rpc, peer, file>>

(* Both sockets are closed, by hand or by exit().                           *)
CloseSockets(s) ==
    /\ SenderGo(s, "close", "exit")
    /\ UNCHANGED <<name, client, rpc, peer, inbox, file>>

KillSender(s) ==
    /\ MayDie /\ spc[s] \in {"bind", "open", "listen", "accept", "send"}
    /\ SenderGo(s, spc[s], "exit")
    /\ UNCHANGED <<name, client, rpc, peer, inbox, file>>

-----------------------------------------------------------------------------
(* connect(): refused without a name, before listen(), after the socket is  *)
(* closed, or when the backlog is full.                                     *)
Connectable ==
    /\ name # Nobody
    /\ spc[name] \in {"accept", "send", "close"}
    /\ Cardinality(Pending(name)) < Backlog

Connect(r) ==
    /\ rpc[r] = "begin"
    /\ IF Connectable
       THEN /\ rpc' = [rpc EXCEPT ![r] = "recv"]
            /\ peer' = [peer EXCEPT ![r] = name]
       ELSE /\ rpc' = [rpc EXCEPT ![r] = "failed"]
            /\ UNCHANGED peer
    /\ UNCHANGED <<name, spc, client, inbox, file>>

(* recvmsg() blocks while the connection is up and empty; 0 bytes at its    *)
(* end leave fd at -1, which main() reports as a failure.                   *)
Receive_EofIsSuccess(r) ==
    /\ rpc[r] = "recv"
    /\ inbox[r] # Nobody \/ spc[peer[r]] = "exit"
    /\ file' = [file EXCEPT ![r] = inbox[r]]
    /\ inbox' = [inbox EXCEPT ![r] = Nobody]
    /\ rpc' = [rpc EXCEPT ![r] = "read"]
    /\ UNCHANGED <<name, spc, client, peer>>

Receive_Blocks(r) ==
    /\ rpc[r] = "recv"
    /\ inbox[r] # Nobody
    /\ file' = [file EXCEPT ![r] = inbox[r]]
    /\ inbox' = [inbox EXCEPT ![r] = Nobody]
    /\ rpc' = [rpc EXCEPT ![r] = "read"]
    /\ UNCHANGED <<name, spc, client, peer>>

Receive(r) ==
    /\ rpc[r] = "recv"
    /\ \/ /\ inbox[r] # Nobody
          /\ file' = [file EXCEPT ![r] = inbox[r]]
          /\ inbox' = [inbox EXCEPT ![r] = Nobody]
          /\ rpc' = [rpc EXCEPT ![r] = "read"]
       \/ /\ inbox[r] = Nobody /\ spc[peer[r]] = "exit"
          /\ rpc' = [rpc EXCEPT ![r] = "failed"]
          /\ UNCHANGED <<inbox, file>>
    /\ UNCHANGED <<name, spc, client, peer>>

(* read() from the descriptor, write() to stdout, exit.                     *)
ReadFile(r) ==
    /\ rpc[r] = "read"
    /\ rpc' = [rpc EXCEPT ![r] = "done"]
    /\ UNCHANGED <<name, spc, client, peer, inbox, file>>

KillReceiver(r) ==
    /\ MayDie /\ rpc[r] \in {"begin", "recv", "read"}
    /\ rpc' = [rpc EXCEPT ![r] = "killed"]
    /\ inbox' = [inbox EXCEPT ![r] = Nobody]
    /\ UNCHANGED <<name, spc, client, peer, file>>

SenderStep(s) ==
    Unlink(s) \/ Bind(s) \/ OpenFile(s) \/ Listen(s) \/ Accept(s) \/ Send(s) \/ CloseSockets(s)
ReceiverStep(r) == Connect(r) \/ Receive(r) \/ ReadFile(r)

Next ==
    \/ \E s \in Senders : SenderStep(s) \/ KillSender(s)
    \/ \E r \in Receivers : ReceiverStep(r) \/ KillReceiver(r)

Spec == Init /\ [][Next]_vars

(* A started process keeps running; starting it is up to the user.          *)
FairSpec ==
    /\ Spec
    /\ \A s \in Senders : WF_vars(SenderStep(s) /\ spc[s] # "begin")
    /\ \A r \in Receivers : WF_vars(ReceiverStep(r) /\ rpc[r] # "begin")

-----------------------------------------------------------------------------
TypeOK ==
    /\ name \in Senders \cup {Nobody}
    /\ spc \in [Senders -> {"begin", "bind", "open", "listen", "accept", "send", "close", "exit"}]
    /\ client \in [Senders -> Receivers \cup {Nobody}]
    /\ rpc \in [Receivers -> {"begin", "recv", "read", "done", "failed", "killed"}]
    /\ peer \in [Receivers -> Senders \cup {Nobody}]
    /\ inbox \in [Receivers -> Senders \cup {Nobody}]
    /\ file \in [Receivers -> Senders \cup {Nobody}]

\* A receiver that reads, reads through a descriptor it was really sent, and
\* the file is the one of the sender it connected to, even when the name has
\* passed to another sender since.
RightFile ==
    \A r \in Receivers : rpc[r] \in {"read", "done"} => file[r] # Nobody /\ file[r] = peer[r]

\* A sender's descriptor reaches one receiver at most: the sender serves one
\* connection and exits, whatever waits in its backlog.
OneReceiver ==
    \A s \in Senders :
       \A q, r \in {r \in Receivers : file[r] = s \/ inbox[r] = s} : q = r

\* Together: descriptors go where they were sent, and nowhere else.
Delivery == RightFile /\ OneReceiver

(* What makes RightFile and OneReceiver inductive: whose messages there are.*)
InboxFromPeer ==
    \A r \in Receivers :
       /\ inbox[r] # Nobody => /\ rpc[r] = "recv" /\ inbox[r] = peer[r]
                               /\ client[peer[r]] = r
                               /\ spc[peer[r]] \in {"close", "exit"}
       /\ file[r] # Nobody => /\ file[r] = peer[r] /\ client[peer[r]] = r
                              /\ spc[peer[r]] \in {"close", "exit"}
       /\ rpc[r] = "begin" => peer[r] = Nobody
       /\ rpc[r] \in {"recv", "read", "done"} => peer[r] # Nobody
       /\ rpc[r] \in {"read", "done"} => file[r] # Nobody
       /\ rpc[r] \in {"begin", "recv", "failed"} => file[r] = Nobody
AcceptedPeer ==
    \A s \in Senders :
       /\ client[s] # Nobody => peer[client[s]] = s
       /\ spc[s] \in {"begin", "bind", "open", "listen", "accept"} => client[s] = Nobody
       /\ spc[s] = "send" => client[s] # Nobody
IInv == TypeOK /\ InboxFromPeer /\ AcceptedPeer

\* A receiver that has connected ends: it gets the descriptor, or learns that
\* the sender has served another receiver or died.
ReceiverEnds ==
    \A r \in Receivers : rpc[r] = "recv" ~> rpc[r] \in {"done", "failed", "killed"}
=============================================================================
