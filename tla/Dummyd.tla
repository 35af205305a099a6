------------------------------- MODULE Dummyd -------------------------------
(***************************************************************************)
(* 5-26/dummyd.c: an echo daemon that launchd starts on demand.  launchd   *)
(* owns the listening sockets, so connections wait there while the daemon  *)
(* is down.  main() checks in, waits for a readable listener with kevent,  *)
(* accepts and starts a detached thread per connection; the thread reads a *)
(* line byte by byte with readline() and writes it back.  Sockets, launchd *)
(* and signals are external.                                               *)
(***************************************************************************)
EXTENDS Integers, Sequences, SequencesExt, FiniteSets

CONSTANTS
    Clients,      \* each connects at most once
    Listeners,    \* the listening sockets of the launchd job
    MaxLen,       \* size of readline()'s buffer, 512 in the program
    MaxSend,      \* bound: bytes each client sends
    MaxFailures   \* bound: failing system calls and signals

ASSUME BoundsAssumption ==
    /\ MaxLen \in Nat /\ MaxLen > 1
    /\ MaxSend \in [Clients -> Nat] /\ MaxFailures \in Nat

Bytes == {"x", "\n"}
NUL   == "nul"     \* the terminating zero readline() stores
STALE == "stale"   \* whatever the buffer held behind it

VARIABLES
    daemon,    \* "down" or main()'s place
    ident,     \* the listener the last kevent reported
    conn,      \* each connection: its state, or its thread's place
    via,       \* the listener a client connected to
    sent, eof, \* what the client has sent, and whether it is done sending
    gone,      \* the client has closed its end altogether
    start, pos,\* readline(): first and last byte of sent in its buffer
    n,         \* readline()'s loop counter
    got,       \* what the client was echoed
    failures

mainVars   == <<daemon, ident>>
clientVars == <<via, sent, eof, gone>>
lineVars   == <<start, pos, n, got>>
vars == <<mainVars, conn, clientVars, lineVars, failures>>

Init ==
    /\ daemon = "down"
    /\ ident \in Listeners
    /\ conn = [c \in Clients |-> "none"]
    /\ via \in [Clients -> Listeners]
    /\ sent = [c \in Clients |-> <<>>]
    /\ eof = [c \in Clients |-> FALSE]
    /\ gone = [c \in Clients |-> FALSE]
    /\ start = [c \in Clients |-> 0]
    /\ pos = [c \in Clients |-> 0]
    /\ n = [c \in Clients |-> 1]
    /\ got = [c \in Clients |-> <<>>]
    /\ failures = 0

Backlog(l) == {c \in Clients : conn[c] = "pending" /\ via[c] = l}
Open(c) == conn[c] \in {"accepted", "read", "write"}
Fail == failures < MaxFailures /\ failures' = failures + 1

-----------------------------------------------------------------------------
(* The clients.                                                             *)
Connect(c) ==
    /\ conn[c] = "none"
    /\ conn' = [conn EXCEPT ![c] = "pending"]
    /\ UNCHANGED <<mainVars, clientVars, lineVars, failures>>

Send(c) ==
    /\ conn[c] # "none" /\ ~eof[c] /\ Len(sent[c]) < MaxSend[c]
    /\ \E b \in Bytes : sent' = [sent EXCEPT ![c] = Append(@, b)]
    /\ UNCHANGED <<mainVars, conn, via, eof, gone, lineVars, failures>>

(* shutdown(), or close(), which may take back a pending connection.        *)
Finish(c) ==
    /\ conn[c] # "none" /\ ~gone[c]
    /\ eof' = [eof EXCEPT ![c] = TRUE]
    /\ \/ ~eof[c] /\ UNCHANGED <<gone, conn>>
       \/ /\ gone' = [gone EXCEPT ![c] = TRUE]
          /\ \/ UNCHANGED conn
             \/ conn[c] = "pending" /\ conn' = [conn EXCEPT ![c] = "closed"]
    /\ UNCHANGED <<mainVars, via, sent, lineVars, failures>>

-----------------------------------------------------------------------------
(* launchd starts the daemon when a listener becomes readable.              *)
Launch ==
    /\ daemon = "down"
    /\ \E l \in Listeners : Backlog(l) # {}
    /\ daemon' = "checkin"
    /\ UNCHANGED <<ident, conn, clientVars, lineVars, failures>>

(* The process ends, by exit(), a return from main() or a signal: its       *)
(* descriptors are closed with it.                                          *)
Die ==
    /\ daemon' = "down"
    /\ conn' = [c \in Clients |-> IF Open(c) THEN "closed" ELSE conn[c]]
    /\ UNCHANGED <<ident, clientVars, lineVars>>

SIGTERM_handler == daemon # "down" /\ Fail /\ Die

(* kqueue(), the check-in and one EV_ADD per listener; any may fail.        *)
CheckIn ==
    /\ daemon = "checkin"
    /\ \/ Fail /\ Die
       \/ daemon' = "kevent" /\ UNCHANGED <<ident, conn, clientVars, lineVars, failures>>

Kevent_First ==
    /\ daemon = "kevent"
    /\ ident' = CHOOSE l \in Listeners : TRUE
    /\ Backlog(ident') # {}
    /\ daemon' = "accept"
    /\ UNCHANGED <<conn, clientVars, lineVars, failures>>

Kevent ==
    /\ daemon = "kevent"
    /\ ident' \in {l \in Listeners : Backlog(l) # {}}
    /\ daemon' = "accept"
    /\ UNCHANGED <<conn, clientVars, lineVars, failures>>

(* accept() blocks while the backlog of that listener is empty.             *)
Accept ==
    /\ daemon = "accept"
    /\ \/ /\ \E c \in Backlog(ident) : conn' = [conn EXCEPT ![c] = "accepted"]
          /\ daemon' = "create"
          /\ UNCHANGED failures
       \/ Fail /\ daemon' = "kevent" /\ UNCHANGED conn
    /\ UNCHANGED <<ident, clientVars, lineVars>>

(* pthread_create and pthread_detach; a failure ends the daemon.            *)
CreateThread_AcceptNext ==
    /\ daemon = "create"
    /\ \/ Fail /\ Die
       \/ /\ daemon' = "accept"
          /\ conn' = [c \in Clients |-> IF conn[c] = "accepted" THEN "read" ELSE conn[c]]
          /\ UNCHANGED <<ident, clientVars, lineVars, failures>>

CreateThread ==
    /\ daemon = "create"
    /\ \/ Fail /\ Die
       \/ /\ daemon' = "kevent"
          /\ conn' = [c \in Clients |-> IF conn[c] = "accepted" THEN "read" ELSE conn[c]]
          /\ UNCHANGED <<ident, clientVars, lineVars, failures>>

-----------------------------------------------------------------------------
(* readline(): one round of its loop.  Chars is what it has put in buf.     *)
Chars(c) == SubSeq(sent[c], start[c] + 1, pos[c])

\* the loop ends by itself when the counter reaches maxlen
CountUp(c) ==
    /\ n' = [n EXCEPT ![c] = @ + 1]
    /\ conn' = [conn EXCEPT ![c] = IF n[c] + 1 = MaxLen THEN "write" ELSE "read"]

ReadByte(c) ==
    /\ conn[c] = "read" /\ pos[c] < Len(sent[c])
    /\ pos' = [pos EXCEPT ![c] = @ + 1]
    /\ IF sent[c][pos[c] + 1] = "\n"
       THEN conn' = [conn EXCEPT ![c] = "write"] /\ n' = n
       ELSE CountUp(c)
    /\ UNCHANGED <<mainVars, clientVars, start, got, failures>>

ReadEof_Drop(c) ==
    /\ conn[c] = "read" /\ pos[c] = Len(sent[c]) /\ eof[c]
    /\ conn' = [conn EXCEPT ![c] = "closed"]
    /\ UNCHANGED <<mainVars, clientVars, lineVars, failures>>

ReadEof(c) ==
    /\ conn[c] = "read" /\ pos[c] = Len(sent[c]) /\ eof[c]
    /\ conn' = [conn EXCEPT ![c] = IF n[c] = 1 THEN "closed" ELSE "write"]
    /\ UNCHANGED <<mainVars, clientVars, lineVars, failures>>

ReadInterrupted(c) ==
    /\ conn[c] = "read" /\ Fail
    /\ CountUp(c)
    /\ UNCHANGED <<mainVars, clientVars, start, pos, got>>

ReadError(c) ==
    /\ conn[c] = "read" /\ gone[c]
    /\ conn' = [conn EXCEPT ![c] = "closed"]
    /\ UNCHANGED <<mainVars, clientVars, lineVars, failures>>

(* daemon_loop: write n bytes of buf.  Writing to a client that has gone    *)
(* may raise SIGPIPE, which ends the whole daemon.                          *)
Echoed(c) ==
    LET extra == n[c] - Len(Chars(c)) IN
    Chars(c) \o [i \in 1 .. extra |-> IF i = 1 THEN NUL ELSE STALE]

Write_Again(c) ==
    /\ conn[c] = "write"
    /\ got' = [got EXCEPT ![c] = IF gone[c] THEN @ ELSE @ \o Echoed(c)]
    /\ conn' = [conn EXCEPT ![c] = "read"]
    /\ n' = [n EXCEPT ![c] = 1]
    /\ UNCHANGED <<mainVars, clientVars, pos, start, failures>>

Write(c) ==
    /\ conn[c] = "write"
    /\ \/ gone[c] /\ Die /\ UNCHANGED failures
       \/ /\ got' = [got EXCEPT ![c] = IF gone[c] THEN @ ELSE @ \o Echoed(c)]
          /\ conn' = [conn EXCEPT ![c] = "read"]
          /\ n' = [n EXCEPT ![c] = 1]
          /\ start' = [start EXCEPT ![c] = pos[c]]
          /\ UNCHANGED <<mainVars, clientVars, pos, failures>>

ThreadStep(c) ==
    ReadByte(c) \/ ReadEof(c) \/ ReadInterrupted(c) \/ ReadError(c) \/ Write(c)

MainStep == CheckIn \/ Kevent \/ Accept \/ CreateThread

Next ==
    \/ Launch \/ SIGTERM_handler \/ MainStep
    \/ \E c \in Clients : Connect(c) \/ Send(c) \/ Finish(c) \/ ThreadStep(c)

Spec == Init /\ [][Next]_vars

(* launchd, main() and every connection thread keep running.                *)
FairSpec ==
    /\ Spec
    /\ WF_vars(Launch) /\ WF_vars(MainStep)
    /\ \A c \in Clients : WF_vars(ThreadStep(c))

-----------------------------------------------------------------------------
TypeOK ==
    /\ daemon \in {"down", "checkin", "kevent", "accept", "create"}
    /\ ident \in Listeners
    /\ conn \in [Clients -> {"none", "pending", "accepted", "read", "write", "closed"}]
    /\ \A c \in Clients : /\ sent[c] \in Seq(Bytes)
                          /\ 0 <= start[c] /\ start[c] <= pos[c] /\ pos[c] <= Len(sent[c])
                          /\ got[c] \in Seq(Bytes \cup {NUL, STALE})
    /\ failures \in 0 .. MaxFailures

(* readline() keeps within its buffer.                                       *)
InBuffer == \A c \in Clients : n[c] <= MaxLen /\ Len(Chars(c)) < MaxLen

(* The closing zeros among what a client was echoed before its i-th byte.    *)
NulsBefore(c, i) == {j \in DOMAIN got[c] : j < i /\ got[c][j] = NUL}

\* "a simple echo loop": as long as no read is interrupted the client gets back
\* what it sent, in order and apart from closing zeros, and a zero follows only a line
\* that filled the buffer or was cut off by the end of the stream.  readline()
\* never stores a byte, the closing zero included, behind the end of its buffer,
\* and never asks write() for more bytes than the buffer has.
EchoUpToNul ==
    /\ TypeOK /\ InBuffer
    /\ failures = 0 => \A c \in Clients :
          \A i \in DOMAIN got[c] :
             IF got[c][i] = NUL
             THEN \/ eof[c] /\ i = Len(got[c])
                  \/ i >= MaxLen /\ \A j \in (i - MaxLen + 1) .. (i - 1) : got[c][j] = "x"
             ELSE LET k == i - Cardinality(NulsBefore(c, i)) IN
                  k \in DOMAIN sent[c] /\ got[c][i] = sent[c][k]

\* A connection is lost only if its client left or a failure ended the daemon:
\* no connection thread ends while its client is still sending.
NoSpuriousClose ==
    \A c \in Clients :
       conn[c] = "closed" => eof[c] \/ failures > 0 \/ \E d \in Clients : gone[d]

\* kevent is right when main() calls accept(): it blocks only if a client has
\* taken back the connection that was reported.
Blocked == daemon = "accept" /\ Backlog(ident) = {}
TakenBack(c) == conn[c] = "closed" /\ pos[c] = 0 /\ gone[c] /\ via[c] = ident
AcceptFindsConnection == Blocked => \E c \in Clients : TakenBack(c)

\* Together: what main() and the connection threads wait for is not lost.
ConnectionsKept == NoSpuriousClose /\ AcceptFindsConnection

\* Every connection waiting at a listener is taken up, across restarts too,
\* unless main() is blocked in an accept() at another listener.
Served == \A c \in Clients : conn[c] = "pending" ~> conn[c] # "pending" \/ Blocked

\* A client that shuts its side down and stays gets back all it sent, unless a
\* failure or another client's departure ends the daemon first.
Answered ==
    \A c \in Clients :
       conn[c] = "read" /\ eof[c] ~>
          \/ SelectSeq(got[c], LAMBDA b : b # NUL) = sent[c]
          \/ failures > 0 \/ \E d \in Clients : gone[d]
=============================================================================
