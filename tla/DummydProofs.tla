---------------------------- MODULE DummydProofs ----------------------------
(***************************************************************************)
(* What dummyd promises, for any clients, listeners and sizes of buffer,   *)
(* and however many bytes and failures: nothing that main() or a thread    *)
(* waits for is lost, no line overruns its buffer, and while nothing fails *)
(* every client is echoed what it has sent.                                *)
(***************************************************************************)
EXTENDS Dummyd, FiniteSetTheorems, SequenceTheorems, TLAPS

-----------------------------------------------------------------------------
(* What main() and its listeners are in, whatever the clients send.  The    *)
(* listener that kevent reported had somebody waiting: they still wait, or  *)
(* have taken the connection back.                                          *)
MainTypes ==
    /\ daemon \in {"down", "checkin", "kevent", "accept", "create"}
    /\ ident \in Listeners /\ via \in [Clients -> Listeners]
    /\ conn \in [Clients -> {"none", "pending", "accepted", "read", "write", "closed"}]
    /\ failures \in Nat /\ failures <= MaxFailures

ByteTypes ==
    /\ sent \in [Clients -> Seq(Bytes)] /\ got \in [Clients -> Seq(Bytes \cup {NUL, STALE})]
    /\ eof \in [Clients -> BOOLEAN] /\ gone \in [Clients -> BOOLEAN]
    /\ start \in [Clients -> Nat] /\ pos \in [Clients -> Nat] /\ n \in [Clients -> Nat]

Reported ==
    daemon = "accept" => \E c \in Clients : via[c] = ident /\ (conn[c] = "pending" \/ TakenBack(c))

(* A line in readline()'s buffer.                                           *)
Line(c) ==
    /\ start[c] <= pos[c] /\ pos[c] <= Len(sent[c])
    /\ n[c] >= 1 /\ n[c] <= MaxLen
    /\ pos[c] - start[c] < MaxLen /\ pos[c] - start[c] <= n[c]
    /\ conn[c] = "read" => n[c] < MaxLen /\ pos[c] - start[c] < n[c]
    /\ conn[c] \in {"none", "pending", "accepted"} => pos[c] = 0 /\ n[c] = 1

Left(c) ==
    /\ gone[c] => eof[c]
    /\ conn[c] = "closed" => eof[c] \/ failures > 0 \/ \E d \in Clients : gone[d]

(* What has been echoed: the bytes sent, with closing zeros among them that *)
(* end a full line or, as the last byte, the stream.                        *)
AllX(c) == \A k \in Nat : start[c] < k /\ k <= pos[c] => sent[c][k] = "x"
Full(c, i) == i >= MaxLen /\ \A j \in (i - MaxLen + 1) .. (i - 1) : got[c][j] = "x"
Cut(c, i) ==
    /\ eof[c] /\ i = Len(got[c])
    /\ gone[c] \/ (start[c] = Len(sent[c]) /\ conn[c] \in {"read", "closed"})
Nuls(c) == {j \in DOMAIN got[c] : got[c][j] = NUL}

ReadSoFar(c) ==
    /\ conn[c] = "read" => n[c] = pos[c] - start[c] + 1 /\ AllX(c)
    /\ conn[c] = "write" =>
          \/ pos[c] - start[c] = n[c]
          \/ /\ pos[c] - start[c] = n[c] - 1
             /\ (n[c] = MaxLen /\ AllX(c)) \/ (eof[c] /\ pos[c] = Len(sent[c]))
EchoedSoFar(c) ==
    /\ gone[c] \/ Len(got[c]) = start[c] + Cardinality(Nuls(c))
    /\ \A i \in DOMAIN got[c] :
          IF got[c][i] = NUL THEN Full(c, i) \/ Cut(c, i)
          ELSE LET k == i - Cardinality(NulsBefore(c, i)) IN
               k \in 1 .. start[c] /\ got[c][i] = sent[c][k]
Quiet(c) == failures = 0 => ReadSoFar(c) /\ EchoedSoFar(c)

EchoInv ==
    /\ MainTypes /\ ByteTypes /\ Reported
    /\ \A c \in Clients : Line(c) /\ Left(c) /\ Quiet(c)

(* A client whose line a step leaves alone, or takes to where it begins.    *)
Stays(d) ==
    /\ sent'[d] = sent[d] /\ got'[d] = got[d]
    /\ start'[d] = start[d] /\ pos'[d] = pos[d] /\ n'[d] = n[d]
    /\ (eof[d] => eof'[d]) /\ (gone[d] => gone'[d]) /\ (gone'[d] => eof'[d])
    /\ \/ conn'[d] = conn[d]
       \/ conn'[d] = "closed" /\ (eof'[d] \/ failures' > 0 \/ \E e \in Clients : gone'[e])
       \/ conn[d] \in {"none", "pending"} /\ conn'[d] \in {"pending", "accepted"}
       \/ conn[d] = "accepted" /\ conn'[d] = "read"
Grows ==
    /\ failures' \in Nat /\ failures' >= failures
    /\ \A e \in Clients : gone[e] => gone'[e]

LEMMA StaysKept ==
    ASSUME MainTypes, ByteTypes, NEW d \in Clients, Line(d), Left(d), Quiet(d), Stays(d), Grows
    PROVE  Line(d)' /\ Left(d)' /\ Quiet(d)'
<1> USE DEF MainTypes, ByteTypes, Stays, Grows
<1>1. Line(d)'
  <2>1. /\ start[d] \in Nat /\ pos[d] \in Nat /\ n[d] \in Nat /\ MaxLen \in Nat /\ MaxLen > 1
    BY BoundsAssumption
  <2>2. conn'[d] \in {conn[d], "closed", "pending", "accepted"} \/ (conn[d] = "accepted" /\ conn'[d] = "read")
    OBVIOUS
  <2>3. conn'[d] \in {"none", "pending", "accepted"} => conn[d] \in {"none", "pending", "accepted"}
    OBVIOUS
  <2>4. conn[d] = "accepted" => pos[d] = 0 /\ n[d] = 1 /\ start[d] = 0
    BY <2>1 DEF Line
  <2>5. conn'[d] = "read" => conn[d] = "read" \/ conn[d] = "accepted"
    OBVIOUS
  <2> QED BY <2>1, <2>3, <2>4, <2>5 DEF Line
<1>2. Left(d)'
  BY DEF Left
<1>3. ASSUME failures' = 0 PROVE ReadSoFar(d)' /\ EchoedSoFar(d)'
  <2>1. failures = 0 /\ ReadSoFar(d) /\ EchoedSoFar(d)
    BY <1>3 DEF Quiet
  <2>2. ReadSoFar(d)'
    <3>1. AllX(d) => AllX(d)'
      BY DEF AllX
    <3>2. conn[d] = "accepted" => n[d] = pos[d] - start[d] + 1 /\ AllX(d)
      BY DEF Line, AllX
    <3>3. conn'[d] = "read" => n'[d] = pos'[d] - start'[d] + 1 /\ AllX(d)'
      BY <2>1, <3>1, <3>2 DEF ReadSoFar
    <3>4. conn'[d] = "write" => conn[d] = "write"
      OBVIOUS
    <3>5. conn'[d] = "write" =>
             \/ pos'[d] - start'[d] = n'[d]
             \/ /\ pos'[d] - start'[d] = n'[d] - 1
                /\ (n'[d] = MaxLen /\ AllX(d)') \/ (eof'[d] /\ pos'[d] = Len(sent'[d]))
      BY <2>1, <3>1, <3>4 DEF ReadSoFar
    <3> QED BY <3>3, <3>5 DEF ReadSoFar
  <2>3. EchoedSoFar(d)'
    <3>1. Nuls(d)' = Nuls(d) /\ \A i : NulsBefore(d, i)' = NulsBefore(d, i)
      BY DEF Nuls, NulsBefore
    <3>2. ASSUME NEW i \in DOMAIN got[d], Cut(d, i) PROVE Cut(d, i)'
      BY <3>2 DEF Cut
    <3>3. \A i : Full(d, i)' <=> Full(d, i)
      BY DEF Full
    <3>4. gone'[d] \/ Len(got'[d]) = start'[d] + Cardinality(Nuls(d)')
      BY <2>1, <3>1 DEF EchoedSoFar
    <3> QED BY <2>1, <3>1, <3>2, <3>3, <3>4 DEF EchoedSoFar
  <2> QED BY <2>2, <2>3
<1> QED BY <1>1, <1>2, <1>3 DEF Quiet

(* What main(), launchd and a signal do, and clients that come and go.      *)
LEMMA ProcessSteps ==
    ASSUME EchoInv, Launch \/ SIGTERM_handler \/ CheckIn \/ Kevent \/ Accept \/ CreateThread
    PROVE  EchoInv'
<1> USE DEF EchoInv, MainTypes, mainVars, clientVars, lineVars, Open
<1>1. UNCHANGED <<via, sent, eof, gone, start, pos, n, got>>
  BY DEF Launch, SIGTERM_handler, CheckIn, Kevent, Accept, CreateThread, Die
<1>2. failures' \in Nat /\ failures' <= MaxFailures /\ failures' >= failures
  <2>1. failures' = failures \/ (failures < MaxFailures /\ failures' = failures + 1)
    BY DEF Launch, SIGTERM_handler, CheckIn, Kevent, Accept, CreateThread, Die, Fail
  <2>2. failures \in Nat /\ MaxFailures \in Nat /\ failures <= MaxFailures
    BY BoundsAssumption
  <2> QED BY ONLY <2>1, <2>2
<1>3. \A d \in Clients :
         \/ conn'[d] = conn[d]
         \/ conn'[d] = "closed" /\ failures' > 0
         \/ conn[d] \in {"none", "pending"} /\ conn'[d] \in {"pending", "accepted"}
         \/ conn[d] = "accepted" /\ conn'[d] = "read"
  <2>1. CASE Fail /\ Die
    BY <2>1 DEF Fail, Die
  <2>2. CASE ~(Fail /\ Die)
    BY <2>2 DEF Launch, SIGTERM_handler, CheckIn, Kevent, Accept, CreateThread, Backlog
  <2> QED BY <2>1, <2>2
<1>4. MainTypes'
  <2>1. daemon' \in {"down", "checkin", "kevent", "accept", "create"} /\ ident' \in Listeners
    BY DEF Launch, SIGTERM_handler, CheckIn, Kevent, Accept, CreateThread, Die
  <2>2. conn' \in [Clients -> {"none", "pending", "accepted", "read", "write", "closed"}]
    BY DEF Launch, SIGTERM_handler, CheckIn, Kevent, Accept, CreateThread, Die, Backlog
  <2> QED BY <1>1, <1>2, <2>1, <2>2
<1>5. ByteTypes'
  BY <1>1 DEF ByteTypes
<1>6. \A d \in Clients : Line(d)' /\ Left(d)' /\ Quiet(d)'
  BY <1>1, <1>2, <1>3, StaysKept DEF Stays, Grows, Left
<1>7. Reported'
  <2>1. daemon' = "accept" => Kevent
    BY DEF Launch, SIGTERM_handler, CheckIn, Kevent, Accept, CreateThread, Die
  <2>2. CASE Kevent
    BY <2>2 DEF Kevent, Reported, Backlog
  <2> QED BY <2>1, <2>2 DEF Reported
<1> QED BY <1>4, <1>5, <1>6, <1>7

(* Of a step that leaves main() alone: connections wait until they are      *)
(* taken back.                                                              *)
LEMMA ReportedKept ==
    ASSUME Reported, UNCHANGED <<daemon, ident, via>>,
           \A e \in Clients : via[e] = ident /\ (conn[e] = "pending" \/ TakenBack(e)) =>
                                 conn'[e] = "pending" \/ TakenBack(e)'
    PROVE  Reported'
BY DEF Reported

LEMMA ConnectStep == ASSUME EchoInv, NEW c \in Clients, Connect(c) \/ Finish(c) PROVE EchoInv'
<1> USE DEF EchoInv, MainTypes, mainVars, clientVars, lineVars
<1>1. UNCHANGED <<daemon, ident, failures, via, sent, start, pos, n, got>>
  BY DEF Connect, Finish
<1>2. /\ eof' \in [Clients -> BOOLEAN] /\ gone' \in [Clients -> BOOLEAN]
      /\ \A d \in Clients : (eof[d] => eof'[d]) /\ (gone[d] => gone'[d])
      /\ \A d \in Clients \ {c} : eof'[d] = eof[d] /\ gone'[d] = gone[d] /\ conn'[d] = conn[d]
  BY DEF Connect, Finish, ByteTypes
<1>3. conn' \in [Clients -> {"none", "pending", "accepted", "read", "write", "closed"}]
  BY DEF Connect, Finish
<1>4. gone'[c] => eof'[c]
  BY DEF Connect, Finish, ByteTypes, Left
<1>5. \/ conn'[c] = conn[c]
      \/ conn'[c] = "closed" /\ eof'[c] /\ gone'[c] /\ conn[c] = "pending"
      \/ conn[c] = "none" /\ conn'[c] = "pending"
  BY DEF Connect, Finish, ByteTypes
<1>6. Stays(c) /\ Grows
  BY <1>1, <1>2, <1>4, <1>5 DEF Stays, Grows
<1>7. \A d \in Clients \ {c} : Stays(d)
  BY <1>1, <1>2 DEF Stays, Left
<1>8. \A d \in Clients : Line(d)' /\ Left(d)' /\ Quiet(d)'
  BY <1>6, <1>7, StaysKept
<1>9. Reported'
  <2>1. conn[c] = "pending" => pos[c] = 0
    BY DEF Line
  <2>2. ASSUME NEW e \in Clients, via[e] = ident, conn[e] = "pending" \/ TakenBack(e)
        PROVE  conn'[e] = "pending" \/ TakenBack(e)'
    BY <1>1, <1>2, <1>5, <2>1, <2>2 DEF TakenBack
  <2> QED BY <1>1, <2>2, ReportedKept
<1> QED BY <1>1, <1>2, <1>3, <1>8, <1>9 DEF ByteTypes

(* Sums that the steps below need.                                          *)
LEMMA OneMore == \A d, m \in Int : d <= m => d <= m + 1 /\ d < m + 1
OBVIOUS
LEMMA ZeroAdded ==
    \A u, v, w, x, y \in Int : u = v + w /\ v + y = x + 1 => u + y = x + (w + 1)
OBVIOUS
LEMMA Shifted ==
    \A u, v, w, x \in Int : u = v + w => x - w = v + (x - u)
OBVIOUS

(* readline() and its buffer.                                               *)
LEMMA Thread ==
    ASSUME EchoInv, NEW c \in Clients, conn[c] \in {"none", "read", "write"} \/ conn'[c] = conn[c],
           UNCHANGED <<via, gone>>, UNCHANGED <<daemon, ident>> \/ daemon' = "down",
           pos'[c] = pos[c] \/ conn[c] # "closed",
           \A d \in Clients \ {c} :
              pos'[d] = pos[d] /\ (conn'[d] = conn[d] \/ (conn'[d] = "closed" /\ daemon' = "down"))
    PROVE  Reported'
<1>1. CASE daemon' = "down"
  BY <1>1 DEF Reported
<1>2. CASE UNCHANGED <<daemon, ident>> /\ daemon' # "down"
  <2>1. ASSUME NEW e \in Clients, via[e] = ident, conn[e] = "pending" \/ TakenBack(e)
        PROVE  conn'[e] = "pending" \/ TakenBack(e)'
    BY <1>2, <2>1 DEF TakenBack
  <2> QED BY <1>2, <2>1, ReportedKept DEF EchoInv
<1> QED BY <1>1, <1>2

LEMMA SendStep == ASSUME EchoInv, NEW c \in Clients, Send(c) PROVE EchoInv'
<1> USE DEF EchoInv, MainTypes, mainVars, clientVars, lineVars
<1>1. UNCHANGED <<daemon, ident, failures, conn, via, eof, gone, start, pos, n, got>> /\ ~eof[c]
  BY DEF Send
<1>2. PICK b \in Bytes : sent' = [sent EXCEPT ![c] = Append(sent[c], b)]
  BY DEF Send
<1>3. /\ sent[c] \in Seq(Bytes) /\ sent'[c] = Append(sent[c], b) /\ sent'[c] \in Seq(Bytes)
      /\ \A d \in Clients \ {c} : sent'[d] = sent[d]
  BY <1>2 DEF ByteTypes
<1>4. /\ Len(sent'[c]) = Len(sent[c]) + 1 /\ Len(sent[c]) \in Nat
      /\ \A k \in 1 .. Len(sent[c]) : sent'[c][k] = sent[c][k]
  BY <1>3
<1>5. ByteTypes'
  BY <1>1, <1>2, <1>3 DEF ByteTypes
<1>6. \A d \in Clients \ {c} : Line(d)' /\ Left(d)' /\ Quiet(d)'
  BY <1>1, <1>3, StaysKept DEF Stays, Grows, Left
<1>7. start[c] \in Nat /\ pos[c] \in Nat /\ n[c] \in Nat /\ start[c] <= pos[c] /\ pos[c] <= Len(sent[c])
  BY DEF ByteTypes, Line
<1>8. Line(c)' /\ Left(c)'
  <2>1. pos'[c] <= Len(sent'[c])
    BY <1>1, <1>4, <1>7
  <2> QED BY <1>1, <2>1 DEF Line, Left
<1>9. ASSUME failures = 0 PROVE ReadSoFar(c)' /\ EchoedSoFar(c)'
  <2>1. ReadSoFar(c) /\ EchoedSoFar(c)
    BY <1>9 DEF Quiet
  <2>2. AllX(c) => AllX(c)'
    <3> SUFFICES ASSUME AllX(c), NEW k \in Nat, start'[c] < k, k <= pos'[c] PROVE sent'[c][k] = "x"
      BY DEF AllX
    <3>1. start[c] < k /\ k <= pos[c]
      BY <1>1
    <3>2. k \in 1 .. Len(sent[c])
      BY ONLY <3>1, <1>4, <1>7, k \in Nat
    <3>3. sent[c][k] = "x"
      BY <3>1 DEF AllX
    <3> QED BY <1>4, <3>2, <3>3
  <2>3. ReadSoFar(c)'
    BY <1>1, <2>1, <2>2 DEF ReadSoFar
  <2>4. ~gone[c]
    BY <1>1 DEF Left
  <2>5. Nuls(c)' = Nuls(c) /\ \A i : NulsBefore(c, i)' = NulsBefore(c, i)
    BY <1>1 DEF Nuls, NulsBefore
  <2>6. \A i : (Full(c, i)' <=> Full(c, i)) /\ ~Cut(c, i)
    BY <1>1 DEF Full, Cut
  <2>7. \A k \in 1 .. start[c] : sent'[c][k] = sent[c][k]
    BY <1>4, <1>7
  <2>8. EchoedSoFar(c)'
    BY <1>1, <2>1, <2>4, <2>5, <2>6, <2>7 DEF EchoedSoFar
  <2> QED BY <2>3, <2>8
<1>10. Reported'
  BY <1>1, Thread
<1>11. MainTypes'
  BY <1>1
<1>12. Quiet(c)'
  BY <1>1, <1>9 DEF Quiet
<1> QED BY <1>5, <1>6, <1>8, <1>10, <1>11, <1>12

(* A round of readline(): the byte or the interruption counts.              *)
LEMMA ReadStep == ASSUME EchoInv, NEW c \in Clients, ReadByte(c) \/ ReadInterrupted(c) PROVE EchoInv'
<1> USE DEF EchoInv, MainTypes, mainVars, clientVars, lineVars
<1>1. /\ UNCHANGED <<daemon, ident, via, sent, eof, gone, start, got>> /\ conn[c] = "read"
  BY DEF ReadByte, ReadInterrupted
<1>2. \/ ReadByte(c) /\ pos' = [pos EXCEPT ![c] = @ + 1] /\ pos[c] < Len(sent[c]) /\ failures' = failures
      \/ ReadInterrupted(c) /\ pos' = pos /\ failures < MaxFailures /\ failures' = failures + 1
  BY DEF ReadByte, ReadInterrupted, Fail
<1>3. /\ sent[c] \in Seq(Bytes) /\ Len(sent[c]) \in Nat
      /\ start[c] \in Nat /\ pos[c] \in Nat /\ n[c] \in Nat /\ MaxLen \in Nat
      /\ start[c] <= pos[c] /\ pos[c] <= Len(sent[c]) /\ pos[c] - start[c] < n[c] /\ n[c] < MaxLen
      /\ 1 <= n[c]
  BY <1>1, BoundsAssumption DEF ByteTypes, Line
<1>4. \/ n' = n /\ conn' = [conn EXCEPT ![c] = "write"] /\ ReadByte(c) /\ sent[c][pos[c] + 1] = "\n"
      \/ /\ n' = [n EXCEPT ![c] = @ + 1]
         /\ conn' = [conn EXCEPT ![c] = IF n[c] + 1 = MaxLen THEN "write" ELSE "read"]
         /\ ReadByte(c) => sent[c][pos[c] + 1] # "\n"
  BY DEF ReadByte, ReadInterrupted, CountUp
<1>5. /\ conn' \in [Clients -> {"none", "pending", "accepted", "read", "write", "closed"}]
      /\ n' \in [Clients -> Nat] /\ pos' \in [Clients -> Nat]
      /\ \A d \in Clients \ {c} : conn'[d] = conn[d] /\ n'[d] = n[d] /\ pos'[d] = pos[d]
  <2>1. /\ conn' \in [Clients -> {"none", "pending", "accepted", "read", "write", "closed"}]
        /\ \A d \in Clients \ {c} : conn'[d] = conn[d]
    BY <1>4
  <2>2. n' \in [Clients -> Nat] /\ \A d \in Clients \ {c} : n'[d] = n[d]
    BY <1>4 DEF ByteTypes
  <2>3. pos' \in [Clients -> Nat] /\ \A d \in Clients \ {c} : pos'[d] = pos[d]
    <3>1. pos \in [Clients -> Nat]
      BY DEF ByteTypes
    <3>2. pos' = [pos EXCEPT ![c] = pos[c] + 1] \/ pos' = pos
      BY <1>2
    <3> QED BY <3>1, <3>2
  <2> QED BY <2>1, <2>2, <2>3
<1>6. failures' \in Nat /\ failures' <= MaxFailures /\ failures' >= failures
  BY <1>2, BoundsAssumption
<1>7. MainTypes' /\ ByteTypes'
  BY <1>1, <1>5, <1>6 DEF ByteTypes
<1>8. Reported'
  BY <1>1, <1>5, Thread
<1>9. \A d \in Clients \ {c} : Line(d)' /\ Left(d)' /\ Quiet(d)'
  BY <1>1, <1>5, <1>6, StaysKept DEF Stays, Grows, Left
<1>10. \/ n'[c] = n[c] /\ pos'[c] = pos[c] + 1 /\ conn'[c] = "write"
       \/ /\ n'[c] = n[c] + 1 /\ pos'[c] \in {pos[c], pos[c] + 1}
          /\ conn'[c] = IF n[c] + 1 = MaxLen THEN "write" ELSE "read"
  <2>1. pos'[c] \in {pos[c], pos[c] + 1} /\ (ReadByte(c) => pos'[c] = pos[c] + 1)
    BY <1>2 DEF ByteTypes, ReadByte
  <2>2. CASE n' = n /\ conn' = [conn EXCEPT ![c] = "write"] /\ ReadByte(c)
    BY <2>1, <2>2
  <2>3. CASE /\ n' = [n EXCEPT ![c] = @ + 1]
             /\ conn' = [conn EXCEPT ![c] = IF n[c] + 1 = MaxLen THEN "write" ELSE "read"]
    <3>1. n'[c] = n[c] + 1
      BY <2>3 DEF ByteTypes
    <3>2. conn'[c] = IF n[c] + 1 = MaxLen THEN "write" ELSE "read"
      BY <2>3
    <3> QED BY <2>1, <3>1, <3>2
  <2> QED BY <1>4, <2>2, <2>3
<1>11. pos'[c] \in {pos[c], pos[c] + 1} /\ pos'[c] <= Len(sent[c])
  BY <1>2, <1>3 DEF ByteTypes
<1>12. Line(c)' /\ Left(c)'
  <2>1. /\ start[c] <= pos'[c] /\ n'[c] >= 1 /\ n'[c] <= MaxLen
        /\ pos'[c] - start[c] < MaxLen /\ pos'[c] - start[c] <= n'[c]
        /\ conn'[c] = "read" => n'[c] < MaxLen /\ pos'[c] - start[c] < n'[c]
        /\ conn'[c] \in {"read", "write"}
    <3>1. CASE n'[c] = n[c] /\ pos'[c] = pos[c] + 1 /\ conn'[c] = "write"
      <4>1. n[c] <= MaxLen /\ pos[c] + 1 - start[c] < MaxLen /\ pos[c] + 1 - start[c] <= n[c] /\ start[c] <= pos[c] + 1
        BY <1>3
      <4> QED BY <1>3, <3>1, <4>1
    <3>2. CASE n'[c] = n[c] + 1 /\ pos'[c] \in {pos[c], pos[c] + 1}
      <4>1. start[c] <= pos'[c] /\ pos'[c] - start[c] <= n[c] /\ pos'[c] - start[c] < MaxLen
        BY <1>3, <3>2
      <4>2. n[c] + 1 <= MaxLen /\ (n[c] + 1 # MaxLen => n[c] + 1 < MaxLen) /\ pos'[c] - start[c] < n[c] + 1
        BY <1>3, <3>2, <4>1
      <4>3. conn'[c] = IF n[c] + 1 = MaxLen THEN "write" ELSE "read"
        BY <1>3, <1>10, <3>2
      <4>4. n'[c] = n[c] + 1 /\ n[c] + 1 >= 1
        BY <1>3, <3>2
      <4>5. conn'[c] \in {"read", "write"} /\ (conn'[c] = "read" => n[c] + 1 # MaxLen)
        BY <4>3
      <4>6. n'[c] >= 1 /\ n'[c] <= MaxLen
        BY <4>2, <4>4
      <4>7. pos'[c] - start[c] <= n'[c] /\ pos'[c] - start[c] < n'[c]
        <5>1. pos'[c] - start[c] \in Int /\ n[c] \in Int
          BY <1>3, <3>2
        <5> QED BY <4>1, <4>4, <5>1, OneMore, Zenon
      <4>8. conn'[c] = "read" => n'[c] < MaxLen
        BY <4>2, <4>4, <4>5
      <4> QED BY <4>1, <4>5, <4>6, <4>7, <4>8
    <3> QED BY <1>10, <3>1, <3>2
  <2>2. Line(c)'
    BY <1>1, <1>11, <2>1 DEF Line
  <2> QED BY <1>1, <2>1, <2>2 DEF Left
<1>13. ASSUME failures' = 0 PROVE ReadSoFar(c)' /\ EchoedSoFar(c)'
  <2>1. ReadByte(c) /\ pos'[c] = pos[c] + 1 /\ failures = 0 /\ pos[c] < Len(sent[c])
    BY <1>2, <1>3, <1>13 DEF ByteTypes
  <2>2. ReadSoFar(c) /\ EchoedSoFar(c) /\ n[c] = pos[c] - start[c] + 1 /\ AllX(c)
    BY <1>1, <2>1 DEF Quiet, ReadSoFar
  <2>3. ReadSoFar(c)'
    <3>1. CASE n'[c] = n[c] /\ conn'[c] = "write"
      <4>1. pos'[c] - start'[c] = n'[c]
        BY <1>1, <1>3, <2>1, <2>2, <3>1
      <4> QED BY <3>1, <4>1 DEF ReadSoFar
    <3>2. CASE n' = [n EXCEPT ![c] = @ + 1] /\ sent[c][pos[c] + 1] # "\n"
      <4>1. n'[c] = n[c] + 1 /\ conn'[c] = IF n[c] + 1 = MaxLen THEN "write" ELSE "read"
        BY <1>3, <1>10, <3>2 DEF ByteTypes
      <4>2. sent[c][pos[c] + 1] = "x"
        BY <1>3, <2>1, <3>2 DEF Bytes
      <4>3. AllX(c)'
        <5> SUFFICES ASSUME NEW k \in Nat, start'[c] < k /\ k <= pos'[c] PROVE sent'[c][k] = "x"
          BY DEF AllX
        <5>1. CASE k <= pos[c]
          BY <1>1, <2>2, <5>1 DEF AllX
        <5>2. CASE ~(k <= pos[c])
          <6>1. k = pos[c] + 1
            BY <1>3, <2>1, <5>2
          <6> QED BY <1>1, <4>2, <6>1
        <5> QED BY <5>1, <5>2
      <4>4. pos'[c] - start'[c] = n'[c] - 1
        BY <1>1, <1>3, <2>1, <2>2, <4>1
      <4>5. n'[c] = pos'[c] - start'[c] + 1
        BY <1>1, <1>3, <2>1, <2>2, <4>1
      <4>6. conn'[c] = "write" => n'[c] = MaxLen
        BY <4>1
      <4> QED BY <4>3, <4>4, <4>5, <4>6 DEF ReadSoFar
    <3> QED BY <1>4, <2>1, <3>1, <3>2, <1>5, <1>10
  <2>4. Nuls(c)' = Nuls(c) /\ \A i : NulsBefore(c, i)' = NulsBefore(c, i) /\ (Full(c, i)' <=> Full(c, i))
    BY <1>1 DEF Nuls, NulsBefore, Full
  <2>5. start[c] # Len(sent[c])
    BY <1>3, <2>1
  <2>6. \A i : Cut(c, i) => Cut(c, i)'
    BY <1>1, <2>5 DEF Cut
  <2>7. EchoedSoFar(c)'
    BY <1>1, <2>2, <2>4, <2>6 DEF EchoedSoFar
  <2> QED BY <2>3, <2>7
<1>14. Quiet(c)'
  BY <1>13 DEF Quiet
<1> QED BY <1>7, <1>8, <1>9, <1>12, <1>14

(* The stream ends, or the connection with it.                              *)
LEMMA EndStep == ASSUME EchoInv, NEW c \in Clients, ReadEof(c) \/ ReadError(c) PROVE EchoInv'
<1> USE DEF EchoInv, MainTypes, mainVars, clientVars, lineVars
<1>1. /\ UNCHANGED <<daemon, ident, failures, via, sent, eof, gone, start, pos, n, got>>
      /\ conn[c] = "read" /\ eof[c]
  BY DEF ReadEof, ReadError, Left
<1>2. \/ conn' = [conn EXCEPT ![c] = "closed"]
      \/ conn' = [conn EXCEPT ![c] = "write"] /\ n[c] # 1 /\ pos[c] = Len(sent[c])
  BY DEF ReadEof, ReadError
<1>3. /\ conn' \in [Clients -> {"none", "pending", "accepted", "read", "write", "closed"}]
      /\ \A d \in Clients \ {c} : conn'[d] = conn[d]
  BY <1>2
<1>4. MainTypes' /\ ByteTypes'
  BY <1>1, <1>3 DEF ByteTypes
<1>5. Reported'
  BY <1>1, <1>3, Thread
<1>6. \A d \in Clients \ {c} : Line(d)' /\ Left(d)' /\ Quiet(d)'
  BY <1>1, <1>3, StaysKept DEF Stays, Grows, Left
<1>7. CASE conn'[c] = "closed"
  BY <1>1, <1>4, <1>5, <1>6, <1>7, StaysKept DEF Stays, Grows, Left
<1>8. CASE conn'[c] = "write" /\ n[c] # 1 /\ pos[c] = Len(sent[c])
  <2>1. Line(c)' /\ Left(c)'
    BY <1>1, <1>8 DEF Line, Left
  <2>2. ASSUME failures = 0 PROVE ReadSoFar(c)' /\ EchoedSoFar(c)'
    <3>1. ReadSoFar(c) /\ EchoedSoFar(c) /\ n[c] = pos[c] - start[c] + 1
      BY <1>1, <2>2 DEF Quiet, ReadSoFar
    <3>2. /\ start[c] \in Nat /\ pos[c] \in Nat /\ n[c] \in Nat
      BY DEF ByteTypes
    <3>3. pos[c] - start[c] = n[c] - 1 /\ start[c] # pos[c]
      BY <1>8, <3>1, <3>2
    <3>4. ReadSoFar(c)'
      BY <1>1, <1>8, <3>3 DEF ReadSoFar
    <3>5. Nuls(c)' = Nuls(c) /\ \A i : NulsBefore(c, i)' = NulsBefore(c, i) /\ (Full(c, i)' <=> Full(c, i))
      BY <1>1 DEF Nuls, NulsBefore, Full
    <3>6. \A i : Cut(c, i) => Cut(c, i)'
      BY <1>1, <1>8, <3>3 DEF Cut
    <3>7. EchoedSoFar(c)'
      BY <1>1, <3>1, <3>5, <3>6 DEF EchoedSoFar
    <3> QED BY <3>4, <3>7
  <2>3. Quiet(c)'
    BY <1>1, <2>2 DEF Quiet
  <2> QED BY <1>4, <1>5, <1>6, <2>1, <2>3
<1> QED BY <1>2, <1>7, <1>8

-----------------------------------------------------------------------------
(* daemon_loop()'s write: the bytes of the line, and what follows them in   *)
(* the buffer.                                                              *)
LEMMA EchoedBytes ==
    ASSUME ByteTypes, NEW c \in Clients, Line(c)
    PROVE  /\ Echoed(c) \in Seq(Bytes \cup {NUL, STALE}) /\ Len(Echoed(c)) = n[c]
           /\ \A i \in 1 .. pos[c] - start[c] : Echoed(c)[i] = sent[c][start[c] + i]
           /\ \A i \in pos[c] - start[c] + 1 .. n[c] :
                 Echoed(c)[i] = IF i = pos[c] - start[c] + 1 THEN NUL ELSE STALE
<1> DEFINE T == Bytes \cup {NUL, STALE}
           k == pos[c] - start[c]
           extra == n[c] - k
           rest == [i \in 1 .. extra |-> IF i = 1 THEN NUL ELSE STALE]
<1>1. /\ sent[c] \in Seq(Bytes) /\ start[c] \in Nat /\ pos[c] \in Nat /\ n[c] \in Nat
      /\ start[c] <= pos[c] /\ pos[c] <= Len(sent[c]) /\ pos[c] - start[c] <= n[c]
      /\ Len(sent[c]) \in Nat
  BY DEF ByteTypes, Line
<1>2. k \in Nat /\ extra \in Nat /\ k + extra = n[c]
  BY <1>1
<1>3. \A i \in start[c] + 1 .. pos[c] : sent[c][i] \in T
  <2>1. \A i \in start[c] + 1 .. pos[c] : i \in 1 .. Len(sent[c])
    BY <1>1
  <2> QED BY <1>1, <2>1, ElementOfSeq
<1>4. /\ Chars(c) \in Seq(T) /\ Len(Chars(c)) = k
      /\ \A i \in 1 .. k : Chars(c)[i] = sent[c][start[c] + i]
  <2>1. start[c] + 1 \in Int /\ pos[c] \in Int
    BY <1>1
  <2>2. /\ Chars(c) \in Seq(T)
        /\ Len(Chars(c)) = IF start[c] + 1 <= pos[c] THEN pos[c] - (start[c] + 1) + 1 ELSE 0
        /\ \A i \in 1 .. pos[c] - (start[c] + 1) + 1 : Chars(c)[i] = sent[c][start[c] + 1 + i - 1]
    BY <1>3, <2>1, SubSeqProperties DEF Chars
  <2>3. pos[c] - (start[c] + 1) + 1 = k /\ (~(start[c] + 1 <= pos[c]) => k = 0)
    BY <1>1
  <2>4. \A i \in 1 .. k : start[c] + 1 + i - 1 = start[c] + i
    BY <1>1
  <2> QED BY <2>2, <2>3, <2>4
<1>5. rest \in Seq(T) /\ Len(rest) = extra
  <2>1. rest \in [1 .. extra -> T]
    OBVIOUS
  <2> QED BY <1>2, <2>1
<1>6. /\ Echoed(c) = Chars(c) \o rest
  BY <1>4 DEF Echoed
<1>7. /\ Echoed(c) \in Seq(T) /\ Len(Echoed(c)) = k + extra
      /\ \A i \in 1 .. k + extra : Echoed(c)[i] = IF i <= k THEN Chars(c)[i] ELSE rest[i - k]
  <2> HIDE DEF rest, T
  <2>1. /\ Chars(c) \o rest \in Seq(T) /\ Len(Chars(c) \o rest) = Len(Chars(c)) + Len(rest)
        /\ \A i \in 1 .. Len(Chars(c)) + Len(rest) :
              (Chars(c) \o rest)[i] = IF i <= Len(Chars(c)) THEN Chars(c)[i] ELSE rest[i - Len(Chars(c))]
    BY <1>4, <1>5, ConcatProperties
  <2> QED BY <1>4, <1>5, <1>6, <2>1
<1>8. \A i \in 1 .. k : i \in 1 .. k + extra /\ i <= k
  BY <1>2
<1>9. \A i \in k + 1 .. n[c] : i \in 1 .. k + extra /\ ~(i <= k) /\ i - k \in 1 .. extra /\ (i - k = 1 <=> i = k + 1)
  BY <1>2
<1> QED BY <1>2, <1>4, <1>7, <1>8, <1>9

(* The closing zero is the only addition, while nothing has failed.         *)
LEMMA EchoGrows ==
    ASSUME ByteTypes, NEW c \in Clients, Line(c), ReadSoFar(c), EchoedSoFar(c), conn[c] = "write", ~gone[c],
           got'[c] = got[c] \o Echoed(c), start'[c] = pos[c], conn'[c] = "read",
           UNCHANGED <<sent, eof, gone>>
    PROVE  EchoedSoFar(c)'
<1> DEFINE k == pos[c] - start[c]
           old == Len(got[c])
           new == Len(got'[c])
           zeros == Cardinality(Nuls(c))
<1>1. /\ sent[c] \in Seq(Bytes) /\ start[c] \in Nat /\ pos[c] \in Nat /\ n[c] \in Nat
      /\ start[c] <= pos[c] /\ pos[c] <= Len(sent[c]) /\ k \in Nat /\ start[c] + k = pos[c]
      /\ Len(sent[c]) \in Nat /\ old \in Nat /\ got[c] \in Seq(Bytes \cup {NUL, STALE})
      /\ MaxLen \in Nat /\ MaxLen > 1 /\ n[c] \in Nat
  BY BoundsAssumption DEF ByteTypes, Line
<1>2. /\ Echoed(c) \in Seq(Bytes \cup {NUL, STALE}) /\ Len(Echoed(c)) = n[c]
      /\ \A i \in 1 .. k : Echoed(c)[i] = sent[c][start[c] + i]
      /\ \A i \in k + 1 .. n[c] : Echoed(c)[i] = IF i = k + 1 THEN NUL ELSE STALE
  BY EchoedBytes
<1>3. /\ got'[c] \in Seq(Bytes \cup {NUL, STALE}) /\ new = old + n[c] /\ DOMAIN got'[c] = 1 .. old + n[c]
      /\ DOMAIN got[c] = 1 .. old
      /\ \A i \in 1 .. old + n[c] : got'[c][i] = IF i <= old THEN got[c][i] ELSE Echoed(c)[i - old]
  <2> DEFINE T == Bytes \cup {NUL, STALE}
  <2>1. got[c] \in Seq(T) /\ Echoed(c) \in Seq(T)
    BY <1>1, <1>2
  <2> HIDE DEF T
  <2>2. /\ got[c] \o Echoed(c) \in Seq(T) /\ Len(got[c] \o Echoed(c)) = Len(got[c]) + Len(Echoed(c))
        /\ \A i \in 1 .. Len(got[c]) + Len(Echoed(c)) :
              (got[c] \o Echoed(c))[i] = IF i <= Len(got[c]) THEN got[c][i] ELSE Echoed(c)[i - Len(got[c])]
    BY <2>1, ConcatProperties
  <2>3. got'[c] \in Seq(T) /\ new = old + n[c]
    BY <1>2, <2>2
  <2>4. DOMAIN got'[c] = 1 .. old + n[c] /\ DOMAIN got[c] = 1 .. old
    BY <2>1, <2>3, LenProperties
  <2> QED BY <1>2, <2>2, <2>3, <2>4 DEF T
<1>0. /\ old \in Nat /\ k \in Nat /\ n[c] \in Nat /\ start[c] \in Nat /\ pos[c] \in Nat
      /\ Len(sent[c]) \in Nat /\ pos[c] <= Len(sent[c]) /\ start[c] + k = pos[c]
      /\ MaxLen \in Nat /\ MaxLen > 1
  BY <1>1
<1> HIDE DEF k, old, new, zeros
<1>4. \/ k = n[c]
      \/ /\ k = n[c] - 1
         /\ (n[c] = MaxLen /\ AllX(c)) \/ (eof[c] /\ pos[c] = Len(sent[c]))
  BY DEF ReadSoFar, k
<1>4a. k = n[c] \/ k = n[c] - 1
  BY <1>4
<1>5. \A i \in 1 .. old : i \in 1 .. old + n[c] /\ got'[c][i] = got[c][i]
  <2>1. \A i \in 1 .. old : i \in 1 .. old + n[c] /\ i <= old
    BY ONLY <1>1
  <2> QED BY <1>3, <2>1
<1>6. ASSUME NEW i \in old + 1 .. old + k
      PROVE  /\ i \in 1 .. old + n[c] /\ start[c] + (i - old) \in 1 .. pos[c]
             /\ got'[c][i] = sent[c][start[c] + (i - old)] /\ got'[c][i] # NUL
  <2>1. i \in 1 .. old + n[c] /\ ~(i <= old) /\ i - old \in 1 .. k
    BY ONLY <1>0, <1>4a, i \in old + 1 .. old + k
  <2>2. start[c] + (i - old) \in 1 .. pos[c] /\ start[c] + (i - old) \in 1 .. Len(sent[c])
    BY ONLY <1>0, <2>1
  <2>3. got'[c][i] = sent[c][start[c] + (i - old)]
    BY <1>2, <1>3, <2>1
  <2>4. sent[c][start[c] + (i - old)] \in Bytes
    BY <1>1, <2>2, ElementOfSeq
  <2> QED BY <2>1, <2>2, <2>3, <2>4 DEF Bytes, NUL
<1>7. ASSUME NEW i \in 1 .. old + n[c], ~(i <= old + k)
      PROVE  k = n[c] - 1 /\ i = old + n[c] /\ got'[c][i] = NUL
  <2>1. k = n[c] - 1 /\ i = old + n[c] /\ ~(i <= old) /\ i - old = k + 1 /\ i - old \in k + 1 .. n[c]
    BY ONLY <1>0, <1>4, <1>7, i \in 1 .. old + n[c]
  <2> QED BY <1>2, <1>3, <2>1
<1>8. ASSUME NEW i \in 1 .. old + n[c]
      PROVE  i \in 1 .. old \/ i \in old + 1 .. old + k \/ ~(i <= old + k)
  BY <1>1
<1>9. Nuls(c) = {j \in 1 .. old : got[c][j] = NUL} /\ IsFiniteSet(Nuls(c)) /\ zeros \in Nat
  <2>1. Nuls(c) = {j \in 1 .. old : got[c][j] = NUL}
    BY <1>3 DEF Nuls, old
  <2>2. IsFiniteSet(1 .. old)
    BY <1>1, FS_Interval
  <2>3. IsFiniteSet(Nuls(c))
    BY <2>1, <2>2, FS_Subset
  <2> QED BY <2>1, <2>3, FS_CardinalityType DEF zeros
<1>0a. old \in Int /\ start[c] \in Int /\ zeros \in Int /\ pos[c] \in Int /\ n[c] \in Int
  BY <1>0, <1>9
<1>10. old = start[c] + zeros
  BY DEF EchoedSoFar, old, zeros
<1>11. new = pos[c] + Cardinality(Nuls(c)')
  <2>1. CASE k = n[c]
    <3>1. \A j : j \in Nuls(c)' <=> j \in Nuls(c)
      <4>1. \A j \in 1 .. old + n[c] : j <= old + k
        BY <2>1
      <4> QED BY <1>3, <1>5, <1>6, <1>8, <1>9, <4>1 DEF Nuls
    <3>2. Nuls(c)' = Nuls(c)
      BY <3>1
    <3>3. old + n[c] = pos[c] + zeros
      BY <1>1, <1>9, <1>10, <2>1
    <3> QED BY <1>3, <3>2, <3>3 DEF zeros
  <2>2. CASE k = n[c] - 1
    <3>1. old + n[c] \in 1 .. old + n[c] /\ ~(old + n[c] <= old + k) /\ old + n[c] \notin 1 .. old
      BY ONLY <1>0, <2>2
    <3>2. \A j : j \in Nuls(c)' <=> j \in Nuls(c) \cup {old + n[c]}
      BY <1>3, <1>5, <1>6, <1>7, <1>8, <1>9, <3>1 DEF Nuls
    <3>3. Nuls(c)' = Nuls(c) \cup {old + n[c]} /\ old + n[c] \notin Nuls(c)
      BY <1>9, <3>1, <3>2
    <3>4. Cardinality(Nuls(c)') = zeros + 1
      <4>1. Cardinality(Nuls(c) \cup {old + n[c]}) = Cardinality(Nuls(c)) + 1
        BY <1>9, <3>3, FS_AddElement
      <4>2. zeros = Cardinality(Nuls(c))
        BY DEF zeros
      <4> QED BY <3>3, <4>1, <4>2
    <3>5. old + n[c] = pos[c] + (zeros + 1)
      <4>1. start[c] + n[c] = pos[c] + 1
        BY ONLY <1>0, <2>2
      <4>2. \A v, w, x, y \in Int : old = v + w /\ v + y = x + 1 => old + y = x + (w + 1)
        BY <1>0a, ZeroAdded, Zenon
      <4>3. \A w, x, y \in Int : old = start[c] + w /\ start[c] + y = x + 1 => old + y = x + (w + 1)
        BY <1>0a, <4>2, Zenon
      <4>4. \A x, y \in Int : old = start[c] + zeros /\ start[c] + y = x + 1 => old + y = x + (zeros + 1)
        BY <1>0a, <4>3, Zenon
      <4>5. \A y \in Int : old = start[c] + zeros /\ start[c] + y = pos[c] + 1 => old + y = pos[c] + (zeros + 1)
        BY <1>0a, <4>4, Zenon
      <4>6. old = start[c] + zeros /\ start[c] + n[c] = pos[c] + 1 => old + n[c] = pos[c] + (zeros + 1)
        BY <1>0a, <4>5, Zenon
      <4> QED BY <1>10, <4>1, <4>6, Zenon
    <3> QED BY <1>3, <3>4, <3>5
  <2> QED BY <1>4, <2>1, <2>2
<1>12. ASSUME NEW i \in 1 .. old
       PROVE  IF got'[c][i] = NUL THEN Full(c, i)' \/ Cut(c, i)'
              ELSE LET m == i - Cardinality(NulsBefore(c, i)') IN m \in 1 .. pos[c] /\ got'[c][i] = sent[c][m]
  <2>1. IF got[c][i] = NUL THEN Full(c, i) \/ Cut(c, i)
        ELSE LET m == i - Cardinality(NulsBefore(c, i)) IN m \in 1 .. start[c] /\ got[c][i] = sent[c][m]
    BY <1>3 DEF EchoedSoFar
  <2>2. CASE got[c][i] = NUL
    <3>1. Full(c, i)
      BY <2>1, <2>2 DEF Cut
    <3>2. \A j \in (i - MaxLen + 1) .. (i - 1) : j \in 1 .. old
      BY <1>1, <3>1 DEF Full
    <3>3. Full(c, i)'
      BY <1>5, <3>1, <3>2 DEF Full
    <3> QED BY <1>5, <2>2, <3>3
  <2>3. CASE got[c][i] # NUL
    <3>1. \A j : j \in NulsBefore(c, i)' <=> j \in NulsBefore(c, i)
      <4>1. \A j \in 1 .. old + n[c] : j < i => j \in 1 .. old
        BY <1>1
      <4> QED BY <1>3, <1>5, <4>1 DEF NulsBefore
    <3>2. NulsBefore(c, i)' = NulsBefore(c, i)
      BY <3>1
    <3>3. \A m \in 1 .. start[c] : m \in 1 .. pos[c]
      BY <1>1
    <3> QED BY <1>5, <2>1, <2>3, <3>2, <3>3
  <2> QED BY <2>2, <2>3
<1>13. ASSUME NEW i \in old + 1 .. old + k
       PROVE  LET m == i - Cardinality(NulsBefore(c, i)') IN m \in 1 .. pos[c] /\ got'[c][i] = sent[c][m]
  <2>1. \A j \in 1 .. old : j < i
    BY <1>1
  <2>2. \A j \in 1 .. old + n[c] : j < i /\ ~(j \in 1 .. old) => j \in old + 1 .. old + k
    BY <1>1
  <2>3. \A j : j \in NulsBefore(c, i)' <=> j \in Nuls(c)
    BY <1>3, <1>5, <1>6, <1>9, <2>1, <2>2 DEF NulsBefore
  <2>4. NulsBefore(c, i)' = Nuls(c)
    BY <2>3
  <2>5. i - zeros = start[c] + (i - old)
    <3>1. i \in Int
      BY <1>0
    <3>2. \A v, w, x \in Int : old = v + w => x - w = v + (x - old)
      BY <1>0a, Shifted, Zenon
    <3>3. \A w, x \in Int : old = start[c] + w => x - w = start[c] + (x - old)
      BY <1>0a, <3>2, Zenon
    <3>4. \A x \in Int : old = start[c] + zeros => x - zeros = start[c] + (x - old)
      BY <1>0a, <3>3, Zenon
    <3>5. old = start[c] + zeros
      BY <1>10, Zenon
    <3>6. \A x \in Int : x - zeros = start[c] + (x - old)
      BY <3>4, <3>5, Zenon
    <3> QED BY <3>1, <3>6, Zenon
  <2> QED BY <1>6, <2>4, <2>5 DEF zeros
<1>14. ASSUME NEW i \in 1 .. old + n[c], ~(i <= old + k)
       PROVE  Full(c, i)' \/ Cut(c, i)'
  <2>1. k = n[c] - 1 /\ i = old + n[c]
    BY <1>7, <1>14
  <2>2. CASE n[c] = MaxLen /\ AllX(c)
    <3>1. i >= MaxLen
      BY <1>1, <2>1, <2>2
    <3>2. ASSUME NEW j \in (i - MaxLen + 1) .. (i - 1) PROVE got'[c][j] = "x"
      <4>1. j \in old + 1 .. old + k
        BY <1>1, <2>1, <2>2
      <4>2. /\ start[c] + (j - old) \in Nat /\ start[c] < start[c] + (j - old)
            /\ start[c] + (j - old) <= pos[c]
        BY <1>1, <4>1
      <4>3. sent[c][start[c] + (j - old)] = "x"
        BY <2>2, <4>2 DEF AllX
      <4> QED BY <1>6, <4>1, <4>3
    <3> QED BY <3>1, <3>2 DEF Full
  <2>3. CASE eof[c] /\ pos[c] = Len(sent[c])
    BY <1>3, <2>1, <2>3 DEF Cut, new
  <2> QED BY <1>1, <1>4, <2>1, <2>2, <2>3
<1> QED
  <2>1. Len(got'[c]) = start'[c] + Cardinality(Nuls(c)')
    BY <1>11 DEF new
  <2>2. ASSUME NEW i \in 1 .. old + n[c]
        PROVE  IF got'[c][i] = NUL THEN Full(c, i)' \/ Cut(c, i)'
               ELSE LET m == i - Cardinality(NulsBefore(c, i)') IN m \in 1 .. pos[c] /\ got'[c][i] = sent[c][m]
    <3>1. CASE i \in 1 .. old
      BY <1>12, <3>1
    <3>2. CASE i \in old + 1 .. old + k
      BY <1>6, <1>13, <3>2
    <3>3. CASE ~(i <= old + k)
      BY <1>7, <1>14, <3>3
    <3> QED BY <1>8, <3>1, <3>2, <3>3
  <2> QED BY <1>3, <2>1, <2>2 DEF EchoedSoFar

LEMMA WriteStep == ASSUME EchoInv, NEW c \in Clients, Write(c) PROVE EchoInv'
<1> USE DEF EchoInv, MainTypes, mainVars, clientVars, lineVars
<1>1. UNCHANGED <<ident, failures, via, sent, eof, gone, pos>> /\ conn[c] = "write"
  BY DEF Write, Die
<1>2. CASE gone[c] /\ Die
  <2>1. /\ daemon' = "down" /\ UNCHANGED <<start, n, got>>
        /\ conn' = [d \in Clients |-> IF Open(d) THEN "closed" ELSE conn[d]]
    BY <1>2 DEF Die
  <2>2. MainTypes' /\ ByteTypes' /\ Reported'
    BY <1>1, <2>1 DEF ByteTypes, Reported
  <2>3. \A d \in Clients : Stays(d)
    BY <1>1, <1>2, <2>1 DEF Stays, Left
  <2> QED BY <1>1, <2>2, <2>3, StaysKept DEF Grows
<1>3. CASE /\ got' = [got EXCEPT ![c] = IF gone[c] THEN @ ELSE @ \o Echoed(c)]
           /\ conn' = [conn EXCEPT ![c] = "read"]
           /\ n' = [n EXCEPT ![c] = 1]
           /\ start' = [start EXCEPT ![c] = pos[c]]
           /\ UNCHANGED daemon
  <2>1. /\ conn'[c] = "read" /\ n'[c] = 1 /\ start'[c] = pos[c]
        /\ got'[c] = IF gone[c] THEN got[c] ELSE got[c] \o Echoed(c)
        /\ \A d \in Clients \ {c} :
              conn'[d] = conn[d] /\ n'[d] = n[d] /\ start'[d] = start[d] /\ got'[d] = got[d]
    BY <1>3 DEF ByteTypes
  <2>2. MainTypes'
    BY <1>1, <1>3
  <2>3. ByteTypes'
    <3>1. got'[c] \in Seq(Bytes \cup {NUL, STALE})
      <4> DEFINE T == Bytes \cup {NUL, STALE}
      <4>1. got[c] \in Seq(T) /\ Echoed(c) \in Seq(T)
        BY EchoedBytes DEF ByteTypes
      <4> HIDE DEF T
      <4>2. got[c] \o Echoed(c) \in Seq(T)
        BY <4>1, ConcatProperties
      <4> QED BY <2>1, <4>1, <4>2 DEF T
    <3>2. got' \in [Clients -> Seq(Bytes \cup {NUL, STALE})]
      BY <1>3, <2>1, <3>1 DEF ByteTypes
    <3>3. n' \in [Clients -> Nat] /\ start' \in [Clients -> Nat]
      BY <1>3 DEF ByteTypes
    <3> QED BY <1>1, <3>2, <3>3 DEF ByteTypes
  <2>4. Reported'
    BY <1>1, <1>3, <2>1, Thread
  <2>5. \A d \in Clients \ {c} : Line(d)' /\ Left(d)' /\ Quiet(d)'
    BY <1>1, <2>1, StaysKept DEF Stays, Grows, Left
  <2>6. start[c] \in Nat /\ pos[c] \in Nat /\ start[c] <= pos[c] /\ pos[c] <= Len(sent[c]) /\ pos[c] - pos[c] = 0
        /\ MaxLen \in Nat /\ MaxLen > 1
    BY BoundsAssumption DEF ByteTypes, Line
  <2>7. Line(c)' /\ Left(c)'
    BY <1>1, <2>1, <2>6 DEF Line, Left
  <2>8. ASSUME failures = 0 PROVE ReadSoFar(c)' /\ EchoedSoFar(c)'
    <3>1. ReadSoFar(c) /\ EchoedSoFar(c)
      BY <2>8 DEF Quiet
    <3>2. ReadSoFar(c)'
      <4>1. \A k \in Nat : ~(pos[c] < k /\ k <= pos[c])
        BY <2>6
      <4>2. AllX(c)'
        BY <1>1, <2>1, <4>1 DEF AllX
      <4> QED BY <1>1, <2>1, <2>6, <4>2 DEF ReadSoFar
    <3>3. CASE ~gone[c]
      BY <1>1, <2>1, <3>1, <3>2, <3>3, EchoGrows
    <3>4. CASE gone[c]
      <4>1. Nuls(c)' = Nuls(c) /\ \A i : NulsBefore(c, i)' = NulsBefore(c, i) /\ (Full(c, i)' <=> Full(c, i))
        BY <2>1, <3>4 DEF Nuls, NulsBefore, Full
      <4>2. \A i : Cut(c, i) => Cut(c, i)'
        BY <1>1, <2>1, <3>4 DEF Cut
      <4>3. \A k \in 1 .. start[c] : k \in 1 .. start'[c]
        BY <2>1, <2>6
      <4> QED BY <1>1, <2>1, <3>1, <3>2, <3>4, <4>1, <4>2, <4>3 DEF EchoedSoFar
    <3> QED BY <3>2, <3>3, <3>4
  <2>9. Quiet(c)'
    BY <1>1, <2>8 DEF Quiet
  <2> QED BY <2>2, <2>3, <2>4, <2>5, <2>7, <2>9
<1> QED BY <1>1, <1>2, <1>3 DEF Write

LEMMA EchoInit == Init => EchoInv
<1> SUFFICES ASSUME Init PROVE EchoInv
  OBVIOUS
<1>1. MainTypes /\ ByteTypes /\ Reported
  BY BoundsAssumption DEF Init, MainTypes, ByteTypes, Reported
<1>2. ASSUME NEW c \in Clients PROVE Line(c) /\ Left(c) /\ Quiet(c)
  <2>1. /\ conn[c] = "none" /\ pos[c] = 0 /\ start[c] = 0 /\ n[c] = 1 /\ ~gone[c] /\ sent[c] = <<>>
        /\ got[c] = <<>>
    BY DEF Init
  <2>2. Nuls(c) = {} /\ Cardinality(Nuls(c)) = 0
    BY <2>1, FS_EmptySet DEF Nuls
  <2> QED BY <2>1, <2>2, BoundsAssumption DEF Line, Left, Quiet, ReadSoFar, EchoedSoFar
<1> QED BY <1>1, <1>2 DEF EchoInv

LEMMA EchoNext == EchoInv /\ [Next]_vars => EchoInv'
<1> SUFFICES ASSUME EchoInv, [Next]_vars PROVE EchoInv'
  OBVIOUS
<1>1. CASE Launch \/ SIGTERM_handler \/ MainStep
  BY <1>1, ProcessSteps DEF MainStep
<1>2. ASSUME NEW c \in Clients, Connect(c) \/ Send(c) \/ Finish(c) \/ ThreadStep(c) PROVE EchoInv'
  BY <1>2, ConnectStep, SendStep, ReadStep, EndStep, WriteStep DEF ThreadStep
<1>3. CASE UNCHANGED vars
  <2> USE <1>3 DEF EchoInv, vars, mainVars, clientVars, lineVars
  <2>1. MainTypes' /\ ByteTypes' /\ Reported'
    BY DEF MainTypes, ByteTypes, Reported, TakenBack
  <2>2. \A d \in Clients : Stays(d)
    BY DEF Stays, Left
  <2>3. Grows
    BY DEF Grows, MainTypes
  <2> QED BY <2>1, <2>2, <2>3, StaysKept
<1> QED BY <1>1, <1>2, <1>3 DEF Next

-----------------------------------------------------------------------------
\* No connection and no wait is lost (5-26/dummyd.c, main() and the threads):
\* whatever fails, a connection is closed only because its client left or the
\* daemon ended, and main() blocks in accept() only when a client has taken back
\* the connection that kevent() reported.
THEOREM NothingIsLost == Spec => []ConnectionsKept
<1>1. EchoInv => ConnectionsKept
  BY DEF EchoInv, Left, Reported, ConnectionsKept, NoSpuriousClose, AcceptFindsConnection, Blocked,
         Backlog, TakenBack
<1> QED BY <1>1, EchoInit, EchoNext, PTL DEF Spec

\* readline() and daemon_loop() (5-26/dummyd.c): for any clients, any size of
\* the buffer and any number of bytes, a line stays in its buffer, and as long
\* as nothing has failed what a client is echoed is what it has sent, with a
\* closing zero only behind a full line or the end of the stream.
THEOREM EchoesWhatWasSent == Spec => []EchoUpToNul
<1>1. EchoInv => EchoUpToNul
  <2> SUFFICES ASSUME EchoInv PROVE EchoUpToNul
    OBVIOUS
  <2> USE DEF EchoInv
  <2>1. TypeOK
    <3>1. failures \in 0 .. MaxFailures
      BY BoundsAssumption DEF MainTypes
    <3>2. \A c \in Clients : 0 <= start[c] /\ start[c] <= pos[c] /\ pos[c] <= Len(sent[c])
      BY DEF ByteTypes, Line
    <3> QED BY <3>1, <3>2 DEF TypeOK, MainTypes, ByteTypes
  <2>2. ASSUME NEW c \in Clients PROVE n[c] <= MaxLen /\ Len(Chars(c)) < MaxLen
    <3>1. /\ start[c] \in Nat /\ pos[c] \in Nat /\ start[c] <= pos[c] /\ pos[c] <= Len(sent[c])
          /\ pos[c] - start[c] < MaxLen /\ n[c] <= MaxLen /\ sent[c] \in Seq(Bytes) /\ Len(sent[c]) \in Nat
      BY DEF ByteTypes, Line
    <3>2. \A i \in start[c] + 1 .. pos[c] : sent[c][i] \in Bytes
      <4>1. \A i \in start[c] + 1 .. pos[c] : i \in 1 .. Len(sent[c])
        BY ONLY <3>1
      <4> QED BY <3>1, <4>1, ElementOfSeq
    <3>3. start[c] + 1 \in Int /\ pos[c] \in Int
      BY <3>1
    <3>4. Len(Chars(c)) = IF start[c] + 1 <= pos[c] THEN pos[c] - (start[c] + 1) + 1 ELSE 0
      BY <3>2, <3>3, SubSeqProperties DEF Chars
    <3>5. Len(Chars(c)) = pos[c] - start[c]
      BY ONLY <3>1, <3>4
    <3> QED BY <3>1, <3>5
  <2>3. ASSUME failures = 0, NEW c \in Clients, NEW i \in DOMAIN got[c]
        PROVE  IF got[c][i] = NUL
               THEN \/ eof[c] /\ i = Len(got[c])
                    \/ i >= MaxLen /\ \A j \in (i - MaxLen + 1) .. (i - 1) : got[c][j] = "x"
               ELSE LET k == i - Cardinality(NulsBefore(c, i)) IN
                    k \in DOMAIN sent[c] /\ got[c][i] = sent[c][k]
    <3>1. EchoedSoFar(c)
      BY <2>3 DEF Quiet
    <3>2. \A k \in 1 .. start[c] : k \in DOMAIN sent[c]
      <4>1. start[c] \in Nat /\ start[c] <= Len(sent[c]) /\ sent[c] \in Seq(Bytes) /\ Len(sent[c]) \in Nat
        BY DEF ByteTypes, Line
      <4>2. DOMAIN sent[c] = 1 .. Len(sent[c])
        BY <4>1
      <4> QED BY <4>1, <4>2
    <3> QED BY <3>1, <3>2 DEF EchoedSoFar, Full, Cut
  <2> QED BY <2>1, <2>2, <2>3 DEF EchoUpToNul, InBuffer
<1> QED BY <1>1, EchoInit, EchoNext, PTL DEF Spec
=============================================================================
