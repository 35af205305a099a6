-------------------------- MODULE MachServerProofs --------------------------
(***************************************************************************)
(* Every client of the Mach server gets the answer to its own request, and *)
(* no request is lost or answered twice while the server is up: proved for *)
(* any clients, data and answer function; and the answers of the factorial *)
(* service are factorials as far as an int can hold them.                  *)
(***************************************************************************)
EXTENDS FactorialIPC, FiniteSetTheorems, TLAPS

(* Adding and removing a message, by its place in the queue.                *)
LEMMA QueueTail ==
    ASSUME NEW q \in Seq(Requests), q # <<>>
    PROVE  /\ Head(q) = q[1] /\ q[1] \in Requests
           /\ Tail(q) \in Seq(Requests) /\ Len(Tail(q)) = Len(q) - 1
           /\ \A i \in 1 .. Len(Tail(q)) : Tail(q)[i] = q[i + 1]
  OBVIOUS

LEMMA QueueAppend ==
    ASSUME NEW q \in Seq(Requests), NEW r \in Requests
    PROVE  /\ Append(q, r) \in Seq(Requests) /\ Len(Append(q, r)) = Len(q) + 1
           /\ Append(q, r)[Len(q) + 1] = r
           /\ \A i \in 1 .. Len(q) : Append(q, r)[i] = q[i]
  OBVIOUS

LEMMA TypeInit == Init => TypeOK
  BY DEF Init, TypeOK, Requests, Nothing

LEMMA TypeStep == TypeOK /\ [Next]_vars => TypeOK'
<1> SUFFICES ASSUME TypeOK, [Next]_vars PROVE TypeOK'
  OBVIOUS
<1> USE ConstantsAssumption DEF TypeOK
<1>0. ServerExits => /\ server' = "exit" /\ port' \in {"none", "alive", "dead"}
                      /\ queue' \in Seq(Requests)
  <2>1. <<>> \in Seq(Requests)
    OBVIOUS
  <2> QED
    BY <2>1 DEF ServerExits
<1>1. CASE CreateService
  BY <1>0, <1>1 DEF CreateService
<1>2. CASE CheckIn
  BY <1>0, <1>2 DEF CheckIn
<1>3. CASE Receive
  <2>1. CASE queue # <<>> /\ request' = Head(queue) /\ queue' = Tail(queue) /\ server' = "reply" /\ UNCHANGED port
    BY <1>3, <2>1, QueueTail DEF Receive
  <2>2. CASE ServerExits /\ UNCHANGED request
    BY <1>0, <1>3, <2>2 DEF Receive
  <2> QED BY <1>3, <2>1, <2>2 DEF Receive
<1>4. CASE Reply
  <2>1. request \in Requests
    BY <1>4 DEF Reply
  <2>2. Answer[request.data] \in Answers
    BY <2>1 DEF Requests
  <2>3. inbox' \in [Clients -> Answers \cup {NoAnswer}]
    BY <1>4, <2>1, <2>2 DEF Reply, PortAlive
  <2>4. /\ server' \in {"receive", "exit"} /\ port' \in {"none", "alive", "dead"}
        /\ queue' \in Seq(Requests)
    BY <1>0, <1>4 DEF Reply
  <2> QED
    BY <1>4, <2>3, <2>4 DEF Reply
<1>5. ASSUME NEW c \in Clients, LookUp(c) PROVE TypeOK'
  BY <1>5 DEF LookUp, Go, serverVars
<1>6. ASSUME NEW c \in Clients, Send(c) PROVE TypeOK'
  <2>1. [from |-> c, data |-> asked[c]] \in Requests
    BY DEF Requests
  <2>2. queue' \in Seq(Requests)
    BY <1>6, <2>1, QueueAppend DEF Send
  <2> QED
    BY <1>6, <2>2 DEF Send, Go, serverVars
<1>7. ASSUME NEW c \in Clients, Take(c) PROVE TypeOK'
  BY <1>7 DEF Take, Go, serverVars
<1>8. ASSUME NEW c \in Clients, Killed(c) PROVE TypeOK'
  BY <1>8 DEF Killed, serverVars
<1>9. CASE UNCHANGED vars
  BY <1>9 DEF vars, serverVars
<1> QED
  BY <1>1, <1>2, <1>3, <1>4, <1>5, <1>6, <1>7, <1>8, <1>9
     DEF Next, ServerStep, ClientStep

(* Matching: data and answers.                                              *)
LEMMA MatchingStep == TypeOK /\ Matching /\ Single /\ [Next]_vars => Matching'
<1> SUFFICES ASSUME TypeOK, Matching, Single, [Next]_vars PROVE Matching'
  OBVIOUS
<1> USE ConstantsAssumption DEF TypeOK, Matching, Got
<1>0. CASE /\ UNCHANGED <<request, client, asked, inbox, result>>
           /\ UNCHANGED queue \/ queue' = <<>>
  BY <1>0
<1>1. CASE CreateService \/ CheckIn
  BY <1>0, <1>1 DEF CreateService, CheckIn, ServerExits
<1>3. CASE Receive
  <2>1. CASE queue # <<>> /\ request' = Head(queue) /\ queue' = Tail(queue)
    BY <1>3, <2>1, QueueTail DEF Receive, Requests
  <2>2. CASE ServerExits /\ UNCHANGED request
    BY <1>0, <1>3, <2>2 DEF Receive, ServerExits
  <2> QED BY <1>3, <2>1, <2>2 DEF Receive
<1>4. CASE Reply
  <2>1. request \in Requests /\ request.data = asked[request.from]
    BY <1>4 DEF Reply, Requests, Nothing
  <2>2. CASE ~PortAlive(request.from)
    BY <1>0, <1>4, <2>2 DEF Reply, ServerExits
  <2>3. CASE PortAlive(request.from)
    <3>1. \A c \in Clients : inbox'[c] # NoAnswer => inbox'[c] = Answer[asked[c]]
      BY <1>4, <2>1, <2>3 DEF Reply, Requests
    <3> QED
      BY <1>4, <2>3, <3>1 DEF Reply
  <2> QED
    BY <2>2, <2>3
<1>5. ASSUME NEW c \in Clients, LookUp(c) PROVE Matching'
  BY <1>5 DEF LookUp, Go, serverVars
<1>6. ASSUME NEW c \in Clients, Send(c) PROVE Matching'
  <2>1. [from |-> c, data |-> asked[c]] \in Requests
    BY DEF Requests
  <2>2. UNCHANGED <<request, asked, inbox, result>>
    BY <1>6 DEF Send, serverVars
  <2>3. \A i \in 1 .. Len(queue') : queue'[i].data = asked[queue'[i].from]
    <3>1. CASE UNCHANGED queue
      BY <3>1
    <3>2. CASE queue' = Append(queue, [from |-> c, data |-> asked[c]])
      <4> SUFFICES ASSUME NEW i \in 1 .. Len(queue')
                   PROVE queue'[i].data = asked[queue'[i].from]
        OBVIOUS
      <4>1. i = Len(queue) + 1 \/ i \in 1 .. Len(queue)
        BY <2>1, <3>2, QueueAppend
      <4> QED
        BY <2>1, <3>2, <4>1, QueueAppend
    <3> QED
      BY <1>6, <3>1, <3>2 DEF Send
  <2>4. \A d \in Clients : client'[d] = "done" => client[d] = "done"
    BY <1>6 DEF Send, Go
  <2> QED
    BY <2>2, <2>3, <2>4
<1>7. ASSUME NEW c \in Clients, Take(c) PROVE Matching'
  BY <1>7 DEF Take, Go, serverVars
<1>8. ASSUME NEW c \in Clients, Killed(c) PROVE Matching'
  BY <1>8 DEF Killed, serverVars
<1>9. CASE UNCHANGED vars
  BY <1>9 DEF vars, serverVars
<1> QED
  BY <1>1, <1>3, <1>4, <1>5, <1>6, <1>7, <1>8, <1>9
     DEF Next, ServerStep, ClientStep

(* Single and InFlight: where the request of a client is.                   *)
LEMMA PlacesStep ==
    TypeOK /\ Single /\ InFlight /\ [Next]_vars => Single' /\ InFlight'
<1> SUFFICES ASSUME TypeOK, Single, InFlight, [Next]_vars PROVE Single' /\ InFlight'
  OBVIOUS
<1> USE ConstantsAssumption DEF TypeOK, Single, InFlight, Got, Working
<1>1. CASE CreateService \/ CheckIn
  BY <1>1 DEF CreateService, CheckIn, ServerExits, Queued
<1>2. CASE Receive /\ ServerExits
  BY <1>2 DEF Receive, ServerExits, Queued
<1>3. CASE Receive /\ ~ServerExits
  <2> DEFINE n == Len(queue)
             r == queue[1]
  <2>1. /\ queue' = Tail(queue) /\ queue # <<>> /\ request' = Head(queue)
        /\ server = "receive" /\ server' = "reply" /\ UNCHANGED <<client, inbox>>
    BY <1>3 DEF Receive
  <2>2. /\ Head(queue) = r /\ r \in Requests /\ n \in Nat \ {0} /\ Len(queue') = n - 1
        /\ \A i \in 1 .. n - 1 : queue'[i] = queue[i + 1]
    BY <2>1, QueueTail
  <2>3. r.from \in Clients /\ Queued(r.from)
    BY <2>2 DEF Queued, Requests
  <2>4. ASSUME NEW c \in Clients PROVE Queued(c)' <=> (Queued(c) /\ r.from # c)
    <3>1. ASSUME Queued(c)' PROVE Queued(c) /\ r.from # c
      <4>1. PICK i \in 1 .. n - 1 : queue'[i].from = c
        BY <2>2, <3>1 DEF Queued
      <4>2. i + 1 \in 1 .. n /\ queue[i + 1].from = c /\ 1 \in 1 .. n /\ i + 1 # 1
        BY <2>2, <4>1
      <4> QED
        BY <4>2 DEF Queued
    <3>2. ASSUME Queued(c), r.from # c PROVE Queued(c)'
      <4>1. PICK i \in 1 .. n : queue[i].from = c
        BY <3>2 DEF Queued
      <4>2. i - 1 \in 1 .. n - 1 /\ queue'[i - 1].from = c
        BY <2>2, <3>2, <4>1
      <4> QED
        BY <2>2, <4>2 DEF Queued
    <3> QED
      BY <3>1, <3>2
  <2>5. \A c \in Clients : Working(c)' <=> c = r.from
    BY <2>1, <2>2
  <2>6. \A i, j \in 1 .. Len(queue') : queue'[i].from = queue'[j].from => i = j
    BY <2>2
  <2> HIDE DEF n, r
  <2> QED
    BY <2>1, <2>3, <2>4, <2>5, <2>6
<1>4. CASE Reply
  <2>1. request \in Requests /\ request.from \in Clients
    BY <1>4 DEF Reply, Requests
  <2>2. CASE ~PortAlive(request.from)
    BY <1>4, <2>1, <2>2 DEF Reply, ServerExits, PortAlive, Queued
  <2>3. CASE PortAlive(request.from)
    <3>1. Answer[request.data] # NoAnswer
      BY <2>1 DEF Requests
    <3>2. client[request.from] = "wait"
      BY <1>4, <2>1, <2>3 DEF Reply, PortAlive
    <3> QED
      BY <1>4, <2>1, <2>3, <3>1, <3>2 DEF Reply, Queued
  <2> QED
    BY <2>2, <2>3
<1>5. ASSUME NEW c \in Clients, LookUp(c) PROVE Single' /\ InFlight'
  BY <1>5 DEF LookUp, Go, serverVars, Queued
<1>6. ASSUME NEW c \in Clients, Send(c) PROVE Single' /\ InFlight'
  <2>1. [from |-> c, data |-> asked[c]] \in Requests
    BY DEF Requests
  <2>2. CASE UNCHANGED queue
    BY <1>6, <2>2 DEF Send, Go, serverVars, Queued
  <2>3. CASE queue' = Append(queue, [from |-> c, data |-> asked[c]])
    <3>1. \A d \in Clients : Queued(d)' <=> (Queued(d) \/ d = c)
      BY <2>1, <2>3, QueueAppend DEF Queued
    <3>2. client[c] = "send" /\ client' = [client EXCEPT ![c] = "wait"]
      BY <1>6, <2>1, <2>3, QueueAppend DEF Send, Go
    <3>3. \A i, j \in 1 .. Len(queue') : queue'[i].from = queue'[j].from => i = j
      BY <2>1, <2>3, <3>2, QueueAppend DEF Queued
    <3> QED
      BY <1>6, <3>1, <3>2, <3>3 DEF Send, serverVars
  <2> QED
    BY <1>6, <2>2, <2>3 DEF Send
<1>7. ASSUME NEW c \in Clients, Take(c) PROVE Single' /\ InFlight'
  BY <1>7 DEF Take, Go, serverVars, Queued
<1>8. ASSUME NEW c \in Clients, Killed(c) PROVE Single' /\ InFlight'
  BY <1>8 DEF Killed, serverVars, Queued
<1>9. CASE UNCHANGED vars
  BY <1>9 DEF vars, serverVars, Queued
<1> QED
  BY <1>1, <1>2, <1>3, <1>4, <1>5, <1>6, <1>7, <1>8, <1>9
     DEF Next, ServerStep, ClientStep

-----------------------------------------------------------------------------
\* For any clients, data and answers the invariant holds: types, matching data
\* and a single place for every request.
THEOREM Invariance == Spec => []IInv
<1>1. Init => IInv
  <2>1. Init => Matching /\ Single /\ InFlight
    BY ConstantsAssumption
       DEF Init, Matching, Single, InFlight, Queued, Working, Got, Nothing
  <2> QED
    BY <2>1, TypeInit DEF IInv
<1>2. IInv /\ [Next]_vars => IInv'
  BY TypeStep, MatchingStep, PlacesStep DEF IInv
<1> QED
  BY <1>1, <1>2, PTL DEF Spec

\* Every client prints the answer to its own request.
THEOREM ClientsGetTheirAnswer == Spec => []OwnAnswer
<1>1. IInv => OwnAnswer
  BY DEF IInv, Matching, OwnAnswer
<1> QED
  BY <1>1, Invariance, PTL

\* No request of a waiting client is lost or duplicated while the server is up.
THEOREM RequestsAreKept == Spec => []InFlight
<1>1. IInv => InFlight
  BY DEF IInv
<1> QED
  BY <1>1, Invariance, PTL
-----------------------------------------------------------------------------
(* The orders of one thing more: put any of them last, and the last one in  *)
(* its place.                                                               *)
OrdersOf(n) == Bijection(1 .. n, 1 .. n)

LEMMA OneToOne ==
    ASSUME NEW n \in Nat
    PROVE  OrdersOf(n) = {f \in [1 .. n -> 1 .. n] : \A i, j \in 1 .. n : f[i] = f[j] => i = j}
<1>1. ASSUME NEW f \in Injection(1 .. n, 1 .. n) PROVE f \in OrdersOf(n)
  BY FS_Interval, FS_Injection DEF OrdersOf, Bijection
<1>2. \A f : f \in Injection(1 .. n, 1 .. n)
             <=> f \in [1 .. n -> 1 .. n] /\ \A i, j \in 1 .. n : f[i] = f[j] => i = j
  BY DEF Injection, IsInjective
<1>3. OrdersOf(n) \subseteq Injection(1 .. n, 1 .. n)
  BY DEF OrdersOf, Bijection
<1> QED BY <1>1, <1>2, <1>3

Swapped(n, k, g) ==
    [i \in 1 .. n + 1 |-> IF i = n + 1 THEN k ELSE IF g[i] = k THEN n + 1 ELSE g[i]]

LEMMA SwapGives ==
    ASSUME NEW n \in Nat, NEW k \in 1 .. n + 1, NEW g \in OrdersOf(n)
    PROVE  /\ Swapped(n, k, g) \in OrdersOf(n + 1)
           /\ Swapped(n, k, g)[n + 1] = k
           /\ \A i \in 1 .. n : g[i] = IF Swapped(n, k, g)[i] = n + 1 THEN k ELSE Swapped(n, k, g)[i]
<1> DEFINE f == Swapped(n, k, g)
<1>1. g \in [1 .. n -> 1 .. n] /\ \A i, j \in 1 .. n : g[i] = g[j] => i = j
  BY OneToOne
<1>2. f \in [1 .. n + 1 -> 1 .. n + 1] /\ f[n + 1] = k
  BY <1>1 DEF Swapped
<1>3. \A i \in 1 .. n : f[i] = IF g[i] = k THEN n + 1 ELSE g[i]
  BY <1>1 DEF Swapped
<1> HIDE DEF f
<1>4. ASSUME NEW i \in 1 .. n + 1, NEW j \in 1 .. n + 1, f[i] = f[j] PROVE i = j
  <2>1. i \in 1 .. n \/ i = n + 1
    OBVIOUS
  <2>2. j \in 1 .. n \/ j = n + 1
    OBVIOUS
  <2>3. ASSUME NEW m \in 1 .. n PROVE g[m] \in 1 .. n /\ f[m] # k
    <3>1. g[m] \in 1 .. n
      BY <1>1
    <3>2. f[m] = IF g[m] = k THEN n + 1 ELSE g[m]
      BY <1>3
    <3> QED BY <3>1, <3>2
  <2> QED BY <1>1, <1>2, <1>3, <1>4, <2>1, <2>2, <2>3
<1>5. f \in OrdersOf(n + 1)
  <2>1. n + 1 \in Nat
    OBVIOUS
  <2> QED BY <1>2, <1>4, <2>1, OneToOne, Zenon
<1>6. \A i \in 1 .. n : g[i] = IF f[i] = n + 1 THEN k ELSE f[i]
  BY <1>1, <1>3
<1> QED BY <1>2, <1>5, <1>6 DEF f

LEMMA SwapTakes ==
    ASSUME NEW n \in Nat, NEW f \in OrdersOf(n + 1)
    PROVE  \E k \in 1 .. n + 1, g \in OrdersOf(n) : f = Swapped(n, k, g)
<1> DEFINE k == f[n + 1]
           g == [i \in 1 .. n |-> IF f[i] = n + 1 THEN k ELSE f[i]]
<1>1. f \in [1 .. n + 1 -> 1 .. n + 1] /\ \A i, j \in 1 .. n + 1 : f[i] = f[j] => i = j
  BY OneToOne
<1>2. k \in 1 .. n + 1
  BY <1>1
<1>3. \A i \in 1 .. n : f[i] # k /\ f[i] \in 1 .. n + 1
  BY <1>1
<1>4. g \in [1 .. n -> 1 .. n]
  <2>1. ASSUME NEW i \in 1 .. n PROVE (IF f[i] = n + 1 THEN k ELSE f[i]) \in 1 .. n
    BY <1>2, <1>3, <1>1
  <2> QED BY <2>1
<1>5. \A i, j \in 1 .. n : g[i] = g[j] => i = j
  BY <1>1, <1>3
<1>6. g \in OrdersOf(n)
  BY <1>4, <1>5, OneToOne
<1>7. f = Swapped(n, k, g)
  <2>1. ASSUME NEW i \in 1 .. n + 1
        PROVE  f[i] = IF i = n + 1 THEN k ELSE IF g[i] = k THEN n + 1 ELSE g[i]
    BY <1>1, <1>3
  <2> HIDE DEF g, k
  <2>2. f = [i \in 1 .. n + 1 |-> f[i]]
    BY <1>1
  <2> QED BY <2>1, <2>2 DEF Swapped
<1> QED BY <1>2, <1>6, <1>7

LEMMA OneOrderMore ==
    ASSUME NEW n \in Nat, IsFiniteSet(OrdersOf(n))
    PROVE  IsFiniteSet(OrdersOf(n + 1)) /\ Orders(n + 1) = (n + 1) * Orders(n)
<1> DEFINE S == (1 .. n + 1) \X OrdersOf(n)
           phi == [p \in S |-> Swapped(n, p[1], p[2])]
<1>1. IsFiniteSet(S) /\ Cardinality(S) = (n + 1) * Cardinality(OrdersOf(n))
  <2>1. IsFiniteSet(1 .. n + 1) /\ Cardinality(1 .. n + 1) = n + 1
    BY FS_Interval
  <2> QED BY <2>1, FS_Product
<1>2. phi \in [S -> OrdersOf(n + 1)]
  BY SwapGives
<1>3. ASSUME NEW p \in S, NEW q \in S, phi[p] = phi[q] PROVE p = q
  <2>1. p[1] \in 1 .. n + 1 /\ p[2] \in OrdersOf(n) /\ q[1] \in 1 .. n + 1 /\ q[2] \in OrdersOf(n)
    OBVIOUS
  <2>2. Swapped(n, p[1], p[2]) = Swapped(n, q[1], q[2])
    BY <1>3
  <2>3. p[1] = q[1]
    <3>1. Swapped(n, p[1], p[2])[n + 1] = p[1]
      BY <2>1, SwapGives, Zenon
    <3>2. Swapped(n, q[1], q[2])[n + 1] = q[1]
      BY <2>1, SwapGives, Zenon
    <3> QED BY <2>2, <3>1, <3>2
  <2>4. \A i \in 1 .. n : p[2][i] = q[2][i]
    <3>1. \A i \in 1 .. n : p[2][i] = IF Swapped(n, p[1], p[2])[i] = n + 1 THEN p[1] ELSE Swapped(n, p[1], p[2])[i]
      BY <2>1, SwapGives, Zenon
    <3>2. \A i \in 1 .. n : q[2][i] = IF Swapped(n, q[1], q[2])[i] = n + 1 THEN q[1] ELSE Swapped(n, q[1], q[2])[i]
      BY <2>1, SwapGives, Zenon
    <3> QED BY <2>2, <2>3, <3>1, <3>2
  <2>5. p[2] \in [1 .. n -> 1 .. n] /\ q[2] \in [1 .. n -> 1 .. n]
    BY <2>1, OneToOne
  <2>6. p[2] = q[2]
    BY <2>4, <2>5
  <2> QED BY <2>3, <2>6
<1>4. \A f \in OrdersOf(n + 1) : \E p \in S : phi[p] = f
  <2> SUFFICES ASSUME NEW f \in OrdersOf(n + 1) PROVE \E p \in S : phi[p] = f
    OBVIOUS
  <2>1. PICK k \in 1 .. n + 1, g \in OrdersOf(n) : f = Swapped(n, k, g)
    BY SwapTakes
  <2>2. <<k, g>> \in S /\ phi[<<k, g>>] = f
    BY <2>1
  <2> QED BY <2>2
<1> HIDE DEF S, phi
<1>5. phi \in Bijection(S, OrdersOf(n + 1))
  BY <1>2, <1>3, <1>4 DEF Bijection, Injection, Surjection, IsInjective
<1>6. IsFiniteSet(OrdersOf(n + 1)) /\ Cardinality(OrdersOf(n + 1)) = Cardinality(S)
  BY <1>1, <1>5, FS_Bijection DEF ExistsBijection
<1> QED BY <1>1, <1>6 DEF Orders, OrdersOf

LEMMA NothingInOrder == IsFiniteSet(OrdersOf(0)) /\ Orders(0) = 1
<1>1. OrdersOf(0) = {[i \in 1 .. 0 |-> 1]}
  <2>1. OrdersOf(0) = {f \in [1 .. 0 -> 1 .. 0] : \A i, j \in 1 .. 0 : f[i] = f[j] => i = j}
    <3>1. 0 \in Nat
      OBVIOUS
    <3> QED BY <3>1, OneToOne, Zenon
  <2>2. 1 .. 0 = {}
    OBVIOUS
  <2> QED BY <2>1, <2>2
<1> QED BY <1>1, FS_Singleton DEF Orders, OrdersOf

-----------------------------------------------------------------------------
(* What a multiplication of two ints leaves of the product.                 *)
LEMMA Halves ==
    ASSUME NEW x \in Int
    PROVE  /\ x = 65536 * (x \div 65536) + (x % 65536)
           /\ 0 <= x % 65536 /\ x % 65536 <= 65535
           /\ x \div 65536 \in Int /\ x % 65536 \in Int
  OBVIOUS

LEMMA WholeFromHalves ==
    ASSUME NEW a \in Int, NEW b \in Int, NEW n \in Int
    PROVE  n * (65536 * a + b) = 65536 * (n * a + ((n * b) \div 65536)) + ((n * b) % 65536)
<1> DEFINE low == n * b
<1>1. low \in Int /\ n * a \in Int
  OBVIOUS
<1>2. n * (65536 * a + b) = 65536 * (n * a) + low
  OBVIOUS
<1> HIDE DEF low
<1>3. low = 65536 * (low \div 65536) + (low % 65536) /\ low \div 65536 \in Int /\ low % 65536 \in Int
  BY <1>1, Halves
<1>4. n * (65536 * a + b) = 65536 * (n * a + (low \div 65536)) + (low % 65536)
  BY <1>1, <1>2, <1>3
<1> QED BY <1>4 DEF low

(* The low 32 bits of a product are an int; the rest, carry, is lost.       *)
Overflows(x, y, carry) == x = y + carry * 4294967296
InHalves(high, low, y, carry) == Overflows(65536 * high + low, y, carry)
LEMMA Kept ==
    ASSUME NEW y \in Ints, NEW carry \in Int, NEW high \in Int, NEW low \in Int,
           0 <= low, low <= 65535, InHalves(high, low, y, carry)
    PROVE  (((high + 32768) % 65536) - 32768) * 65536 + low = y
<1> DEFINE top == high - 65536 * carry
<1>1. y \in Int /\ -2147483648 <= y /\ y <= 2147483647
  BY DEF Ints, MaxInt
<1>2. top \in Int /\ 65536 * top + low = y /\ high + 32768 = (top + 32768) + 65536 * carry
  BY <1>1 DEF Overflows, InHalves
<1> HIDE DEF top
<1>3. 0 <= top + 32768 /\ top + 32768 <= 65535
  BY <1>1, <1>2
<1>4. (high + 32768) % 65536 = top + 32768
  BY <1>2, <1>3
<1> QED BY <1>1, <1>2, <1>4

LEMMA Multiplied ==
    ASSUME NEW n \in 1 .. 20, NEW x \in Ints, NEW y \in Ints, NEW carry \in Int,
           Overflows(n * x, y, carry)
    PROVE  Times(n)[x] = y
<1> DEFINE a == x \div 65536
           b == x % 65536
           high == n * a + ((n * b) \div 65536)
           low == (n * b) % 65536
<1>1. x \in Int
  BY DEF Ints
<1>2. x = 65536 * a + b /\ a \in Int /\ b \in Int
  BY <1>1, Halves
<1>3. Times(n)[x] = (((high + 32768) % 65536) - 32768) * 65536 + low
  <2>1. Half = 65536 /\ Half \div 2 = 32768
    BY DEF Half
  <2> QED BY <2>1 DEF Times
<1> HIDE DEF a, b
<1>4. /\ InHalves(high, low, y, carry)
      /\ high \in Int /\ low \in Int /\ 0 <= low /\ low <= 65535
  <2>1. n * b \in Int /\ n * a \in Int
    BY <1>2
  <2>2. low \in Int /\ 0 <= low /\ low <= 65535 /\ (n * b) \div 65536 \in Int
    BY <2>1, Halves
  <2>3. 65536 * high + low = n * x
    BY <1>2, WholeFromHalves
  <2> QED BY <2>1, <2>2, <2>3 DEF InHalves
<1> HIDE DEF low, high
<1>5. (((high + 32768) % 65536) - 32768) * 65536 + low = y
  <2>1. y \in Ints /\ carry \in Int
    OBVIOUS
  <2> QED BY ONLY <1>4, <2>1, Kept
<1> QED BY ONLY <1>3, <1>5

(* The recursion of factorial() has the solution its equation describes:    *)
(* factorials up to 12, then what 32 bits hold of them.                     *)
Printed == <<1, 2, 6, 24, 120, 720, 5040, 40320, 362880, 3628800, 39916800, 479001600,
             1932053504, 1278945280, 2004310016, 2004189184, -288522240, -898433024,
             109641728, -2102132736>>
Lost == <<0, 0, 0, 0, 0, 0, 0, 0, 0, 0, 0, 0, 1, 6, 4, 7, 8, -1, -4, 1>>

LEMMA PrintedNext ==
    /\ Times(1)[1] = Printed[1]
    /\ \A n \in 2 .. 20 : Times(n)[Printed[n - 1]] = Printed[n]
<1>1. Times(1)[1] = 1
  <2>1. 1 \in Ints /\ Overflows(1 * 1, 1, 0)
    BY DEF Ints, MaxInt, Overflows
  <2> QED BY <2>1, Multiplied
<1>2. ASSUME NEW n \in 2 .. 20 PROVE Times(n)[Printed[n - 1]] = Printed[n]
  <2>1. Printed[n - 1] \in Ints /\ Printed[n] \in Ints /\ Lost[n] \in Int
    BY DEF Printed, Ints, MaxInt, Lost
  <2>2. Overflows(n * Printed[n - 1], Printed[n], Lost[n])
    BY DEF Printed, Lost, Overflows
  <2> QED BY <2>1, <2>2, Multiplied
<1> QED BY <1>1, <1>2 DEF Printed

LEMMA FactorialRecursion ==
    factorial = [n \in 0 .. 20 |-> IF n < 1 THEN 1 ELSE Times(n)[factorial[n - 1]]]
<1> DEFINE g == [n \in 0 .. 20 |-> IF n < 1 THEN 1 ELSE Printed[n]]
<1>1. ASSUME NEW n \in 0 .. 20
      PROVE  g[n] = IF n < 1 THEN 1 ELSE Times(n)[g[n - 1]]
  <2>1. CASE n = 0
    BY <2>1
  <2>2. CASE n = 1
    BY <2>2, PrintedNext
  <2>3. CASE n \in 2 .. 20
    BY <2>3, PrintedNext
  <2> QED BY <2>1, <2>2, <2>3
<1>2. g = [n \in 0 .. 20 |-> IF n < 1 THEN 1 ELSE Times(n)[g[n - 1]]]
  <2> HIDE DEF g
  <2>1. g = [n \in 0 .. 20 |-> g[n]]
    BY DEF g
  <2> QED BY <1>1, <2>1
<1> HIDE DEF g
<1> QED BY <1>2, Zenon DEF factorial

LEMMA FactorialIsPrinted == \A n \in 1 .. 20 : factorial[n] = Printed[n]
<1>1. \A n \in 0 .. 20 : factorial[n] = IF n < 1 THEN 1 ELSE Times(n)[factorial[n - 1]]
  BY FactorialRecursion
<1>2. factorial[1] = Printed[1]
  BY <1>1, PrintedNext
<1> DEFINE Good == {n \in 1 .. 20 : factorial[n] = Printed[n]}
<1>3. ASSUME NEW n \in 1 .. 19, n \in Good PROVE n + 1 \in Good
  <2>1. Times(n + 1)[Printed[n]] = Printed[n + 1]
    BY PrintedNext
  <2> QED BY <1>1, <1>3, <2>1
<1>4. 1 \in Good
  BY <1>2
<1> HIDE DEF Good
<1>5. 1 .. 20 \subseteq Good
  BY <1>3, <1>4
<1> QED BY <1>5 DEF Good

(* How many orders there really are.                                        *)
Exact == <<1, 2, 6, 24, 120, 720, 5040, 40320, 362880, 3628800, 39916800, 479001600,
           6227020800, 87178291200, 1307674368000, 20922789888000, 355687428096000,
           6402373705728000, 121645100408832000, 2432902008176640000>>

LEMMA OrdersAreExact == \A n \in 1 .. 20 : Orders(n) = Exact[n]
<1> DEFINE Counted == {n \in 1 .. 20 : IsFiniteSet(OrdersOf(n)) /\ Orders(n) = Exact[n]}
<1>1. 1 \in Counted
  <2>1. IsFiniteSet(OrdersOf(0 + 1)) /\ Orders(0 + 1) = (0 + 1) * Orders(0)
    BY NothingInOrder, OneOrderMore
  <2> QED BY <2>1, NothingInOrder DEF Exact
<1>2. ASSUME NEW n \in 1 .. 19, n \in Counted PROVE n + 1 \in Counted
  <2>1. IsFiniteSet(OrdersOf(n + 1)) /\ Orders(n + 1) = (n + 1) * Exact[n]
    BY <1>2, OneOrderMore
  <2>2. (n + 1) * Exact[n] = Exact[n + 1]
    BY DEF Exact
  <2> QED BY <2>1, <2>2
<1> HIDE DEF Counted
<1>3. 1 .. 20 \subseteq Counted
  BY <1>1, <1>2
<1> QED BY <1>3 DEF Counted

-----------------------------------------------------------------------------
\* Whatever numbers users give, a client of the factorial service (9-20) prints
\* the factorial of its number, the number of orders of as many things, if and
\* only if the number is at most 12: beyond, where TLC cannot count the orders,
\* what 32 bits hold of it never happens to be right.
THEOREM AnswersAreFactorials ==
    ASSUME Data = Numbers, Answers = Ints, Answer = Factorials, Arguments \subseteq Int
    PROVE  Spec => [](/\ PrintsFactorial
                      /\ \A c \in Clients : client[c] = "done" =>
                            (result[c] = Orders(asked[c]) <=> asked[c] <= 12))
<1>1. Numbers \subseteq 1 .. 20
  BY DEF Numbers, InRange
<1>2. \A n \in Numbers : Factorials[n] = Printed[n]
  BY <1>1, FactorialIsPrinted DEF Factorials
<1>3. \A n \in 1 .. 20 : /\ Printed[n] = Orders(n) <=> n <= 12
                         /\ n \in DOMAIN Small => Printed[n] = Small[n]
  BY OrdersAreExact DEF Exact, Printed, Small
<1>4. \A n \in 1 .. 20 : n <= 12 <=> \A k \in 1 .. n : Printed[n] % k = 0
  <2>1. ASSUME NEW n \in 1 .. 12, NEW k \in 1 .. n PROVE Printed[n] % k = 0
    BY DEF Printed
  <2>2. ASSUME NEW n \in 13 .. 20 PROVE \E k \in 1 .. n : Printed[n] % k # 0
    BY DEF Printed
  <2> QED BY <2>1, <2>2
<1>5. IInv => /\ PrintsFactorial
              /\ \A c \in Clients : client[c] = "done" =>
                    (result[c] = Orders(asked[c]) <=> asked[c] <= 12)
  <2> SUFFICES ASSUME IInv, NEW c \in Clients, client[c] = "done"
               PROVE  /\ asked[c] \in DOMAIN Small => result[c] = Small[asked[c]]
                      /\ asked[c] <= 12 <=> \A k \in 1 .. asked[c] : result[c] % k = 0
                      /\ result[c] = Orders(asked[c]) <=> asked[c] <= 12
    BY DEF PrintsFactorial
  <2>1. asked[c] \in Numbers /\ result[c] = Factorials[asked[c]]
    BY DEF IInv, TypeOK, Matching
  <2>2. asked[c] \in 1 .. 20 /\ result[c] = Printed[asked[c]]
    BY <1>1, <1>2, <2>1
  <2> QED BY <1>3, <1>4, <2>2
<1> QED BY <1>5, Invariance, PTL
=============================================================================
