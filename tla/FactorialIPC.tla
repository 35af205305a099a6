---------------------------- MODULE FactorialIPC ----------------------------
(***************************************************************************)
(* The factorial service of 9-19/simple_ipc_common.h, 9-20 and 9-21: the   *)
(* Mach server whose requests carry a number the client has brought into   *)
(* range, and whose answers are its factorial as an int.  Data, Answers    *)
(* and Answer are Numbers, Ints and Factorials.                            *)
(***************************************************************************)
EXTENDS MachServer, FiniteSets, Functions

CONSTANT Arguments   \* what users give the client on the command line

MaxInt == 2147483647

(* argv[1], brought into range by the client.                               *)
InRange(n) == IF n < 1 \/ n > 20 THEN 1 ELSE n
Numbers == {InRange(n) : n \in Arguments}

(* An int times a small number.  An overflow is undefined in C; the multiply*)
(* instruction of the build keeps the low 32 bits, computed here from two   *)
(* halves that TLC's integers can hold.                                     *)
Ints == {i \in Int : -MaxInt - 1 <= i /\ i <= MaxInt}
Half == 65536
Times(n) == [x \in Ints |->
    LET low  == n * (x % Half)
        high == n * (x \div Half) + low \div Half
    IN  (((high + Half \div 2) % Half) - Half \div 2) * Half + (low % Half)]

factorial[n \in 0 .. 20] == IF n < 1 THEN 1 ELSE Times(n)[factorial[n - 1]]
Factorials_OneLess == [n \in Numbers |-> factorial[n - 1]]
Factorials == [n \in Numbers |-> factorial[n]]

-----------------------------------------------------------------------------
Orders(n) == Cardinality(Bijection(1 .. n, 1 .. n))
Small == [n \in 1 .. 6 |-> Orders(n)]

\* What the client prints, whatever the user gives, is a factorial up to 12 and
\* none from 13 to 20, which it lets through as well.  A factorial is the number
\* of orders of as many things, as far as these can be counted here, and all
\* the numbers it is the product of divide it, which they do not from 13 on.
PrintsFactorial ==
    \A c \in Clients : client[c] = "done" =>
       /\ asked[c] \in DOMAIN Small => result[c] = Small[asked[c]]
       /\ asked[c] <= 12 <=> \A k \in 1 .. asked[c] : result[c] % k = 0
=============================================================================
