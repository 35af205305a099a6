------------------------------ MODULE MCDummyd ------------------------------
(* One client sends up to three bytes, the others only come and go.         *)
EXTENDS Dummyd, TLC
CONSTANT Talker
Bounds == [c \in Clients |-> IF c = Talker THEN 3 ELSE 0]
=============================================================================
