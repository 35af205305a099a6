--------------------------- MODULE FdPassingProofs --------------------------
(***************************************************************************)
(* For any number of senders and receivers sharing the one SERVER_NAME: a  *)
(* receiver reads only the file of the sender it connected to, and a       *)
(* descriptor reaches one receiver.  The invariant follows the message:    *)
(* it is only ever in the buffer of the receiver its sender accepted.      *)
(***************************************************************************)
EXTENDS FdPassing, TLAPS

LEMMA IInvInit == Init => IInv
BY ConstantsAssumption DEF Init, IInv, TypeOK, InboxFromPeer, AcceptedPeer

LEMMA IInvStep == IInv /\ [Next]_vars => IInv'
<1> SUFFICES ASSUME IInv, [Next]_vars PROVE IInv'
  OBVIOUS
<1>0. TypeOK /\ InboxFromPeer /\ AcceptedPeer
  BY DEF IInv
<1> USE <1>0, ConstantsAssumption DEF TypeOK
<1>1. ASSUME NEW s \in Senders, Unlink(s) PROVE IInv'
  BY <1>1 DEF Unlink, SenderGo, IInv, InboxFromPeer, AcceptedPeer
<1>2. ASSUME NEW s \in Senders, Bind(s) PROVE IInv'
  BY <1>2 DEF Bind, SenderGo, IInv, InboxFromPeer, AcceptedPeer
<1>3. ASSUME NEW s \in Senders, OpenFile(s) PROVE IInv'
  BY <1>3 DEF OpenFile, SenderGo, IInv, InboxFromPeer, AcceptedPeer
<1>4. ASSUME NEW s \in Senders, Listen(s) PROVE IInv'
  BY <1>4 DEF Listen, SenderGo, IInv, InboxFromPeer, AcceptedPeer
<1>5. ASSUME NEW s \in Senders, Accept(s) PROVE IInv'
  BY <1>5 DEF Accept, Pending, SenderGo, IInv, InboxFromPeer, AcceptedPeer
<1>6. ASSUME NEW s \in Senders, Send(s) PROVE IInv'
  BY <1>6 DEF Send, SenderGo, IInv, InboxFromPeer, AcceptedPeer
<1>7. ASSUME NEW s \in Senders, CloseSockets(s) PROVE IInv'
  BY <1>7 DEF CloseSockets, SenderGo, IInv, InboxFromPeer, AcceptedPeer
<1>8. ASSUME NEW s \in Senders, KillSender(s) PROVE IInv'
  <2>1. /\ spc' = [spc EXCEPT ![s] = "exit"]
        /\ UNCHANGED <<name, client, rpc, peer, inbox, file>>
    BY <1>8 DEF KillSender, SenderGo
  <2>2. TypeOK' BY <2>1
  <2>3. InboxFromPeer' BY <2>1 DEF InboxFromPeer
  <2>4. AcceptedPeer' BY <2>1 DEF AcceptedPeer
  <2> QED BY <2>2, <2>3, <2>4 DEF IInv
<1>9. ASSUME NEW r \in Receivers, Connect(r) PROVE IInv'
  <2>1. CASE Connectable
    <3>1. TypeOK' BY <1>9, <2>1 DEF Connect, Connectable
    <3>2. InboxFromPeer' BY <1>9, <2>1 DEF Connect, Connectable, InboxFromPeer
    <3>3. AcceptedPeer' BY <1>9, <2>1 DEF Connect, InboxFromPeer, AcceptedPeer
    <3> QED BY <3>1, <3>2, <3>3 DEF IInv
  <2>2. CASE ~Connectable
    BY <1>9, <2>2 DEF Connect, IInv, InboxFromPeer, AcceptedPeer
  <2> QED BY <2>1, <2>2
<1>10. ASSUME NEW r \in Receivers, Receive(r) PROVE IInv'
  BY <1>10 DEF Receive, IInv, InboxFromPeer, AcceptedPeer
<1>11. ASSUME NEW r \in Receivers, ReadFile(r) PROVE IInv'
  BY <1>11 DEF ReadFile, IInv, InboxFromPeer, AcceptedPeer
<1>12. ASSUME NEW r \in Receivers, KillReceiver(r) PROVE IInv'
  BY <1>12 DEF KillReceiver, IInv, InboxFromPeer, AcceptedPeer
<1>13. CASE UNCHANGED vars
  BY <1>13 DEF vars, IInv, InboxFromPeer, AcceptedPeer
<1> QED
  BY <1>1, <1>2, <1>3, <1>4, <1>5, <1>6, <1>7, <1>8, <1>9, <1>10, <1>11, <1>12, <1>13
  DEF Next, SenderStep, ReceiverStep

THEOREM Invariance == Spec => []IInv
<1>1. IInv /\ [Next]_vars => IInv' BY IInvStep
<1> QED BY IInvInit, <1>1, PTL DEF Spec

(* What a receiver reads is the file of the sender it connected to, however *)
(* often the name has passed from sender to sender.                         *)
THEOREM ReceiversReadTheRightFile == Spec => []RightFile
<1>1. IInv => RightFile
  BY DEF IInv, InboxFromPeer, RightFile
<1> QED BY Invariance, <1>1, PTL

(* A sender hands its descriptor to one receiver at most.                   *)
THEOREM SendersServeOne == Spec => []OneReceiver
<1>1. IInv => OneReceiver
  BY ConstantsAssumption DEF IInv, TypeOK, InboxFromPeer, OneReceiver
<1> QED BY Invariance, <1>1, PTL

(* Both, whatever takes over the name and whoever is killed.                *)
THEOREM DescriptorsAreDelivered == Spec => []Delivery
<1>1. RightFile /\ OneReceiver => Delivery
  BY DEF Delivery
<1> QED BY ReceiversReadTheRightFile, SendersServeOne, <1>1, PTL
=============================================================================
