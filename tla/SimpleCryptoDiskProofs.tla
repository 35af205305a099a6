----------------------- MODULE SimpleCryptoDiskProofs -----------------------
(***************************************************************************)
(* SimpleCryptoDisk implements PlainDisk, for any number of requests, any  *)
(* sizes and any word width.  Everything rests on the complement being its *)
(* own inverse, and on the mapping of a read that is half way through: the *)
(* client's buffer then holds blocks that are still to be complemented.    *)
(***************************************************************************)
EXTENDS SimpleCryptoDisk, TLAPS

Buffers == [Offsets -> Words]

LEMMA ComplementInverse ==
    \A w \in Words : Complement(w) \in Words /\ Complement(Complement(w)) = w
<1> TAKE w \in Words
<1>1. Complement(w) \in Words
  BY SizesAssumption DEF Words, Complement
<1>2. ASSUME NEW i \in 1 .. Width PROVE 1 - (1 - w[i]) = w[i]
  BY SizesAssumption DEF Words
<1>3. Complement(Complement(w)) = [i \in 1 .. Width |-> 1 - (1 - w[i])]
  BY DEF Complement
<1>4. w = [i \in 1 .. Width |-> w[i]]
  BY DEF Words
<1> QED BY <1>1, <1>2, <1>3, <1>4

LEMMA FixInverse ==
    \A b \in Buffers : fixBuffer(b) \in Buffers /\ fixBuffer(fixBuffer(b)) = b
<1> TAKE b \in Buffers
<1>1. fixBuffer(b) \in Buffers
  BY ComplementInverse DEF Buffers, fixBuffer
<1>2. fixBuffer(fixBuffer(b)) = [i \in Offsets |-> Complement(Complement(b[i]))]
  BY DEF fixBuffer
<1>3. \A i \in Offsets : Complement(Complement(b[i])) = b[i]
  BY ComplementInverse DEF Buffers
<1>4. b = [i \in Offsets |-> b[i]]
  BY DEF Buffers
<1> QED BY <1>1, <1>2, <1>3, <1>4

(* Two families of buffers are equal when they agree word by word.          *)
LEMMA BuffersEqual ==
    ASSUME NEW f \in [Requests -> Buffers], NEW g \in [Requests -> Buffers],
           \A q \in Requests, i \in Offsets : f[q][i] = g[q][i]
    PROVE  f = g
<1>1. ASSUME NEW q \in Requests PROVE f[q] = g[q]
  BY <1>1 DEF Buffers
<1> QED BY <1>1

LEMMA TypeInit == Init => TypeOK
<1> SUFFICES ASSUME Init PROVE TypeOK
  OBVIOUS
<1>1. 0 \in Starts /\ 0 \in 0 .. Length
  BY SizesAssumption DEF Starts
<1>2. [j \in 1 .. Width |-> 0] \in Words
  BY DEF Words
<1> QED BY <1>1, <1>2 DEF Init, TypeOK

LEMMA TypeStep == TypeOK /\ [Next]_vars => TypeOK'
<1> SUFFICES ASSUME TypeOK, [Next]_vars PROVE TypeOK'
  OBVIOUS
<1> USE SizesAssumption
<1>1. CASE handleOpen BY <1>1 DEF handleOpen, TypeOK
<1>2. CASE handleClose BY <1>2 DEF handleClose, TypeOK
<1>3. ASSUME NEW r \in Requests, Fill(r) PROVE TypeOK'
  BY <1>3 DEF Fill, TypeOK
<1>4. ASSUME NEW r \in Requests, read(r) PROVE TypeOK'
  BY <1>4 DEF read, ToProvider, TypeOK
<1>5. ASSUME NEW r \in Requests, write(r) PROVE TypeOK'
  BY <1>5, FixInverse DEF write, ToProvider, TypeOK, Buffers
<1>6. ASSUME NEW r \in Requests, Transfer(r) PROVE TypeOK'
  <2>1. at[r] + done[r] \in 0 .. (Size - 1) /\ done[r] \in Offsets /\ done[r] + 1 \in 0 .. Length
    BY <1>6 DEF Transfer, TypeOK, Starts, Offsets
  <2>2. CASE op[r] = "read"
    <3>1. media[at[r] + done[r]] \in Words
      BY <2>1 DEF TypeOK
    <3>2. [buffer[r] EXCEPT ![done[r]] = media[at[r] + done[r]]] \in [Offsets -> Words]
      BY <2>1, <3>1 DEF TypeOK
    <3> QED BY <1>6, <2>1, <2>2, <3>2 DEF Transfer, TypeOK
  <2>3. CASE op[r] # "read"
    <3>1. memory[r][done[r]] \in Words
      BY <2>1 DEF TypeOK
    <3> QED BY <1>6, <2>1, <2>3, <3>1 DEF Transfer, TypeOK
  <2> QED BY <2>2, <2>3
<1>7. ASSUME NEW r \in Requests, SCDReadWriteCompletion(r) PROVE TypeOK'
  BY <1>7, FixInverse DEF SCDReadWriteCompletion, TypeOK, Buffers
<1>8. CASE UNCHANGED vars BY <1>8 DEF vars, TypeOK
<1> QED BY <1>1, <1>2, <1>3, <1>4, <1>5, <1>6, <1>7, <1>8 DEF Next

THEOREM TypeCorrect == Spec => []TypeOK
<1>1. TypeOK /\ [Next]_vars => TypeOK' BY TypeStep
<1> QED BY TypeInit, <1>1, PTL DEF Spec

(* The mapped variables have the types of PlainDisk's.                      *)
LEMMA ClearTypes ==
    ASSUME TypeOK
    PROVE  /\ clearDisk \in [0 .. (Size - 1) -> Words]
           /\ clearData \in [Requests -> Buffers]
           /\ clearBuffer \in [Requests -> Buffers]
BY ComplementInverse, FixInverse
DEF TypeOK, clearDisk, clearData, clearBuffer, Buffers

LEMMA ClearInit == Init => Clear!Init
<1> SUFFICES ASSUME Init PROVE Clear!Init
  OBVIOUS
<1>1. TypeOK BY TypeInit
<1> QED BY <1>1, ClearTypes DEF Init, Clear!Init, Clear!Offsets, Offsets, Buffers

LEMMA ClearStep == TypeOK /\ [Next]_vars => [Clear!Next]_(Clear!vars)
<1> SUFFICES ASSUME TypeOK, [Next]_vars PROVE [Clear!Next]_(Clear!vars)
  OBVIOUS
<1>t. TypeOK' BY TypeStep
<1>o. Clear!Offsets = Offsets /\ Clear!Starts = Starts
  BY DEF Clear!Offsets, Offsets, Clear!Starts, Starts
<1>b. clearBuffer \in [Requests -> Buffers]
  BY ClearTypes
<1>c. clearBuffer' \in [Requests -> Buffers]
  BY <1>t, ComplementInverse DEF TypeOK, clearBuffer, Buffers
<1>1. CASE handleOpen
  BY <1>1 DEF handleOpen, Clear!Next, Clear!Open, clearDisk, clearData, clearBuffer
<1>2. CASE handleClose
  BY <1>2 DEF handleClose, Clear!Next, Clear!Close, clearDisk, clearData, clearBuffer
<1>3. ASSUME NEW r \in Requests, Fill(r) PROVE Clear!Next
  <2>1. PICK b \in Buffers : buffer' = [buffer EXCEPT ![r] = b]
    BY <1>3 DEF Fill, Buffers
  <2>2. clearBuffer' = [clearBuffer EXCEPT ![r] = b]
    <3> DEFINE g == [clearBuffer EXCEPT ![r] = b]
    <3>1. g \in [Requests -> Buffers] BY <1>b
    <3>2. ASSUME NEW q \in Requests, NEW i \in Offsets
          PROVE  clearBuffer'[q][i] = g[q][i]
      BY <1>3, <1>b, <2>1 DEF Fill, clearBuffer, TypeOK
    <3> HIDE DEF g
    <3>3. clearBuffer' = g
      BY <1>c, <3>1, <3>2, BuffersEqual
    <3> QED BY <3>3 DEF g
  <2>3. clearDisk' = clearDisk /\ clearData' = clearData
    BY <1>3 DEF Fill, clearDisk, clearData
  <2>4. Clear!Fill(r)
    BY <1>3, <1>o, <2>2, <2>3 DEF Fill, Clear!Fill, Buffers
  <2> QED BY <2>4 DEF Clear!Next
<1>4. ASSUME NEW r \in Requests, read(r) PROVE Clear!Next
  <2>1. clearBuffer' = clearBuffer
    BY <1>4, SizesAssumption DEF read, ToProvider, clearBuffer, TypeOK, Offsets
  <2>2. clearDisk' = clearDisk /\ clearData' = clearData
    BY <1>4 DEF read, ToProvider, clearDisk, clearData
  <2>3. Clear!Read(r)
    BY <1>4, <1>o, <2>1, <2>2 DEF read, ToProvider, Clear!Read, Clear!Begin
  <2> QED BY <2>3 DEF Clear!Next
<1>5. ASSUME NEW r \in Requests, write(r) PROVE Clear!Next
  <2>1. clearBuffer' = clearBuffer /\ clearBuffer[r] = buffer[r]
    BY <1>5, SizesAssumption DEF write, ToProvider, clearBuffer, TypeOK, Offsets
  <2>2. clearDisk' = clearDisk
    BY <1>5 DEF write, ToProvider, clearDisk
  <2>3. fixBuffer(memory'[r]) = buffer[r]
    BY <1>5, FixInverse DEF write, TypeOK, Buffers
  <2>4. clearData' = [clearData EXCEPT ![r] = buffer[r]]
    BY <1>5, <2>3 DEF write, clearData, TypeOK
  <2>5. Clear!Write(r)
    BY <1>5, <1>o, <2>1, <2>2, <2>4 DEF write, ToProvider, Clear!Write, Clear!Begin
  <2> QED BY <2>5 DEF Clear!Next
<1>6. ASSUME NEW r \in Requests, Transfer(r) PROVE Clear!Next
  <2>1. /\ at[r] + done[r] \in 0 .. (Size - 1)
        /\ done[r] \in Offsets
    BY <1>6, SizesAssumption DEF Transfer, TypeOK, Starts, Offsets
  <2>2. clearData' = clearData
    BY <1>6 DEF Transfer, clearData
  <2>3. CASE op[r] = "read"
    <3>1. clearDisk' = clearDisk
      BY <1>6, <2>3 DEF Transfer, clearDisk
    <3>2. clearBuffer' =
            [clearBuffer EXCEPT ![r][done[r]] = clearDisk[at[r] + done[r]]]
      <4> DEFINE w == clearDisk[at[r] + done[r]]
                 g == [clearBuffer EXCEPT ![r][done[r]] = w]
      <4>0. /\ buffer[r] \in Buffers /\ done[r] \in Int
            /\ buffer'[r] = [buffer[r] EXCEPT ![done[r]] = media[at[r] + done[r]]]
            /\ done'[r] = done[r] + 1 /\ op'[r] = "read"
        BY <1>6, <2>3, SizesAssumption DEF Transfer, TypeOK, Buffers
      <4>1. w = Complement(media[at[r] + done[r]])
        BY <2>1 DEF clearDisk
      <4>2. w \in Words
        BY <2>1, <4>1, ComplementInverse DEF TypeOK
      <4>3. g \in [Requests -> Buffers]
        BY <1>b, <2>1, <4>2 DEF Buffers
      <4>4. ASSUME NEW q \in Requests, NEW i \in Offsets
            PROVE  clearBuffer'[q][i] = g[q][i]
        <5>1. CASE q # r
          BY <1>6, <1>b, <2>3, <5>1 DEF Transfer, clearBuffer, TypeOK
        <5>2. CASE q = r /\ i = done[r]
          <6>1. g[q][i] = w BY <1>b, <2>1, <5>2 DEF Buffers
          <6>2. buffer'[r][i] = media[at[r] + done[r]] /\ i < done'[r] /\ op'[r] = "read"
            BY <2>1, <4>0, <5>2 DEF Buffers
          <6> QED BY <4>1, <5>2, <6>1, <6>2 DEF clearBuffer
        <5>3. CASE q = r /\ i # done[r]
          <6>1. g[q][i] = clearBuffer[r][i] BY <1>b, <2>1, <5>3 DEF Buffers
          <6>2. buffer'[r][i] = buffer[r][i] /\ op'[r] = "read" /\ (i < done'[r] <=> i < done[r])
            BY <2>1, <4>0, <5>3, SizesAssumption DEF Buffers, Offsets
          <6> QED BY <2>3, <5>3, <6>1, <6>2 DEF clearBuffer
        <5> QED BY <5>1, <5>2, <5>3
      <4> HIDE DEF g
      <4>5. clearBuffer' = g
        BY <1>c, <4>3, <4>4, BuffersEqual
      <4> QED BY <4>5 DEF g
    <3> QED BY <1>6, <2>2, <2>3, <3>1, <3>2 DEF Transfer, Clear!Next, Clear!Transfer
  <2>4. CASE op[r] # "read"
    <3>1. clearBuffer' = clearBuffer
      BY <1>6, <2>4 DEF Transfer, clearBuffer, TypeOK
    <3>2. clearData[r][done[r]] = Complement(memory[r][done[r]])
      BY <2>1 DEF clearData, fixBuffer
    <3>3. clearDisk' = [clearDisk EXCEPT ![at[r] + done[r]] = clearData[r][done[r]]]
      BY <1>6, <2>1, <2>4, <3>2 DEF Transfer, clearDisk, TypeOK
    <3> QED BY <1>6, <2>2, <2>4, <3>1, <3>3 DEF Transfer, Clear!Next, Clear!Transfer
  <2> QED BY <2>3, <2>4
<1>7. ASSUME NEW r \in Requests, SCDReadWriteCompletion(r) PROVE Clear!Next
  <2>1. clearDisk' = clearDisk /\ clearData' = clearData
    BY <1>7 DEF SCDReadWriteCompletion, clearDisk, clearData
  <2>2. buffer'[r] \in Buffers
    BY <1>t DEF TypeOK, Buffers
  <2>3. \A i \in Offsets : i < done[r] \/ op[r] = "write" => buffer'[r][i] = clearBuffer[r][i]
    BY <1>7 DEF SCDReadWriteCompletion, clearBuffer, TypeOK, fixBuffer
  <2>4. clearBuffer' = [clearBuffer EXCEPT ![r] = buffer'[r]]
    <3> DEFINE g == [clearBuffer EXCEPT ![r] = buffer'[r]]
    <3>1. g \in [Requests -> Buffers] BY <1>b, <2>2
    <3>2. ASSUME NEW q \in Requests, NEW i \in Offsets
          PROVE  clearBuffer'[q][i] = g[q][i]
      <4>1. CASE q = r
        BY <1>7, <1>b, <4>1 DEF SCDReadWriteCompletion, clearBuffer, TypeOK
      <4>2. CASE q # r
        BY <1>7, <1>b, <4>2 DEF SCDReadWriteCompletion, clearBuffer, TypeOK
      <4> QED BY <4>1, <4>2
    <3> HIDE DEF g
    <3>3. clearBuffer' = g
      BY <1>c, <3>1, <3>2, BuffersEqual
    <3> QED BY <3>3 DEF g
  <2>5. Clear!Complete(r)
    BY <1>7, <1>o, <2>1, <2>2, <2>3, <2>4 DEF SCDReadWriteCompletion, Clear!Complete, Buffers
  <2> QED BY <2>5 DEF Clear!Next
<1>8. CASE UNCHANGED vars
  BY <1>8 DEF vars, Clear!vars, clearDisk, clearData, clearBuffer
<1> QED BY <1>1, <1>2, <1>3, <1>4, <1>5, <1>6, <1>7, <1>8 DEF Next

(* The driver's client sees a disk in the clear, although the medium below  *)
(* holds complements only and requests interleave block by block.           *)
THEOREM ImplementsClearDisk == Spec => ClearSpec
<1>1. TypeOK /\ [Next]_vars => [Clear!Next]_(Clear!vars) BY ClearStep
<1> QED BY ClearInit, TypeCorrect, <1>1, PTL DEF Spec, ClearSpec, Clear!Spec

(* Contexts and copies are freed exactly when the request is answered.      *)
THEOREM NothingLeaks == Spec => []NoLeak
<1>1. Init => NoLeak BY DEF Init, NoLeak
<1>2. TypeOK /\ NoLeak /\ [Next]_vars => NoLeak'
  <2> SUFFICES ASSUME TypeOK, NoLeak, [Next]_vars PROVE NoLeak'
    OBVIOUS
  <2> USE DEF TypeOK, NoLeak
  <2>1. CASE handleOpen \/ handleClose BY <2>1 DEF handleOpen, handleClose
  <2>2. ASSUME NEW r \in Requests, Fill(r) PROVE NoLeak' BY <2>2 DEF Fill
  <2>3. ASSUME NEW r \in Requests, read(r) PROVE NoLeak' BY <2>3 DEF read, ToProvider
  <2>4. ASSUME NEW r \in Requests, write(r) PROVE NoLeak' BY <2>4 DEF write, ToProvider
  <2>5. ASSUME NEW r \in Requests, Transfer(r) PROVE NoLeak' BY <2>5 DEF Transfer
  <2>6. ASSUME NEW r \in Requests, SCDReadWriteCompletion(r) PROVE NoLeak'
    BY <2>6 DEF SCDReadWriteCompletion
  <2>7. CASE UNCHANGED vars BY <2>7 DEF vars
  <2> QED BY <2>1, <2>2, <2>3, <2>4, <2>5, <2>6, <2>7 DEF Next
<1> QED BY TypeCorrect, <1>1, <1>2, PTL DEF Spec
=============================================================================
