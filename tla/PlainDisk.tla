----------------------------- MODULE PlainDisk ------------------------------
(***************************************************************************)
(* What the client of a storage object is promised, the abstraction that   *)
(* SimpleCryptoDisk implements on top of a medium that holds nothing in    *)
(* the clear.  Requests run side by side.  A write transfers the contents  *)
(* the buffer had at the call; a transfer may stop early, and of a read    *)
(* only the blocks counted in the answer are defined.                      *)
(***************************************************************************)
EXTENDS Integers

CONSTANTS
    Requests,  \* requests the client has buffers for
    Size,      \* blocks of the disk
    Length,    \* blocks of a request's buffer
    Words      \* contents of a block

VARIABLES
    opened,    \* the object is open
    disk,      \* contents of the disk
    op, at,    \* each request: what it does, from which block on
    done,      \* blocks transferred
    data,      \* what a write transfers
    buffer,    \* the client's buffer
    answer     \* the count given to the client's last completion

vars == <<opened, disk, op, at, done, data, buffer, answer>>

Offsets == 0 .. (Length - 1)
Starts  == 0 .. (Size - Length)

Init ==
    /\ opened = FALSE
    /\ disk \in [0 .. (Size - 1) -> Words]
    /\ op = [r \in Requests |-> "idle"]
    /\ at = [r \in Requests |-> 0]
    /\ done = [r \in Requests |-> 0]
    /\ data \in [Requests -> [Offsets -> Words]]
    /\ buffer \in [Requests -> [Offsets -> Words]]
    /\ answer = [r \in Requests |-> 0]

Open ==
    /\ ~opened /\ opened' = TRUE
    /\ UNCHANGED <<disk, op, at, done, data, buffer, answer>>

Close ==
    /\ opened /\ \A r \in Requests : op[r] = "idle"
    /\ opened' = FALSE
    /\ UNCHANGED <<disk, op, at, done, data, buffer, answer>>

(* The client changes its buffer, also while a write from it is under way.  *)
Fill(r) ==
    /\ op[r] # "read"
    /\ \E b \in [Offsets -> Words] : buffer' = [buffer EXCEPT ![r] = b]
    /\ UNCHANGED <<opened, disk, op, at, done, data, answer>>

Begin(r, kind) ==
    /\ opened /\ op[r] = "idle"
    /\ op' = [op EXCEPT ![r] = kind]
    /\ \E a \in Starts : at' = [at EXCEPT ![r] = a]
    /\ done' = [done EXCEPT ![r] = 0]
    /\ UNCHANGED <<opened, disk, buffer, answer>>

Read(r)  == Begin(r, "read") /\ UNCHANGED data
Write(r) == Begin(r, "write") /\ data' = [data EXCEPT ![r] = buffer[r]]

Transfer(r) ==
    /\ op[r] # "idle" /\ done[r] < Length
    /\ done' = [done EXCEPT ![r] = @ + 1]
    /\ IF op[r] = "read"
       THEN /\ buffer' = [buffer EXCEPT ![r][done[r]] = disk[at[r] + done[r]]]
            /\ UNCHANGED disk
       ELSE /\ disk' = [disk EXCEPT ![at[r] + done[r]] = data[r][done[r]]]
            /\ UNCHANGED buffer
    /\ UNCHANGED <<opened, op, at, data, answer>>

Complete(r) ==
    /\ op[r] # "idle"
    /\ op' = [op EXCEPT ![r] = "idle"]
    /\ answer' = [answer EXCEPT ![r] = done[r]]
    /\ \E b \in [Offsets -> Words] :
          /\ \A i \in Offsets : i < done[r] \/ op[r] = "write" => b[i] = buffer[r][i]
          /\ buffer' = [buffer EXCEPT ![r] = b]
    /\ UNCHANGED <<opened, disk, at, done, data>>

Next ==
    \/ Open \/ Close
    \/ \E r \in Requests : Fill(r) \/ Read(r) \/ Write(r) \/ Transfer(r) \/ Complete(r)

Spec == Init /\ [][Next]_vars
=============================================================================
