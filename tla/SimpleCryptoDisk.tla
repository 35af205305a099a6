-------------------------- MODULE SimpleCryptoDisk --------------------------
(***************************************************************************)
(* 10-35/SimpleCryptoDisk.h and 10-36/SimpleCryptoDisk.cpp: a filter       *)
(* driver that shows a clear disk to its client and stores the complement  *)
(* of every word.  read() hands the client's own buffer to the provider    *)
(* and complements it in the completion routine; write() complements a     *)
(* copy at the call.  The provider, an IOMedia, is external: it transfers  *)
(* block after block, may give up early, and calls the completion routine  *)
(* once.  A block stands for its 64 words of 64 bits, all treated alike.   *)
(***************************************************************************)
EXTENDS Integers

CONSTANTS
    Requests,  \* requests the client has buffers for
    Size,      \* blocks of the medium
    Length,    \* blocks of a request's buffer
    Width      \* bits of a word, 64 in the program

ASSUME SizesAssumption ==
    /\ Size \in Nat /\ Length \in Nat \ {0} /\ Length <= Size
    /\ Width \in Nat \ {0}

Offsets == 0 .. (Length - 1)
Starts  == 0 .. (Size - Length)
Words   == [1 .. Width -> {0, 1}]

VARIABLES
    opened,   \* the provider is open for this driver
    media,    \* contents of the provider's medium
    op, at,   \* each request: what the provider does for it, from where
    done,     \* blocks the provider has transferred
    buffer,   \* the client's buffer
    memory,   \* the temporary copy a write is made from
    held,     \* allocations of the request: "context", "memory"
    answer    \* the count given to the client's last completion

vars == <<opened, media, op, at, done, buffer, memory, held, answer>>

(* byteBlock[j] = ~(byteBlock[j]), for one word and for a buffer.           *)
Complement(w) == [i \in 1 .. Width |-> 1 - w[i]]
fixBuffer(b) == [i \in Offsets |-> Complement(b[i])]

Init ==
    /\ opened = FALSE
    /\ media \in [0 .. (Size - 1) -> Words]
    /\ op = [r \in Requests |-> "idle"]
    /\ at = [r \in Requests |-> 0]
    /\ done = [r \in Requests |-> 0]
    /\ buffer \in [Requests -> [Offsets -> Words]]
    /\ memory = [r \in Requests |-> [i \in Offsets |-> [j \in 1 .. Width |-> 0]]]
    /\ held = [r \in Requests |-> {}]
    /\ answer = [r \in Requests |-> 0]

handleOpen ==
    /\ ~opened /\ opened' = TRUE
    /\ UNCHANGED <<media, op, at, done, buffer, memory, held, answer>>

(* The client closes when its requests have been answered.                  *)
handleClose ==
    /\ opened /\ \A r \in Requests : op[r] = "idle"
    /\ opened' = FALSE
    /\ UNCHANGED <<media, op, at, done, buffer, memory, held, answer>>

Fill(r) ==
    /\ op[r] # "read"
    /\ \E b \in [Offsets -> Words] : buffer' = [buffer EXCEPT ![r] = b]
    /\ UNCHANGED <<opened, media, op, at, done, memory, held, answer>>

ToProvider(r, kind) ==
    /\ op' = [op EXCEPT ![r] = kind]
    /\ \E a \in Starts : at' = [at EXCEPT ![r] = a]
    /\ done' = [done EXCEPT ![r] = 0]
    /\ UNCHANGED <<opened, media, answer>>

read(r) ==
    /\ opened /\ op[r] = "idle"
    /\ held' = [held EXCEPT ![r] = {"context"}]
    /\ ToProvider(r, "read")
    /\ UNCHANGED <<buffer, memory>>

write_InPlace(r) ==
    /\ opened /\ op[r] = "idle"
    /\ buffer' = [buffer EXCEPT ![r] = fixBuffer(@)]
    /\ memory' = [memory EXCEPT ![r] = fixBuffer(buffer[r])]
    /\ held' = [held EXCEPT ![r] = {"context", "memory"}]
    /\ ToProvider(r, "write")

write(r) ==
    /\ opened /\ op[r] = "idle"
    /\ memory' = [memory EXCEPT ![r] = fixBuffer(buffer[r])]
    /\ held' = [held EXCEPT ![r] = {"context", "memory"}]
    /\ ToProvider(r, "write")
    /\ UNCHANGED buffer

(* The provider moves one block, to or from the buffer it was given.        *)
Transfer(r) ==
    /\ op[r] # "idle" /\ done[r] < Length
    /\ done' = [done EXCEPT ![r] = @ + 1]
    /\ IF op[r] = "read"
       THEN /\ buffer' = [buffer EXCEPT ![r][done[r]] = media[at[r] + done[r]]]
            /\ UNCHANGED media
       ELSE /\ media' = [media EXCEPT ![at[r] + done[r]] = memory[r][done[r]]]
            /\ UNCHANGED buffer
    /\ UNCHANGED <<opened, op, at, memory, held, answer>>

(* SCDReadWriteCompletion, whatever the status the provider reports.        *)
SCDReadWriteCompletion_OnSuccess(r) ==
    /\ op[r] # "idle"
    /\ buffer' = [buffer EXCEPT ![r] =
                    IF op[r] = "read" /\ done[r] = Length THEN fixBuffer(@) ELSE @]
    /\ held' = [held EXCEPT ![r] = {}]
    /\ op' = [op EXCEPT ![r] = "idle"]
    /\ answer' = [answer EXCEPT ![r] = done[r]]
    /\ UNCHANGED <<opened, media, at, done, memory>>

SCDReadWriteCompletion_Leak(r) ==
    /\ op[r] # "idle"
    /\ buffer' = [buffer EXCEPT ![r] = IF op[r] = "read" THEN fixBuffer(@) ELSE @]
    /\ held' = [held EXCEPT ![r] = @ \ {"context"}]
    /\ op' = [op EXCEPT ![r] = "idle"]
    /\ answer' = [answer EXCEPT ![r] = done[r]]
    /\ UNCHANGED <<opened, media, at, done, memory>>

SCDReadWriteCompletion(r) ==
    /\ op[r] # "idle"
    /\ buffer' = [buffer EXCEPT ![r] = IF op[r] = "read" THEN fixBuffer(@) ELSE @]
    /\ held' = [held EXCEPT ![r] = {}]
    /\ op' = [op EXCEPT ![r] = "idle"]
    /\ answer' = [answer EXCEPT ![r] = done[r]]
    /\ UNCHANGED <<opened, media, at, done, memory>>

Next ==
    \/ handleOpen \/ handleClose
    \/ \E r \in Requests :
          Fill(r) \/ read(r) \/ write(r) \/ Transfer(r) \/ SCDReadWriteCompletion(r)

Spec == Init /\ [][Next]_vars

-----------------------------------------------------------------------------
TypeOK ==
    /\ opened \in BOOLEAN
    /\ media \in [0 .. (Size - 1) -> Words]
    /\ op \in [Requests -> {"idle", "read", "write"}]
    /\ at \in [Requests -> Starts]
    /\ done \in [Requests -> 0 .. Length]
    /\ buffer \in [Requests -> [Offsets -> Words]]
    /\ memory \in [Requests -> [Offsets -> Words]]
    /\ held \in [Requests -> SUBSET {"context", "memory"}]
    /\ answer \in [Requests -> 0 .. Length]

\* A request owns its context while it is under way, and the copied memory
\* while it is a write; nothing is left allocated when the client is answered,
\* and the completion routine never meets a context that was freed.
NoLeak ==
    \A r \in Requests :
       held[r] = CASE op[r] = "idle" -> {}
                   [] op[r] = "read" -> {"context"}
                   [] op[r] = "write" -> {"context", "memory"}

(* The clear disk the client sees: the complement of the medium; of a read  *)
(* under way the blocks transferred so far have yet to be complemented.     *)
clearDisk == [b \in 0 .. (Size - 1) |-> Complement(media[b])]
clearData == [r \in Requests |-> fixBuffer(memory[r])]
clearBuffer ==
    [r \in Requests |-> [i \in Offsets |->
        IF op[r] = "read" /\ i < done[r] THEN Complement(buffer[r][i]) ELSE buffer[r][i]]]

Clear == INSTANCE PlainDisk WITH disk <- clearDisk, data <- clearData, buffer <- clearBuffer

\* The driver implements a clear disk: whatever mixture of requests is under
\* way and wherever the provider stops, every block counted in an answer was
\* read or written in the clear, and nothing else changes.
ClearSpec == Clear!Spec
=============================================================================
