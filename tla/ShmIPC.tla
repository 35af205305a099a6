------------------------------- MODULE ShmIPC -------------------------------
(***************************************************************************)
(* Sharing memory between tasks: 8-17/shm_ipc_common.h,                    *)
(* 8-18/shm_ipc_client.c and 8-19/shm_ipc_server.c.  The server is a       *)
(* MachServer whose only answer is a handle of one page of its memory.     *)
(* Every client maps the page, prints the string in it and may copy a      *)
(* string of its own there, of any length, character by character and      *)
(* without any lock.                                                       *)
(***************************************************************************)
EXTENDS Integers, Sequences

CONSTANTS
    Clients,
    Size,      \* bytes of the page
    Texts,     \* strings clients may be given to write
    Hello,     \* what the server puts in the page
    NUL,
    QLimit, MayDie, NoOne

\* Assumed of the constants where they get their values.
TextsAssumption ==
    /\ Size \in Nat \ {0} /\ Len(Hello) < Size
    /\ \A w \in Texts \cup {Hello} :
          /\ Len(w) \in Nat /\ DOMAIN w = 1 .. Len(w)
          /\ \A i \in DOMAIN w : w[i] # NUL

VARIABLES
    server, port, queue, request, client, asked, inbox, result,   \* MachServer
    memory,    \* the page
    argument,  \* argv[1] of each client: a text, or none
    use,       \* what the client does with the mapped page
    pos,       \* the character it is at
    seen       \* what it has printed of the page

serverVars == <<server, port, queue, request, client, asked, inbox, result>>
memoryVars == <<memory, argument, use, pos, seen>>
vars == <<serverVars, memoryVars>>

Handle == "handle"
Server == INSTANCE MachServer WITH
    Data <- {"request"}, Answers <- {Handle},
    Answer <- [d \in {"request"} |-> Handle], NoAnswer <- "none"

None == <<>>
Char(text, i) == IF i <= Len(text) THEN text[i] ELSE NUL

Init ==
    /\ Server!Init
    /\ memory = [i \in 1 .. Size |-> Char(Hello, i)]
    /\ argument \in [Clients -> Texts \cup {None}]
    /\ use = [c \in Clients |-> "none"]
    /\ pos = [c \in Clients |-> 1]
    /\ seen = [c \in Clients |-> <<>>]

-----------------------------------------------------------------------------
(* The server's part, and the client's up to the reply.                     *)
Serve == Server!ServerStep /\ UNCHANGED memoryVars

Request(c) == (Server!LookUp(c) \/ Server!Send(c)) /\ UNCHANGED memoryVars

(* The reply comes, and the page is mapped, or cannot be.                   *)
Map(c) ==
    /\ Server!Take(c)
    /\ use' \in {[use EXCEPT ![c] = w] : w \in {"print", "left"}}
    /\ UNCHANGED <<memory, argument, pos, seen>>

(* printf("%s") goes on to the first NUL, wherever that is.                 *)
Printed(c) ==
    /\ use' = [use EXCEPT ![c] = IF argument[c] = None THEN "left" ELSE "copy"]
    /\ pos' = [pos EXCEPT ![c] = 1]

PrintChar(c) ==
    /\ use[c] = "print" /\ pos[c] <= Size
    /\ IF memory[pos[c]] = NUL
       THEN Printed(c) /\ UNCHANGED seen
       ELSE /\ pos' = [pos EXCEPT ![c] = @ + 1]
            /\ seen' = [seen EXCEPT ![c] = Append(@, memory[pos[c]])]
            /\ UNCHANGED use
    /\ UNCHANGED <<serverVars, memory, argument>>

(* Behind the page there is other memory, with a NUL at some place, or none *)
(* and the client dies; what it prints of it is left out.                   *)
PrintBeyond(c) ==
    /\ use[c] = "print" /\ pos[c] = Size + 1
    /\ \/ Printed(c)
       \/ use' = [use EXCEPT ![c] = "left"] /\ UNCHANGED pos
    /\ UNCHANGED <<serverVars, memory, argument, seen>>

(* strncpy() copies as much of the string as the page holds and fills it up *)
(* with NULs; then the last byte is cleared.                                *)
CopyChar(c) ==
    /\ use[c] = "copy" /\ pos[c] <= Size
    /\ memory' = [memory EXCEPT ![pos[c]] = Char(argument[c], pos[c])]
    /\ pos' = [pos EXCEPT ![c] = @ + 1]
    /\ UNCHANGED <<serverVars, argument, use, seen>>

Terminate_OneLess(c) ==
    /\ use[c] = "copy" /\ pos[c] = Size + 1
    /\ memory' = [memory EXCEPT ![Size - 1] = NUL]
    /\ use' = [use EXCEPT ![c] = "end"]
    /\ UNCHANGED <<serverVars, argument, pos, seen>>

Terminate(c) ==
    /\ use[c] = "copy" /\ pos[c] = Size + 1
    /\ memory' = [memory EXCEPT ![Size] = NUL]
    /\ use' = [use EXCEPT ![c] = "end"]
    /\ UNCHANGED <<serverVars, argument, pos, seen>>

Killed(c) ==
    \/ Server!Killed(c) /\ UNCHANGED memoryVars
    \/ /\ MayDie /\ use[c] \in {"print", "copy"}
       /\ use' = [use EXCEPT ![c] = IF @ = "print" THEN "left" ELSE "killed"]
       /\ UNCHANGED <<serverVars, memory, argument, pos, seen>>

UsePage(c) == PrintChar(c) \/ PrintBeyond(c) \/ CopyChar(c) \/ Terminate(c)

Next == Serve \/ \E c \in Clients : Request(c) \/ Map(c) \/ UsePage(c) \/ Killed(c)

Spec == Init /\ [][Next]_vars

-----------------------------------------------------------------------------
TypeOK ==
    /\ Server!TypeOK
    /\ memory \in [1 .. Size -> {NUL} \cup UNION {{w[i] : i \in DOMAIN w} : w \in Texts \cup {Hello}}]
    /\ argument \in [Clients -> Texts \cup {None}]
    /\ use \in [Clients -> {"none", "print", "left", "copy", "end", "killed"}]
    /\ pos \in [Clients -> 1 .. Size + 1]
    /\ \A c \in Clients : use[c] # "none" => result[c] = Handle

Writers == {c \in Clients : use[c] \in {"copy", "end", "killed"}}
Written(i) == {Char(Hello, i)} \cup {Char(argument[c], i) : c \in Writers}

(* Those that have copied a string as long as the page, or longer; and of   *)
(* these, the ones that have not cleared the last byte behind it.           *)
Overfull == {c \in Writers : Len(argument[c]) >= Size /\ pos[c] = Size + 1}
Unterminated == {c \in Overfull : use[c] # "end"}

\* Without a lock a client may print a mixture, but only of strings that were
\* written, character for character: each is one that the server or a client
\* that writes put at that place.
Mixture ==
    /\ \A c \in Clients : \A i \in DOMAIN seen[c] : seen[c][i] \in Written(i)
    /\ \A i \in 1 .. Size : memory[i] \in Written(i) \cup {NUL}

\* "display the current contents of the memory": the page has no end of string
\* only between the two statements of a client that writes a page-long one, or
\* after it was killed there, and nobody else makes a reader run off the page.
PageEnd ==
    /\ memory[Size] # NUL => Unterminated # {}
    /\ \A c \in Clients : use[c] = "print" /\ pos[c] > Size => Overfull # {}

\* Together: what a client may find in the page.
OnlyWritten == TypeOK /\ Mixture /\ PageEnd
=============================================================================
