-------------------------------- MODULE Frr --------------------------------
(***************************************************************************)
(* Function rerouting (3-31/frr.c): the first instruction of a function is *)
(* replaced by an absolute branch to another one, which can call the       *)
(* original through a stub: the replaced instruction and a branch to the   *)
(* second one.  The branch has 24 bits for the number of the target word,  *)
(* sign-extended, so that it reaches 32 MB.  The compare-and-store is that *)
(* of CompareAndStore, with a single thread.                               *)
(***************************************************************************)
EXTENDS Integers

CONSTANTS
    Originals, News    \* addresses function() and function_new() may have

\* Assumed of the constants where they get their values.
\* Instructions are words, and aligned.
AddressesAssumption ==
    /\ Originals \cup News \subseteq 1 .. 2^28
    /\ \A address \in Originals \cup News : address % 4 = 0

VARIABLES
    main,            \* where main() and frr_install() are
    original, new,   \* the addresses of the two functions
    first,           \* target of the branch that starts function(), or Own
    heap,            \* blocks allocated: the FRR and its stub
    FRR,             \* frr_install() has a pointer, freed or not
    f_bytes,         \* what it saved of function()
    target,          \* where the stub's branch goes
    function_stub,   \* it is set
    path             \* what the last call of function() went through

vars == <<main, original, new, first, heap, FRR, f_bytes, target, function_stub, path>>

Own == -1          \* the instruction the compiler put there
Garbage == -2
Word == 4          \* BYTES_PER_INSTRUCTION

Init ==
    /\ main = "load" /\ original = 0 /\ new = 0 /\ first = Own /\ heap = {} /\ FRR = FALSE
    /\ f_bytes = Garbage /\ target = Garbage /\ function_stub = FALSE /\ path = <<>>

(* Where a branch with this address in its LI field really goes.            *)
Branch(address) ==
    LET LI == (address \div Word) % 2^24
    IN  Word * IF LI >= 2^23 THEN LI - 2^24 ELSE LI

Load ==
    /\ main = "load" /\ main' = "clean"
    /\ original' \in Originals /\ new' \in News \ {original'}
    /\ UNCHANGED <<first, heap, FRR, f_bytes, target, function_stub, path>>

-----------------------------------------------------------------------------
(* main() calls function(); function_new() may go on to the stub.           *)
Call(place, next) ==
    /\ main = place /\ main' = next
    /\ path' = CASE first = Own -> <<"original">>
                 [] first # new /\ first # Own -> <<"nowhere">>
                 [] first = new /\ ~function_stub -> <<"new">>
                 [] first = new /\ function_stub ->
                      <<"new", IF "stub" \notin heap THEN "freed"
                               ELSE IF target = original + Word THEN "original" ELSE "nowhere">>
    /\ UNCHANGED <<original, new, first, heap, FRR, f_bytes, target, function_stub>>

-----------------------------------------------------------------------------
(* frr_install().  From "error" on it frees both blocks, and still returns  *)
(* the pointer to them.                                                     *)
CheckNew ==
    /\ main = "install"
    /\ main' = IF new \div 2^25 # 0 THEN "error" ELSE "malloc"
    /\ UNCHANGED <<original, new, first, heap, FRR, f_bytes, target, function_stub, path>>

Allocate ==
    /\ main = "malloc"
    /\ \/ heap' = {"FRR", "stub"} /\ FRR' = TRUE /\ main' = "mprotect"
       \/ heap' = {} /\ FRR' = FALSE /\ main' = "returned"    \* of either one
    /\ UNCHANGED <<original, new, first, f_bytes, target, function_stub, path>>

Unprotect ==
    /\ main = "mprotect"
    /\ \/ main' = "stub" /\ f_bytes' = first
       \/ main' = "error" /\ UNCHANGED f_bytes
    /\ UNCHANGED <<original, new, first, heap, FRR, target, function_stub, path>>

(* Mutant: back to the first instruction, which is the branch.              *)
FillStub_Original ==
    /\ main = "stub" /\ main' = "store" /\ target' = Branch(original)
    /\ UNCHANGED <<original, new, first, heap, FRR, f_bytes, function_stub, path>>

FillStub ==
    /\ main = "stub"
    /\ IF ((original + Word) \div Word) \div 2^25 # 0
       THEN main' = "error" /\ UNCHANGED target
       ELSE main' = "store" /\ target' = Branch(original + Word)
    /\ UNCHANGED <<original, new, first, heap, FRR, f_bytes, function_stub, path>>

Store ==
    /\ main = "store"
    /\ IF (new \div Word) \div 2^25 # 0
       THEN main' = "error" /\ UNCHANGED first
       ELSE main' = "returned" /\ first' = Branch(new)
    /\ UNCHANGED <<original, new, heap, FRR, f_bytes, target, function_stub, path>>

Error ==
    /\ main = "error" /\ main' = "returned" /\ heap' = {}
    /\ UNCHANGED <<original, new, first, FRR, f_bytes, target, function_stub, path>>

(* function_stub = FRR->f_stub; what comes of a freed FRR is not followed.  *)
UseFRR ==
    /\ main = "returned"
    /\ CASE ~FRR -> main' = "failed" /\ UNCHANGED function_stub
         [] FRR /\ "FRR" \notin heap -> main' = "undefined" /\ UNCHANGED function_stub
         [] FRR /\ "FRR" \in heap -> main' = "rerouted" /\ function_stub' = TRUE
    /\ UNCHANGED <<original, new, first, heap, FRR, f_bytes, target, path>>

(* frr_remove(): the instruction goes back before the stub is freed.        *)
Restore ==
    /\ main = "remove"
    /\ \/ main' = "free" /\ first' = f_bytes
       \/ main' = "failed" /\ UNCHANGED first     \* mprotect()
    /\ UNCHANGED <<original, new, heap, FRR, f_bytes, target, function_stub, path>>

Free ==
    /\ main = "free" /\ main' = "removed" /\ heap' = {}
    /\ UNCHANGED <<original, new, first, FRR, f_bytes, target, function_stub, path>>

Next == \/ Load \/ Call("clean", "install") \/ CheckNew \/ Allocate \/ Unprotect \/ FillStub
        \/ Store \/ Error \/ UseFRR \/ Call("rerouted", "remove") \/ Restore \/ Free
        \/ Call("removed", "end")

Spec == Init /\ [][Next]_vars

-----------------------------------------------------------------------------
TypeOK ==
    /\ original \in Originals \cup {0} /\ new \in News \cup {0}
    /\ heap \subseteq {"FRR", "stub"} /\ FRR \in BOOLEAN /\ function_stub \in BOOLEAN
    /\ f_bytes \in {Own, Garbage} /\ first \in {Own, new}

\* A call of function() reaches the original: straight without rerouting, and
\* with it through function_new() and a stub that is still there, unless the
\* original lies where a branch cannot reach (frr_install() compares a word
\* number with a limit on addresses).  Only its error path after the two
\* allocations hands main() a freed pointer, and never with a patch in place.
Reroutes ==
    /\ TypeOK
    /\ main \in {"install", "end"} => path = <<"original">> /\ first = Own
    /\ main = "remove" => path = <<"new", IF original + Word < 2^25 THEN "original" ELSE "nowhere">>
    /\ first # Own => "stub" \in heap /\ f_bytes = Own
    /\ main \in {"undefined", "end"} => first = Own /\ heap = {}
    /\ main = "failed" /\ heap # {} => first # Own
=============================================================================
