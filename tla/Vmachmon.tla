------------------------------ MODULE Vmachmon ------------------------------
(***************************************************************************)
(* vmachmon32 (6-51/vmachmon32.c): a monitor gives a virtual machine a     *)
(* page of text and a page of stack, fills the text with one of two        *)
(* programs in PowerPC machine code, and runs it until it meets an illegal *)
(* instruction or a fault.  The kernel's Vmm and the processor, that is    *)
(* what an instruction does, are external; the machine code is the         *)
(* program's own.                                                          *)
(***************************************************************************)
EXTENDS Integers, Sequences

CONSTANTS
    PageSize,     \* vm_page_size
    RedZone,      \* C_RED_ZONE
    Argument      \* of the factorial; the source has 10

\* Assumed of the constants where they get their values.
\* Argument stays below 13: its factorial fits a register without wrapping.  The
\* red zone leaves the caller's frame the words a callee writes into it, up to
\* 24(r1), and the page has room for a frame of 96 bytes per call.
SizesAssumption ==
    /\ PageSize \in Nat /\ RedZone \in Nat /\ Argument \in 0 .. 12
    /\ RedZone >= 24 + 4 /\ RedZone + 96 * (Argument + 1) <= PageSize

VARIABLES
    stage,    \* where main() is
    demo_id,
    pages,    \* which of its three pages are allocated
    context,  \* the virtual machine exists
    mapped,   \* which pages the guest sees
    gpr, pc, lr, gt,  \* the guest's registers; gt is the bit of cr7 it tests
    memory    \* words of the stack page that have been written

machine == <<gpr, pc, lr, gt, memory>>
vars == <<stage, demo_id, pages, context, mapped, machine>>

Text  == PageSize         \* guestTextAddress
Stack == 2 * PageSize     \* guestStackAddress

TopOfStack_NoRedZone == Stack + PageSize       \* mutant: nothing left above the frame

TopOfStack == Stack + PageSize - RedZone      \* PAGE2SP

-----------------------------------------------------------------------------
(* An instruction: operation, register it fills or stores, register operand *)
(* and immediate (or, for add and mullw, second register operand).          *)
I(op, t, a, n) == [op |-> op, t |-> t, a |-> a, n |-> n]

Dummy == <<
    I("li", 10, 0, 4), I("li", 11, 0, 5), I("ba", 0, 0, Text + 4 * 4),
    I("illegal", 0, 0, 0), I("add", 12, 10, 11), I("illegal", 0, 0, 0) >>

Factorial == <<
    I("mflr", 0, 0, 0),  I("stmw", 30, 1, -8), I("stw", 0, 1, 8),    I("stwu", 1, 1, -96),
    I("addi", 30, 1, 0), I("stw", 3, 30, 120), I("lwz", 0, 30, 120), I("cmpwi", 0, 0, 0),
    I("bgt", 0, 0, 16),  I("li", 0, 0, 1),     I("stw", 0, 30, 64),  I("b", 0, 0, 36),
    I("lwz", 2, 30, 120), I("addi", 0, 2, -1), I("addi", 3, 0, 0),   I("bl", 0, 0, -60),
    I("addi", 2, 3, 0),  I("lwz", 0, 30, 120), I("mullw", 0, 2, 0),  I("stw", 0, 30, 64),
    I("lwz", 3, 30, 64), I("lwz", 1, 1, 0),    I("lwz", 0, 1, 8),    I("mtlr", 0, 0, 0),
    I("lmw", 30, 1, -8), I("blr", 0, 0, 0) >>

SupportedDemos == <<Dummy, Factorial>>

Init ==
    /\ stage = "usage" /\ demo_id = -1 /\ pages = {} /\ context = FALSE /\ mapped = {}
    /\ gpr = [r \in 0 .. 31 |-> 0] /\ pc = 0 /\ lr = 0 /\ gt = FALSE /\ memory = <<>>

-----------------------------------------------------------------------------
Usage ==
    /\ stage = "usage"
    /\ \E id \in -1 .. Len(SupportedDemos) :
          /\ demo_id' = id
          /\ stage' = IF id \in 0 .. Len(SupportedDemos) - 1 THEN "state" ELSE "exit"
    /\ UNCHANGED <<pages, context, mapped, machine>>

(* vm_allocate(), three times; a failure goes to "out".                     *)
Allocate(page, next) ==
    /\ stage = page
    /\ \/ pages' = pages \cup {page} /\ stage' = next
       \/ stage' = "out" /\ UNCHANGED pages
    /\ UNCHANGED <<demo_id, context, mapped, machine>>

InitContext ==
    /\ stage = "init"
    /\ \/ /\ context' = TRUE /\ stage' = "map"
          /\ pc' = Text /\ gpr' = [gpr EXCEPT ![1] = TopOfStack]
       \/ stage' = "out" /\ UNCHANGED <<context, pc, gpr>>
    /\ UNCHANGED <<demo_id, pages, mapped, lr, gt, memory>>

(* The result of mapping the stack is not looked at.                        *)
MapStack ==
    /\ stage = "map" /\ stage' = "fill"
    /\ mapped' \in {{}, {"stack"}}
    /\ UNCHANGED <<demo_id, pages, context, machine>>

FillText ==
    /\ stage = "fill" /\ stage' = "execute"
    /\ IF SupportedDemos[demo_id + 1] = Factorial
       THEN gpr' = [gpr EXCEPT ![3] = Argument] /\ lr' = Text + PageSize - 4
       ELSE UNCHANGED <<gpr, lr>>
    /\ UNCHANGED <<demo_id, pages, context, mapped, pc, gt, memory>>

(* kVmmMapExecute: an error is printed and taken no further.                *)
MapExecute ==
    /\ stage = "execute"
    /\ \/ mapped' = mapped \cup {"text"} /\ stage' = "guest"
       \/ stage' = "report" /\ UNCHANGED mapped
    /\ UNCHANGED <<demo_id, pages, context, machine>>

-----------------------------------------------------------------------------
(* The guest.  Words of its text that were not filled are 0, illegal.       *)
Fetched ==
    LET k == (pc - Text) \div 4 + 1
        code == SupportedDemos[demo_id + 1]
    IN  IF k \in DOMAIN code THEN code[k] ELSE I("illegal", 0, 0, 0)

Address == gpr[Fetched.a] + Fetched.n
Word(address) == IF address \in DOMAIN memory THEN memory[address] ELSE 0
Touches == CASE Fetched.op \in {"stw", "lwz", "stwu"} -> {Address}
             [] Fetched.op \in {"stmw", "lmw"} -> {Address, Address + 4}
             [] OTHER -> {}
Faults == ~(Touches \subseteq IF "stack" \in mapped THEN Stack .. Stack + PageSize - 4 ELSE {})

Stored(words) == [address \in DOMAIN memory \cup DOMAIN words |->
                     IF address \in DOMAIN words THEN words[address] ELSE memory[address]]
Load(t, value) == gpr' = [gpr EXCEPT ![t] = value]

Execute(in) ==
    /\ pc' = CASE in.op = "ba" -> in.n
               [] in.op \in {"b", "bl"} -> pc + in.n
               [] in.op = "bgt" /\ gt -> pc + in.n
               [] in.op = "blr" -> lr
               [] OTHER -> pc + 4
    /\ lr' = CASE in.op = "bl" -> pc + 4 [] in.op = "mtlr" -> gpr[in.t] [] OTHER -> lr
    /\ gt' = IF in.op = "cmpwi" THEN gpr[in.a] > in.n ELSE gt
    /\ CASE in.op = "li" -> Load(in.t, in.n)
         [] in.op = "addi" -> Load(in.t, gpr[in.a] + in.n)
         [] in.op = "add" -> Load(in.t, gpr[in.a] + gpr[in.n])
         [] in.op = "mullw" -> Load(in.t, gpr[in.a] * gpr[in.n])
         [] in.op = "mflr" -> Load(in.t, lr)
         [] in.op = "lwz" -> Load(in.t, Word(Address))
         [] in.op = "stwu" -> Load(in.a, Address)
         [] in.op = "lmw" -> gpr' = [gpr EXCEPT ![30] = Word(Address), ![31] = Word(Address + 4)]
         [] OTHER -> UNCHANGED gpr
    /\ memory' = CASE in.op \in {"stw", "stwu"} -> Stored([address \in Touches |-> gpr[in.t]])
                   [] in.op = "stmw" -> Stored([address \in Touches |->
                                                  IF address = Address THEN gpr[30] ELSE gpr[31]])
                   [] OTHER -> memory

RunGuest ==
    /\ stage = "guest"
    /\ IF Fetched.op = "illegal" \/ Faults
       THEN stage' = "report" /\ UNCHANGED machine
       ELSE Execute(Fetched) /\ UNCHANGED stage
    /\ UNCHANGED <<demo_id, pages, context, mapped>>

-----------------------------------------------------------------------------
Report ==
    /\ stage = "report" /\ stage' = "tear down"
    /\ UNCHANGED <<demo_id, pages, context, mapped, machine>>

TearDown ==
    /\ stage = "tear down" /\ stage' = "out"
    /\ context' \in BOOLEAN /\ mapped' = IF context' THEN mapped ELSE {}
    /\ UNCHANGED <<demo_id, pages, machine>>

Out ==
    /\ stage = "out" /\ stage' = "exit"
    /\ pages' = {}
    /\ UNCHANGED <<demo_id, context, mapped, machine>>

Next == \/ Usage \/ Allocate("state", "text") \/ Allocate("text", "stack") \/ Allocate("stack", "init")
        \/ InitContext \/ MapStack \/ FillText \/ MapExecute \/ RunGuest \/ Report \/ TearDown \/ Out

Spec == Init /\ [][Next]_vars

-----------------------------------------------------------------------------
TypeOK ==
    /\ demo_id \in -1 .. 2 /\ pages \subseteq {"state", "text", "stack"} /\ mapped \subseteq {"text", "stack"}
    /\ context \in BOOLEAN /\ gt \in BOOLEAN /\ {pc, lr} \subseteq 0 .. 3 * PageSize
    /\ DOMAIN memory \subseteq Stack .. Stack + PageSize - 4

FactorialOf[n \in 0 .. 12] == IF n <= 0 THEN 1 ELSE n * FactorialOf[n - 1]

\* The guest never leaves its two pages; when it gives control back on its
\* illegal instruction its result is in the register, and the factorial has
\* put its stack pointer and the callee-saved registers back.  The monitor
\* ends without a page, and without the machine unless Vmm kept it.
GuestComputes ==
    /\ TypeOK
    /\ stage = "guest" => ~(Faults /\ "stack" \in mapped) /\ {"text", "stack"} \subseteq pages /\ context
    /\ stage = "report" /\ "text" \in mapped =>
          CASE demo_id = 0 -> gpr[12] = 9 /\ pc = Text + 5 * 4
            [] demo_id = 1 /\ "stack" \in mapped ->
                 /\ gpr[3] = FactorialOf[Argument] /\ pc = Text + PageSize - 4
                 /\ gpr[1] = TopOfStack /\ gpr[30] = 0 /\ gpr[31] = 0
            [] OTHER -> pc = Text + 4
    /\ stage = "exit" => pages = {}
=============================================================================
