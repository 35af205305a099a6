------------------------------- MODULE Srmap -------------------------------
(***************************************************************************)
(* srmap (8-24/srmap.c): builds, from the load commands of a library, the  *)
(* table of mappings with which it enters the system shared region.  A     *)
(* writable segment that is longer in memory than in the file has a second *)
(* entry, filled with zeros.  The system call itself is external.          *)
(***************************************************************************)
EXTENDS Integers, Sequences, FiniteSets, Functions

CONSTANTS
    Libraries,    \* Mach-O files: split, and a sequence of load commands
    MAX_SEGMENTS

Highest == 2147483647      \* ULONG_MAX

SegmentsOf(file) == {c \in Range(file.commands) : c.cmd = "LC_SEGMENT"}
Span(from, size) == from .. from + size - 1

\* Assumed of the constants where they get their values: no more than the types
\* of the fields; segments may overlap, and be longer in the file than in memory.
LibrariesAssumption ==
    /\ MAX_SEGMENTS \in Nat
    /\ \A file \in Libraries :
          /\ file.commands \in Seq(Range(file.commands))
          /\ \A sc \in SegmentsOf(file) :
                /\ sc.vmaddr \in 0 .. Highest /\ sc.vmsize \in Nat
                /\ sc.fileoff \in Nat /\ sc.filesize \in Nat
                /\ sc.initprot \subseteq {"read", "write", "execute"}

VARIABLES
    doing,        \* where main() is
    library,      \* the file
    lc,           \* load commands handled
    mappingTable, \* its entries; entryIndex is their number
    base_address, \* lowest vmaddr so far, or Highest
    descriptor,   \* the file is open
    region        \* what the kernel has been given

vars == <<doing, library, lc, mappingTable, base_address, descriptor, region>>

NoFile  == [split |-> FALSE, commands |-> <<>>]

Init ==
    /\ doing = "open" /\ library = NoFile /\ lc = 0 /\ mappingTable = <<>>
    /\ base_address = Highest /\ descriptor = FALSE /\ region = <<>>

(* open(), fstat(), mmap() and the header: only MH_SPLIT_SEGS is decisive   *)
(* for a Mach-O file, since && joins the tests of magic and type.           *)
OpenLibrary ==
    /\ doing = "open"
    /\ \/ \E file \in Libraries : library' = file /\ descriptor' = TRUE /\ doing' = "header"
       \/ doing' = "exit" /\ UNCHANGED <<library, descriptor>>
    /\ UNCHANGED <<lc, mappingTable, base_address, region>>

CheckHeader ==
    /\ doing = "header"
    /\ doing' \in {"out", IF library.split THEN "commands" ELSE "out"}
    /\ UNCHANGED <<library, lc, mappingTable, base_address, descriptor, region>>

-----------------------------------------------------------------------------
(* The entries of a segment.                                                *)
Protection(sc) == sc.initprot \cup IF "write" \in sc.initprot THEN {"cow"} ELSE {}

FileEntry(sc) == [address |-> sc.vmaddr, size |-> sc.filesize, file_offset |-> sc.fileoff,
                  prot |-> Protection(sc)]

(* Mutant: the zeros begin where the segment does.                          *)
ZeroEntry_Start(sc) == [address |-> sc.vmaddr, size |-> sc.vmsize - sc.filesize,
                        file_offset |-> 0, prot |-> Protection(sc) \cup {"cow", "zf"}]

ZeroEntry(sc) == [address |-> sc.vmaddr + sc.filesize, size |-> sc.vmsize - sc.filesize,
                  file_offset |-> 0, prot |-> Protection(sc) \cup {"cow", "zf"}]

HasZeros(sc) == "write" \in sc.initprot /\ sc.vmsize > sc.filesize

Entries(sc) == <<FileEntry(sc)>> \o IF HasZeros(sc) THEN <<ZeroEntry(sc)>> ELSE <<>>

(* Nothing stops the index at the end of the table.  Entries behind it are  *)
(* written over what lies there on the stack: the program goes on unharmed, *)
(* or anything may happen.                                                  *)
LoadCommand ==
    /\ doing = "commands" /\ lc < Len(library.commands) /\ lc' = lc + 1
    /\ LET command == library.commands[lc'] IN
          IF command.cmd = "LC_SEGMENT"
          THEN /\ mappingTable' = mappingTable \o Entries(command)
               /\ base_address' = IF command.vmaddr < base_address THEN command.vmaddr ELSE base_address
          ELSE UNCHANGED <<mappingTable, base_address>>
    /\ doing' \in {"commands"} \cup IF Len(mappingTable') > MAX_SEGMENTS THEN {"overrun"} ELSE {}
    /\ UNCHANGED <<library, descriptor, region>>

MapFile ==
    /\ doing = "commands" /\ lc = Len(library.commands) /\ doing' = "out"
    /\ region' \in {mappingTable, <<>>}      \* the call may fail
    /\ UNCHANGED <<library, lc, mappingTable, base_address, descriptor>>

CloseLibrary ==
    /\ doing = "out" /\ doing' = "exit" /\ descriptor' = FALSE
    /\ UNCHANGED <<library, lc, mappingTable, base_address, region>>

Next == OpenLibrary \/ CheckHeader \/ LoadCommand \/ MapFile \/ CloseLibrary

Spec == Init /\ [][Next]_vars

-----------------------------------------------------------------------------
Segments == SegmentsOf(library)
TypeOK ==
    /\ library \in Libraries \cup {NoFile} /\ lc \in 0 .. Len(library.commands)
    /\ descriptor \in BOOLEAN

(* Load commands with a segment, and with a zero-filled part, among the     *)
(* first ones; both have entries in the table.                              *)
SegmentsIn(n) == {k \in 1 .. n : library.commands[k].cmd = "LC_SEGMENT"}
ZerosIn(n)    == {k \in SegmentsIn(n) : HasZeros(library.commands[k])}
Needed        == Cardinality(SegmentsIn(lc)) + Cardinality(ZerosIn(lc))

(* What a segment occupies, and what is right for a byte of it.             *)
Extent(sc) == IF sc.filesize > sc.vmsize THEN sc.filesize ELSE sc.vmsize
Occupied(sc) == Span(sc.vmaddr, Extent(sc))
Alone(sc, address) == \A other \in Segments \ {sc} : address \notin Occupied(other)
Serves(e, sc, k) ==
    /\ ("write" \in sc.initprot) = ("cow" \in e.prot)
    /\ ("zf" \in e.prot) = (k >= sc.filesize)
    /\ k < sc.filesize => e.file_offset + (sc.vmaddr + k - e.address) = sc.fileoff + k

Mapped(address) == {e \in Range(region) : address \in Span(e.address, e.size)}

\* In the region each byte of a segment is mapped to its own byte of the file
\* or, beyond those and in a writable segment, to zeros, and nothing writable is
\* shared; where no other segment overlaps it is mapped to that only, and
\* outside of the segments nothing is.  The base address that is printed is that
\* of the lowest segment.  The table gets an entry for each segment, two if it
\* has zeros, and only a library that needs more than there is room for can ruin
\* the program.
MapsTheLibrary ==
    /\ TypeOK
    /\ doing = "exit" => ~descriptor
    /\ Len(mappingTable) = Needed
    /\ doing = "overrun" => Needed > MAX_SEGMENTS
    /\ region # <<>> =>
          /\ \A sc \in Segments : \A k \in 0 .. Extent(sc) - 1 :
                /\ k < sc.filesize \/ "write" \in sc.initprot =>
                      \E e \in Mapped(sc.vmaddr + k) : Serves(e, sc, k)
                /\ Alone(sc, sc.vmaddr + k) =>
                      \A e \in Mapped(sc.vmaddr + k) : Serves(e, sc, k) /\ Mapped(sc.vmaddr + k) = {e}
          /\ \A e \in Range(region) : \E sc \in Segments : Span(e.address, e.size) \subseteq Occupied(sc)
          /\ base_address \in {sc.vmaddr : sc \in Segments}
          /\ \A sc \in Segments : base_address <= sc.vmaddr
=============================================================================
