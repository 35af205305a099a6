------------------------------ MODULE FsLogger ------------------------------
(***************************************************************************)
(* fslogger (11-25/fslogger.c): clones /dev/fsevents and prints what it    *)
(* reads from the clone, several events at a time, following the lengths   *)
(* in the data: a header, arguments, and a mark after the last argument.   *)
(* The driver, which copies out whole events item by item, is external.    *)
(* An event of type -1 ("invalid") is taken for one with a name, and the   *)
(* data of a raw argument for a pointer.                                   *)
(***************************************************************************)
EXTENDS Integers, Sequences, FiniteSets

CONSTANTS
    Arguments,    \* lists of arguments that events come with
    FSE_MAX_ARGS, \* the longest of them
    MaxEvents,    \* bound: events of a read
    MaxReads      \* bound: reads

\* Assumed of the constants where they get their values.
\* The driver sends the file system of a vnode in the argument after it.
ArgumentsAssumption ==
    /\ FSE_MAX_ARGS \in Nat
    /\ \A list \in Arguments :
          /\ list \in Seq([kind : STRING \ {"event", "invalid", "dropped", "done"}, len : Nat])
          /\ Len(list) <= FSE_MAX_ARGS
          /\ \A k \in DOMAIN list : list[k].kind = "vnode" =>
                k < Len(list) /\ list[k + 1].kind = "dev"

VARIABLES
    logger,    \* where main() is
    open,      \* descriptors it has: fd and clonefd
    buffer,    \* items of the last read, each with the offset where it lies
    due,       \* what the driver has still to copy of an event
    ret, off,  \* bytes of it, and how far they have been taken
    kea,       \* where the next argument is
    count,     \* i, the arguments seen
    is_fse_arg_vnode,
    printed,   \* what has been printed of this buffer
    reads

vars == <<logger, open, buffer, due, ret, off, kea, count, is_fse_arg_vnode, printed, reads>>

Init ==
    /\ logger = "start" /\ open = {} /\ buffer = <<>> /\ due = <<>> /\ ret = -1 /\ off = 0 /\ kea = 0
    /\ count = 0 /\ is_fse_arg_vnode = FALSE /\ printed = <<>> /\ reads = 0

-----------------------------------------------------------------------------
(* What an event consists of.  A dropped one has no arguments, only the     *)
(* mark.                                                                    *)
Item(kind, size) == [kind |-> kind, size |-> size]

Header    == 4 + 4          \* type and pid
MarkSize  == 2
Mark      == Item("done", MarkSize)
Sized(a)  == Item(a.kind, 2 + 2 + a.len)

Placed(item) == [kind |-> item.kind, size |-> item.size, at |-> ret]

(* What lies at an offset: an item, or the middle of one.                   *)
At(offset) ==
    LET here == {k \in DOMAIN buffer : buffer[k].at = offset}
    IN  IF here = {} THEN Item("junk", 0) ELSE buffer[CHOOSE k \in here : TRUE]

Heads == {k \in DOMAIN buffer : buffer[k].kind \in {"event", "invalid", "dropped"}}

-----------------------------------------------------------------------------
(* main() up to the loop: open(), ioctl(FSEVENTS_CLONE) and close().        *)
Setup ==
    /\ logger = "start"
    /\ \/ logger' = "exit" /\ UNCHANGED open           \* not root, arguments, no device
       \/ logger' = "clone" /\ open' = {"fd"}
    /\ UNCHANGED <<buffer, due, ret, off, kea, count, is_fse_arg_vnode, printed, reads>>

Clone ==
    /\ logger = "clone"
    /\ \/ logger' = "exit" /\ open' = {}
       \/ logger' = "read" /\ open' = {"clonefd"}
    /\ UNCHANGED <<buffer, due, ret, off, kea, count, is_fse_arg_vnode, printed, reads>>

(* read(): the driver copies events that fit, each of them whole.           *)
Read ==
    /\ logger = "read" /\ reads < MaxReads /\ reads' = reads + 1
    /\ logger' = "reading" /\ buffer' = <<>> /\ ret' = 0
    /\ UNCHANGED <<open, due, off, kea, count, is_fse_arg_vnode, printed>>

Copy(item) ==
    /\ buffer' = Append(buffer, Placed(item)) /\ ret' = ret + item.size
    /\ UNCHANGED <<logger, open, off, kea, count, is_fse_arg_vnode, printed, reads>>

CopyEvent ==
    /\ logger = "reading" /\ due = <<>> /\ Cardinality(Heads) < MaxEvents
    /\ \/ /\ \E kind \in {"event", "invalid"} : Copy(Item(kind, Header))
          /\ \E list \in Arguments : due' = Append([k \in DOMAIN list |-> Sized(list[k])], Mark)
       \/ Copy(Item("dropped", Header + MarkSize)) /\ UNCHANGED due

CopyArgument ==
    /\ logger = "reading" /\ due # <<>>
    /\ Copy(Head(due)) /\ due' = Tail(due)

(* A read that fails, or finds nothing, is simply done again.               *)
ReadReturns ==
    /\ logger = "reading" /\ due = <<>>
    /\ off' = 0 /\ printed' = <<>>
    /\ logger' = IF ret > 0 THEN "event" ELSE "read"
    /\ UNCHANGED <<open, buffer, due, ret, kea, count, is_fse_arg_vnode, reads>>

(* The head of the loop over events.                                        *)
Event ==
    /\ logger = "event" /\ off < ret
    /\ printed' = Append(printed, At(off).kind)
    /\ CASE At(off).kind = "dropped" ->
              off' = off + Header + MarkSize /\ UNCHANGED <<logger, kea, count>>
         [] At(off).kind \in {"event", "invalid"} ->
              off' = off + Header /\ kea' = off + Header /\ count' = 0 /\ logger' = "argument"
         [] OTHER -> logger' = "exit" /\ UNCHANGED <<off, kea, count>>   \* "a program bug"
    /\ UNCHANGED <<open, buffer, due, ret, is_fse_arg_vnode, reads>>

BufferDone ==
    /\ logger = "event" /\ off >= ret /\ logger' = "read"
    /\ UNCHANGED <<open, buffer, due, ret, off, kea, count, is_fse_arg_vnode, printed, reads>>

MoreArguments_Strict == off < ret /\ count < FSE_MAX_ARGS   \* mutant

(* One turn of the loop over arguments.  An FSE_ARG_DEV is the file system  *)
(* of a vnode or a device number, whichever a flag says.                    *)
MoreArguments == off < ret /\ count <= FSE_MAX_ARGS

Argument ==
    /\ logger = "argument"
    /\ LET arg == At(kea) IN
          CASE ~MoreArguments ->
                  logger' = "event" /\ UNCHANGED <<off, kea, count, is_fse_arg_vnode, printed>>
            [] MoreArguments /\ arg.kind = "done" ->
                  /\ off' = off + arg.size /\ count' = count + 1 /\ logger' = "event"
                  /\ printed' = Append(printed, arg.kind) /\ UNCHANGED <<kea, is_fse_arg_vnode>>
            [] MoreArguments /\ arg.kind # "done" ->
                  /\ off' = off + arg.size /\ kea' = kea + arg.size /\ count' = count + 1
                  /\ is_fse_arg_vnode' = CASE arg.kind = "vnode" -> TRUE [] arg.kind = "dev" -> FALSE
                                           [] OTHER -> is_fse_arg_vnode
                  /\ printed' = Append(printed, IF arg.kind = "dev" /\ is_fse_arg_vnode THEN "fsid" ELSE arg.kind)
                  /\ UNCHANGED logger
    /\ UNCHANGED <<open, buffer, due, ret, reads>>

(* The name of type -1 lies before the names, and what a raw argument       *)
(* carries is followed as a pointer: either may be printed, or be the end.  *)
BadPointer ==
    \/ logger = "event" /\ off < ret /\ At(off).kind = "invalid"
    \/ logger = "argument" /\ MoreArguments /\ At(kea).kind = "raw" /\ At(kea).size > 2 + 2

BadAccess ==
    /\ BadPointer /\ logger' = "crashed"
    /\ UNCHANGED <<open, buffer, due, ret, off, kea, count, is_fse_arg_vnode, printed, reads>>

Next == \/ Setup \/ Clone
        \/ Read \/ CopyEvent \/ CopyArgument \/ ReadReturns
        \/ Event \/ BufferDone \/ Argument \/ BadAccess

Spec == Init /\ [][Next]_vars

-----------------------------------------------------------------------------
TypeOK ==
    /\ open \in SUBSET {"fd", "clonefd"} /\ is_fse_arg_vnode \in BOOLEAN
    /\ count \in 0 .. FSE_MAX_ARGS + 1

(* What a reader of the buffer would have printed.                          *)
Meant ==
    [k \in DOMAIN buffer |-> IF buffer[k].kind = "dev" /\ k > 1 /\ buffer[k - 1].kind = "vnode"
                             THEN "fsid" ELSE buffer[k].kind]

\* Both offsets follow the same data: each event, each argument and each mark
\* of a buffer is printed once and in order, under its own name, whatever the
\* lengths, and the last byte of the buffer is the end of its last event, so
\* that "this may be a program bug" is not said of anything the driver sends.
\* What it cannot survive is an event of type -1, or a raw argument.
PrintsEveryEvent ==
    /\ TypeOK
    /\ logger = "exit" => reads = 0
    /\ logger = "argument" => kea = off
    /\ logger = "crashed" => At(off).kind \in {"invalid", "raw"}
    /\ logger = "event" => ~is_fse_arg_vnode
    /\ logger = "read" /\ reads > 0 => off = ret /\ printed = Meant
=============================================================================
