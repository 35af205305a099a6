----------------------------- MODULE MCPrograms -----------------------------
(***************************************************************************)
(* The smaller programs, each on a small instance, one at a time: program  *)
(* says which one is run.  Their specifications do not interact; what one  *)
(* of them promises is checked on its own behaviours, where the others     *)
(* stay in their initial states.  Compare-and-store comes by EXTENDS, the  *)
(* others are instances.                                                   *)
(***************************************************************************)
EXTENDS Integers, Sequences, FiniteSets, CompareAndStore

CONSTANTS
    AllTasks, Self, TaskProcesses, CarbonProcesses, MaxThreads,    \* ListTasks
    PageSize, RedZone, GuestArgument,                              \* Vmachmon
    Exceptions, Expected,                                          \* ExceptionHandler
    Originals, News,                                               \* Frr
    EventArguments, FSE_MAX_ARGS, MaxEvents, MaxReads,             \* FsLogger
    Libraries, MAX_SEGMENTS,                                       \* Srmap
    Files, MaxOptions, MaxUpdates,                                 \* LsMdQuery
    Clients, Arguments, Undefined,                                 \* DoChat
    Processes, SemaphoreValues, Strings, NoName,                   \* PosixNames
    Kinds, LastOnes,                                               \* FileWatch
    MAXTHREADS, Behind                                             \* CarbonThreads

VARIABLES
    program,
    alive, threads, place, options, task_list, i, thread_list, stat, buffers,
    nameRef, died,
    stage, demo_id, pages, context, mapped, gpr, guestPc, lr, gt, memory,
    victim, handler, rights, mask, raised, queued, counter, answered, ended,
    main, original, newFunction, first, heap, FRR, f_bytes, target, function_stub,
    path,
    logger, open, buffer, due, ret, off, kea, count, is_fse_arg_vnode, printed,
    reads,
    doing, library, lc, mappingTable, base_address, descriptor, region,
    running, strings, rawQuery, owned, queryOptions, results, updating,
    updates, gone, finished, shown, idx, total,
    parent, child, suspend_count, child_task, refused, name_0x1234, late,
    counted,
    doServer, a, b, calls, doStep, wire, doAnswer, proxy, doShown,
    nameAt, handle, semaphore, initial, value, nameMemory, string, content,
    size, namePrinted,
    watching, fflags, kl, occurred, watchPrinted, watchFailed,
    control, carbonMain, carbonPlace, created, whoa,
    vmParent, vmChild, inherit, object, vmContent, seen

tasks == <<
    alive, threads, place, options, task_list, i, thread_list, stat, buffers,
    nameRef, died>>
vmm == <<stage, demo_id, pages, context, mapped, gpr, guestPc, lr, gt, memory>>
exception == <<
    victim, handler, rights, mask, raised, queued, counter, answered, ended>>
rerouting == <<
    main, original, newFunction, first, heap, FRR, f_bytes, target, function_stub,
    path>>
events == <<
    logger, open, buffer, due, ret, off, kea, count, is_fse_arg_vnode, printed,
    reads>>
sharedRegion == <<
    doing, library, lc, mappingTable, base_address, descriptor, region>>
query == <<
    running, strings, rawQuery, owned, queryOptions, results, updating,
    updates, gone, finished, shown, idx, total>>
injection == <<
    parent, child, suspend_count, child_task, refused, name_0x1234, late,
    counted>>
chat == <<doServer, a, b, calls, doStep, wire, doAnswer, proxy, doShown>>
names == <<
    nameAt, handle, semaphore, initial, value, nameMemory, string, content,
    size, namePrinted>>
watch == <<watching, fflags, kl, occurred, watchPrinted, watchFailed>>
cooperation == <<control, carbonMain, carbonPlace, created, whoa>>
inheritance == <<vmParent, vmChild, inherit, object, vmContent, seen>>

-----------------------------------------------------------------------------
Tasks == INSTANCE ListTasks WITH
    Tasks <- AllTasks, Processes <- TaskProcesses, Carbon <- CarbonProcesses
Vmm == INSTANCE Vmachmon WITH Argument <- GuestArgument, pc <- guestPc
Exception == INSTANCE ExceptionHandler
Rerouting == INSTANCE Frr WITH new <- newFunction
Events == INSTANCE FsLogger WITH Arguments <- EventArguments
Region == INSTANCE Srmap
Query == INSTANCE LsMdQuery WITH options <- queryOptions
Interposing == INSTANCE Interpose
Chat == INSTANCE DoChat WITH
    server <- doServer, step <- doStep, answer <- doAnswer, shown <- doShown
Names == INSTANCE PosixNames WITH
    Values <- SemaphoreValues,
    at <- nameAt, memory <- nameMemory, printed <- namePrinted
Watch == INSTANCE FileWatch WITH
    doing <- watching, happened <- occurred, printed <- watchPrinted, failed <- watchFailed
Cooperation == INSTANCE CarbonThreads WITH main <- carbonMain, place <- carbonPlace
Inheritance == INSTANCE VmInherit WITH
    parent <- vmParent, child <- vmChild, content <- vmContent

-----------------------------------------------------------------------------
(* Values that a configuration cannot write.                                *)
Arg(kind, len) == [kind |-> kind, len |-> len]
ThreeLists == { <<Arg("vnode", 5), Arg("dev", 4), Arg("raw", 8)>>, <<Arg("dev", 4)>>,
                <<Arg("raw", 0), Arg("other", 3)>> }

Segment(vmaddr, vmsize, fileoff, filesize, initprot) ==
    [cmd |-> "LC_SEGMENT", vmaddr |-> vmaddr, vmsize |-> vmsize,
     fileoff |-> fileoff, filesize |-> filesize, initprot |-> initprot]
Other == [cmd |-> "other"]
TextSeg == Segment(10, 3, 0, 3, {"read", "execute"})
DataSeg(filesize) == Segment(20, 3, 3, filesize, {"read", "write"})
LinkSeg == Segment(5, 2, 6, 1, {"read"})
SmallLibraries == [split : BOOLEAN, commands : { <<TextSeg, DataSeg(1), LinkSeg>>,
                     <<Other, LinkSeg, DataSeg(3), Other>>, <<DataSeg(0), TextSeg>>, <<Other>>,
                     <<TextSeg, Segment(11, 4, 3, 1, {"read", "write"})>>,
                     <<LinkSeg, Segment(7, 1, 0, 3, {"read", "write"})>> }]

ThirdDiffers   == [c \in Clients |-> IF c = "c3" THEN [a |-> 1, b |-> 2] ELSE [a |-> 4, b |-> 9]]
OneLetterEach  == {<<"a">>, <<"b">>}
NothingOrMain  == {-2, -1}

ASSUME Assumptions ==
    /\ Tasks!TasksAssumption
    /\ Vmm!SizesAssumption
    /\ Exception!ExpectedAssumption
    /\ Rerouting!AddressesAssumption
    /\ Events!ArgumentsAssumption
    /\ Region!LibrariesAssumption
    /\ Query!BoundsAssumption
    /\ ValuesAssumption
    /\ Chat!ArgumentsAssumption
    /\ Names!NamesAssumption
    /\ Cooperation!ThreadsAssumption

-----------------------------------------------------------------------------
Programs == {"lstasks", "vmachmon", "exception", "frr", "fslogger", "srmap",
              "lsmdquery", "cas", "interpose", "dochat",
              "posix", "kq_fwatch", "carbon", "vm_inherit"}

MCInit ==
    /\ program \in Programs
    /\ Tasks!Init /\ Vmm!Init /\ Exception!Init /\ Rerouting!Init
    /\ Events!Init /\ Region!Init /\ Query!Init /\ Init
    /\ Interposing!Init /\ Chat!Init /\ Names!Init /\ Watch!Init
    /\ Cooperation!Init /\ Inheritance!Init

MCNext ==
    /\ UNCHANGED program
    /\ IF program = "lstasks" THEN Tasks!Next ELSE UNCHANGED tasks
    /\ IF program = "vmachmon" THEN Vmm!Next ELSE UNCHANGED vmm
    /\ IF program = "exception" THEN Exception!Next ELSE UNCHANGED exception
    /\ IF program = "frr" THEN Rerouting!Next ELSE UNCHANGED rerouting
    /\ IF program = "fslogger" THEN Events!Next ELSE UNCHANGED events
    /\ IF program = "srmap" THEN Region!Next ELSE UNCHANGED sharedRegion
    /\ IF program = "lsmdquery" THEN Query!Next ELSE UNCHANGED query
    /\ IF program = "cas" THEN Next ELSE UNCHANGED vars
    /\ IF program = "interpose" THEN Interposing!Next ELSE UNCHANGED injection
    /\ IF program = "dochat" THEN Chat!Next ELSE UNCHANGED chat
    /\ IF program = "posix" THEN Names!Next ELSE UNCHANGED names
    /\ IF program = "kq_fwatch" THEN Watch!Next ELSE UNCHANGED watch
    /\ IF program = "carbon" THEN Cooperation!Next ELSE UNCHANGED cooperation
    /\ IF program = "vm_inherit" THEN Inheritance!Next ELSE UNCHANGED inheritance

mcVars == <<program, tasks, vmm, exception, rerouting, events, sharedRegion,
          query, vars, injection, chat, names, watch, cooperation,
          inheritance>>

MCSpec ==
    /\ MCInit /\ [][MCNext]_mcVars
    /\ (program = "exception" => Exception!Fairness)

-----------------------------------------------------------------------------
(* What each of them promises; it is stated and explained in its module.     *)
GuestComputes       == Vmm!GuestComputes
RepairedBeforeReply == Exception!RepairedBeforeReply
Reroutes            == Rerouting!Reroutes
MapsTheLibrary      == Region!MapsTheLibrary
RightBeforeUse      == Interposing!RightBeforeUse
SharedSum           == Chat!SharedSum
HandlesOutliveNames == Names!HandlesOutliveNames
OneAfterTheOther    == Cooperation!OneAfterTheOther
OwnCopies           == Inheritance!OwnCopies
VictimGoesOn        == Exception!VictimGoesOn

\* What the listing and watching tools report is what was there: lstasks's
\* summary, fslogger's events, lsmdquery's results, kq_fwatch's changes.
Reports ==
    /\ Tasks!SummaryAgrees
    /\ Events!PrintsEveryEvent
    /\ Query!ListsResults
    /\ Watch!ReportsChanges
=============================================================================
