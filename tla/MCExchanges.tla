---------------------------- MODULE MCExchanges -----------------------------
(***************************************************************************)
(* The programs that share something with others - a port, a page, names   *)
(* kept by the system - each on a small instance, one exchange at a time:  *)
(* program says which one.  What one of them promises is checked on its    *)
(* own behaviours, where the others stay in their initial states.  The     *)
(* bootstrap server comes by EXTENDS, the others are instances.            *)
(***************************************************************************)
EXTENDS Integers, Sequences, FiniteSets, Bootstrap

CONSTANTS
    Pids, NoPid, Signals, MaxRuns,                                 \* Kdebug
    Clients, Size, Texts, Hello, NUL, QLimit, MayDie, NoOne,       \* ShmIPC
    MaxPosts, MaxFailures                                          \* Notify

VARIABLES
    program,
    enabled, buffers, valcheck, pidcheck, flagged, tracePlace, call, stage, ret,
    mib, pid, exiting, trace_enabled, set_remove_flag, blocked, lapses,
    found, runs,
    server, port, queue, request, client, asked, inbox, result, memory,
    argument, use, pos, seen,
    up, at, name, step, token, registered, pipe, notifyPort, msg, installed,
    pending, fresh, checked, early, due, received, posts, failures

trace == <<
    enabled, buffers, valcheck, pidcheck, flagged, tracePlace, call, stage, ret,
    mib, pid, exiting, trace_enabled, set_remove_flag, blocked, lapses,
    found, runs>>
shm == <<
    server, port, queue, request, client, asked, inbox, result, memory,
    argument, use, pos, seen>>
notification == <<
    up, at, name, step, token, registered, pipe, notifyPort, msg, installed,
    pending, fresh, checked, early, due, received, posts, failures>>

-----------------------------------------------------------------------------

Trace == INSTANCE Kdebug WITH place <- tracePlace
Shm == INSTANCE ShmIPC
Notification == INSTANCE Notify WITH port <- notifyPort

\* For TLC: what the server puts in the page of three bytes, and what clients
\* may write, a short text and one that is longer than the page.
ShortHello == <<"h", "m">>
TwoTexts == {<<"a">>, <<"b", "c", "d", "e">>}

ASSUME Assumptions ==
    /\ JobAssumption
    /\ Trace!ConstantsAssumption
    /\ Shm!TextsAssumption
    /\ Notification!BoundsAssumption

-----------------------------------------------------------------------------
Programs == {"bootstrap", "kdebug", "shm", "notify"}

(* Of the initial states of a program that is not run, one is enough.       *)
MCInit ==
    /\ program \in Programs
    /\ Init /\ Trace!Init /\ Shm!Init /\ Notification!Init
    /\ program # "bootstrap" => ~flag
    /\ program # "kdebug" => ~enabled /\ ~buffers
    /\ program # "shm" => argument = [c \in Clients |-> <<>>]

MCNext ==
    /\ UNCHANGED program
    /\ IF program = "bootstrap" THEN Next ELSE UNCHANGED vars
    /\ IF program = "kdebug" THEN Trace!Next ELSE UNCHANGED trace
    /\ IF program = "shm" THEN Shm!Next ELSE UNCHANGED shm
    /\ IF program = "notify" THEN Notification!Next ELSE UNCHANGED notification

mcVars == <<program, vars, trace, shm, notification>>

MCSpec ==
    /\ MCInit /\ [][MCNext]_mcVars
    /\ (program = "kdebug" => Trace!Fairness)
    /\ (program = "notify" => Notification!Fairness)

-----------------------------------------------------------------------------
(* What each of them promises; it is stated and explained in its module.     *)
CleanRuns   == Trace!CleanRuns
OnlyWritten == Shm!OnlyWritten
Accounted   == Notification!Accounted
CleanupEnds == Trace!CleanupEnds
Noticed     == Notification!Noticed
=============================================================================
