------------------------------- MODULE Kdebug -------------------------------
(***************************************************************************)
(* 6-29/kdebug.c: a tracer of the kernel's kdebug facility, run after run. *)
(* It clears and sets up the facility, chooses a process and a system call *)
(* to trace, enables tracing and reads the buffer in a loop that only a    *)
(* failing sysctl or a signal ends; both lead to ukdbg_exit_handler, which *)
(* undoes what was done.  A signal may come between any two steps, also    *)
(* during the clean-up of another; no handler ever returns, so only the    *)
(* innermost call has to be kept.  The facility is external: it outlives   *)
(* the program, and any sysctl may fail.                                   *)
(***************************************************************************)
EXTENDS Integers

CONSTANTS
    Pids,      \* processes that can be traced
    NoPid,     \* the program was given none: pid = -1
    Signals,   \* those it handles: SIGHUP, SIGINT, SIGQUIT, SIGTERM
    MaxRuns    \* bound: how often the program is started

\* Assumed of the constants where they get their values.
ConstantsAssumption == NoPid \notin Pids /\ MaxRuns \in Nat

VARIABLES
    enabled, buffers,    \* the facility: tracing is on, buffers exist
    valcheck, pidcheck,  \* only chosen events, only flagged processes
    flagged,             \* processes flagged for tracing
    place,               \* "down" or where the program ended
    call, stage,         \* the ukdbg_ function it runs, how far it is
    ret,                 \* what its sysctl returned
    mib,                 \* the request in the global mib[]
    pid, exiting, trace_enabled, set_remove_flag,
    blocked,             \* signals whose handler is running
    lapses,              \* cleaning calls that failed
    found,               \* enabled and buffers as this run found them
    runs

facility == <<enabled, buffers, valcheck, pidcheck, flagged>>
globals  == <<pid, set_remove_flag>>
vars == <<facility, place, call, stage, ret, mib, globals, exiting,
          trace_enabled, blocked, lapses, found, runs>>

MainCalls    == {"clear", "setbuf", "reinit", "pidOn", "valcheck", "on", "getbuf", "read"}
CleanupCalls == {"off", "pidOff", "clearAll"}
Ops == {"none", "KDREMOVE", "KDSETBUF", "KDSETUP", "KDPIDTR", "KDSETREG", "KDENABLE",
        "KDGETBUF", "KDREADTR"}

(* The facility may be in any state another tracer has left it in.          *)
Init ==
    /\ enabled \in BOOLEAN /\ buffers \in BOOLEAN /\ (enabled => buffers)
    /\ valcheck = FALSE /\ pidcheck = FALSE /\ flagged = {}
    /\ place = "down" /\ call = "clear" /\ stage = "fill" /\ ret = 0
    /\ mib = [op |-> "none", arg |-> 0]
    /\ pid = NoPid /\ exiting = FALSE
    /\ trace_enabled = FALSE /\ set_remove_flag = TRUE
    /\ blocked = {} /\ lapses = {} /\ found = <<enabled, buffers>> /\ runs = 0

(* main() up to its first sysctl.                                           *)
Start ==
    /\ place # "up" /\ runs < MaxRuns
    /\ runs' = runs + 1
    /\ place' = "up" /\ call' = "clear" /\ stage' = "fill"
    /\ pid' \in Pids \cup {NoPid}
    /\ exiting' = FALSE /\ trace_enabled' = FALSE /\ set_remove_flag' = TRUE
    /\ blocked' = {} /\ lapses' = {} /\ found' = <<enabled, buffers>>
    /\ UNCHANGED <<facility, ret, mib>>

(* ukdbg_exit_handler: three cleaning calls, each if it is wanted when its  *)
(* turn comes, then exit().  It is left by exit() only.                     *)
Order == <<"off", "pidOff", "clearAll">>

Wanted_PidIfEnabled(c) ==
    CASE c = "off"      -> trace_enabled
      [] c = "pidOff"   -> pid # NoPid /\ trace_enabled
      [] c = "clearAll" -> set_remove_flag'

Wanted(c) ==
    CASE c = "off"      -> trace_enabled
      [] c = "pidOff"   -> pid # NoPid
      [] c = "clearAll" -> set_remove_flag'

Then(c) == call' = c /\ stage' = "fill" /\ UNCHANGED place

CleanupFrom(i) ==
    LET todo == {k \in i .. 3 : Wanted(Order[k])} IN
    \/ \E k \in todo : (\A j \in todo : k <= j) /\ Then(Order[k])
    \/ todo = {} /\ place' = "exited" /\ UNCHANGED <<call, stage>>

ukdbg_exit_handler == exiting' = TRUE /\ CleanupFrom(1)
ukdbg_exit == ukdbg_exit_handler

Signal(s) ==
    /\ place = "up" /\ s \notin blocked
    /\ blocked' = blocked \cup {s}
    /\ UNCHANGED <<facility, ret, mib, globals, trace_enabled, lapses, found, runs>>
    /\ ukdbg_exit_handler

(* SIGKILL, or a crash: nothing is undone.                                  *)
Killed ==
    /\ place = "up" /\ place' = "killed"
    /\ UNCHANGED <<facility, call, stage, ret, mib, globals, exiting,
                   trace_enabled, blocked, lapses, found, runs>>

-----------------------------------------------------------------------------
(* Every ukdbg_ function fills in mib[] ... (mib[3] by two of them only)    *)
Request(c) ==
    CASE c = "on"  -> [op |-> "KDENABLE", arg |-> 1]
      [] c = "off" -> [op |-> "KDENABLE", arg |-> 0]
      [] c = "setbuf" -> [op |-> "KDSETBUF", arg |-> 16384]
      [] c \in {"clear", "clearAll"} -> [mib EXCEPT !.op = "KDREMOVE"]
      [] c = "reinit" -> [mib EXCEPT !.op = "KDSETUP"]
      [] c \in {"pidOn", "pidOff"} -> [mib EXCEPT !.op = "KDPIDTR"]
      [] c = "valcheck" -> [mib EXCEPT !.op = "KDSETREG"]
      [] c = "getbuf" -> [mib EXCEPT !.op = "KDGETBUF"]
      [] c = "read" -> [mib EXCEPT !.op = "KDREADTR"]

Fill ==
    /\ place = "up" /\ stage = "fill"
    /\ mib' = Request(call)
    /\ stage' = "sysctl"
    /\ UNCHANGED <<facility, place, call, ret, globals, exiting, trace_enabled,
                   blocked, lapses, found, runs>>

(* ... and calls sysctl, external.  Flags of processes stay when the        *)
(* facility is removed or set up anew.                                      *)
Perform ==
    CASE mib.op = "KDREMOVE" ->
           /\ enabled' = FALSE /\ buffers' = FALSE /\ valcheck' = FALSE /\ pidcheck' = FALSE
           /\ UNCHANGED flagged
      [] mib.op = "KDSETUP" ->
           enabled' = FALSE /\ buffers' = TRUE /\ UNCHANGED <<valcheck, pidcheck, flagged>>
      [] mib.op = "KDENABLE" ->
           /\ mib.arg = 1 => buffers
           /\ enabled' = (mib.arg = 1)
           /\ UNCHANGED <<buffers, valcheck, pidcheck, flagged>>
      [] mib.op = "KDPIDTR" ->
           /\ flagged' = IF call = "pidOn" THEN flagged \cup {pid} ELSE flagged \ {pid}
           /\ pidcheck' = (call = "pidOn" \/ pidcheck)
           /\ UNCHANGED <<enabled, buffers, valcheck>>
      [] mib.op = "KDSETREG" ->
           valcheck' = TRUE /\ UNCHANGED <<enabled, buffers, pidcheck, flagged>>
      [] mib.op \in {"KDSETBUF", "KDGETBUF", "KDREADTR"} -> UNCHANGED facility

Sysctl ==
    /\ place = "up" /\ stage = "sysctl"
    /\ stage' = "return"
    /\ \/ ret' = 0 /\ Perform /\ lapses' = lapses \ {call}
       \/ /\ ret' = -1 /\ UNCHANGED facility
          /\ lapses' = lapses \cup ({call} \cap CleanupCalls)
    /\ UNCHANGED <<place, call, mib, globals, exiting, trace_enabled, blocked, found, runs>>

-----------------------------------------------------------------------------
(* What a ukdbg_ function does with the result before main() or the handler *)
(* goes on (next).  A failure that meets a running handler is ignored.      *)
Returns(c) ==
    /\ place = "up" /\ stage = "return" /\ call = c
    /\ UNCHANGED <<facility, ret, mib, pid, blocked, lapses, found, runs>>

Fails_Always == ret < 0

Fails == ret < 0 /\ ~exiting

ukdbg_setenable(c, next) ==
    /\ Returns(c) /\ UNCHANGED set_remove_flag
    /\ IF Fails
       THEN ukdbg_exit /\ UNCHANGED trace_enabled
       ELSE next /\ trace_enabled' = (c = "on") /\ UNCHANGED exiting

ukdbg_clear(c, next) ==
    /\ Returns(c) /\ UNCHANGED trace_enabled
    /\ set_remove_flag' = (set_remove_flag /\ ~Fails)
    /\ IF Fails THEN ukdbg_exit ELSE next /\ UNCHANGED exiting

ukdbg_setpidcheck(c, next) ==
    /\ Returns(c) /\ UNCHANGED globals /\ UNCHANGED trace_enabled
    /\ IF Fails THEN ukdbg_exit ELSE next /\ UNCHANGED exiting

\* ukdbg_setbuf, ukdbg_reinit, ukdbg_setreg_valcheck, ukdbg_getbuf, ukdbg_read
ukdbg_checked(c, next) ==
    /\ Returns(c) /\ UNCHANGED globals /\ UNCHANGED trace_enabled
    /\ IF ret < 0 THEN ukdbg_exit ELSE next /\ UNCHANGED exiting

Main ==
    \/ ukdbg_clear("clear", Then("setbuf"))
    \/ ukdbg_checked("setbuf", Then("reinit"))
    \/ ukdbg_checked("reinit", Then(IF pid # NoPid THEN "pidOn" ELSE "valcheck"))
    \/ ukdbg_setpidcheck("pidOn", Then("valcheck"))
    \/ ukdbg_checked("valcheck", Then("on"))
    \/ ukdbg_setenable("on", Then("getbuf"))
    \/ ukdbg_checked("getbuf", Then("read"))
    \/ ukdbg_checked("read", Then("getbuf"))

Handler ==
    \/ ukdbg_setenable("off", CleanupFrom(2))
    \/ ukdbg_setpidcheck("pidOff", CleanupFrom(3))
    \/ ukdbg_clear("clearAll", CleanupFrom(4))

Step == Fill \/ Sysctl \/ Main \/ Handler

Rest == place # "up" /\ runs = MaxRuns /\ UNCHANGED vars

Next == Start \/ Step \/ Killed \/ Rest \/ \E s \in Signals : Signal(s)

Spec == Init /\ [][Next]_vars

(* The process is scheduled while it lives.                                 *)
Fairness == WF_vars(Step)

-----------------------------------------------------------------------------
TypeOK ==
    /\ enabled \in BOOLEAN /\ buffers \in BOOLEAN
    /\ valcheck \in BOOLEAN /\ pidcheck \in BOOLEAN /\ flagged \subseteq Pids
    /\ place \in {"down", "up", "exited", "killed"}
    /\ call \in MainCalls \cup CleanupCalls
    /\ stage \in {"fill", "sysctl", "return"}
    /\ ret \in {-1, 0}
    /\ mib \in [op : Ops, arg : {0, 1, 16384}]
    /\ pid \in Pids \cup {NoPid}
    /\ exiting \in BOOLEAN /\ trace_enabled \in BOOLEAN /\ set_remove_flag \in BOOLEAN
    /\ blocked \subseteq Signals /\ lapses \subseteq CleanupCalls
    /\ found \in BOOLEAN \X BOOLEAN
    /\ runs \in 0 .. MaxRuns

\* Wherever signals strike, an exit of the program undoes what it did, as far
\* as its last cleaning calls succeed: the buffers are gone, tracing is off
\* and its process is no longer flagged; and if even the first clear was
\* refused, the facility is as it was found.  While it runs, the loop reads a
\* trace that was set up as asked, whatever an earlier run that was killed, or
\* failed to clean up, has left in the facility.
CleanExit ==
    place = "exited" =>
       /\ "pidOff" \notin lapses => pid \notin flagged
       /\ set_remove_flag /\ "clearAll" \notin lapses => ~enabled /\ ~buffers
       /\ ~set_remove_flag => <<enabled, buffers>> = found

Configured ==
    place = "up" /\ call \in {"getbuf", "read"} =>
       /\ enabled /\ buffers /\ valcheck
       /\ pidcheck = (pid # NoPid)
       /\ pid # NoPid => pid \in flagged

CleanRuns == TypeOK /\ CleanExit /\ Configured

\* A program that has begun to clean up ends, although the cleaning calls may
\* fail and further signals interrupt it.
CleanupEnds == (exiting /\ place = "up") ~> place # "up"
=============================================================================
