--------------------------- MODULE ExchangesProofs ---------------------------
(***************************************************************************)
(* What the programs of MCExchanges promise, for every value of their      *)
(* constants: the kdebug tracer leaves the kernel clean; the server of the *)
(* shared page is the server of the factorial programs, and a client       *)
(* prints what has been written; notifications are neither invented nor    *)
(* lost; at most one bootstrap server is in its loop.                      *)
(***************************************************************************)
EXTENDS MCExchanges, FiniteSetTheorems, TLAPS

-----------------------------------------------------------------------------
(* The kdebug tracer (6-29/kdebug.c).  Its invariant follows the program    *)
(* call by call: what is in the facility when a call starts, and after it   *)
(* has returned success.                                                    *)
Up      == tracePlace = "up"
Done(c) == call = c /\ stage = "return" /\ ret = 0

(* What is in mib[] when the sysctl is called belongs to the function that  *)
(* calls it, whichever one a signal interrupted before.                     *)
RequestFits ==
    Up /\ stage = "sysctl" =>
       /\ call \in {"clear", "clearAll"} => mib.op = "KDREMOVE"
       /\ call = "reinit" => mib.op = "KDSETUP"
       /\ call \in {"pidOn", "pidOff"} => mib.op = "KDPIDTR"
       /\ call = "valcheck" => mib.op = "KDSETREG"
       /\ call = "on" => mib.op = "KDENABLE" /\ mib.arg = 1
       /\ call = "off" => mib.op = "KDENABLE" /\ mib.arg = 0
       /\ call \in {"setbuf", "getbuf", "read"} =>
             mib.op \in {"KDSETBUF", "KDGETBUF", "KDREADTR"}

Phases ==
    Up => /\ exiting <=> call \in Trace!CleanupCalls
          /\ call \in {"pidOn", "pidOff"} => pid # NoPid
          /\ trace_enabled => exiting \/ call \in {"getbuf", "read"}

(* How far the facility is set up; the loop of getbuf and read has it all.  *)
PidsChosen == (pidcheck <=> pid # NoPid) /\ (pid # NoPid => pid \in flagged)
SetUp ==
    Up => /\ call \in {"setbuf", "reinit"} \/ Done("clear")
                \/ (call = "pidOn" /\ ~Done("pidOn")) => ~pidcheck
          /\ Done("pidOn") \/ call \in {"valcheck", "on", "getbuf", "read"} => PidsChosen
          /\ Done("reinit") \/ call \in {"pidOn", "valcheck", "on", "getbuf", "read"} => buffers
          /\ Done("valcheck") \/ call \in {"on", "getbuf", "read"} => valcheck
          /\ Done("on") \/ call \in {"getbuf", "read"} => enabled

(* A program whose first clear was refused changes nothing.                 *)
Untouched ==
    /\ Up /\ ~exiting => set_remove_flag
    /\ Up /\ call = "clear" /\ ~Done("clear") => <<enabled, buffers>> = found
    /\ Up /\ ~set_remove_flag => call = "pidOff" /\ ~trace_enabled
    /\ tracePlace \in {"up", "exited"} /\ ~set_remove_flag => <<enabled, buffers>> = found

(* What the cleaning calls leave behind them; clearAll is the last.         *)
CleanedUp ==
    /\ Up /\ (call = "clearAll" \/ (call = "pidOff" /\ stage = "return")) =>
          "pidOff" \in lapses \/ pid \notin flagged
    /\ Up /\ call = "clearAll" /\ stage = "return" =>
          "clearAll" \in lapses \/ (~enabled /\ ~buffers)

TracerInv == /\ Trace!TypeOK /\ RequestFits /\ Phases /\ SetUp /\ Untouched /\ CleanedUp
        /\ Trace!CleanExit

(* Where the exit handler goes on: the first of the cleaning calls that is  *)
(* wanted, or exit() when none is.                                          *)
Goes(c) == call' = c /\ stage' = "fill" /\ tracePlace' = tracePlace
LEMMA Cleaning ==
    ASSUME NEW i \in 1 .. 4, Trace!CleanupFrom(i)
    PROVE  \/ i = 1 /\ trace_enabled /\ Goes("off")
           \/ i <= 2 /\ pid # NoPid /\ Goes("pidOff")
           \/ i <= 3 /\ set_remove_flag' /\ (i <= 2 => pid = NoPid) /\ Goes("clearAll")
           \/ /\ (i = 1 => ~trace_enabled) /\ (i <= 2 => pid = NoPid)
              /\ (i <= 3 => ~set_remove_flag')
              /\ tracePlace' = "exited" /\ UNCHANGED <<call, stage>>
<1> DEFINE todo == {k \in i .. 3 : Trace!Wanted(Trace!Order[k])}
<1>1. /\ 1 \in todo <=> i = 1 /\ trace_enabled
      /\ 2 \in todo <=> i <= 2 /\ pid # NoPid
      /\ 3 \in todo <=> i <= 3 /\ set_remove_flag'
      /\ todo \subseteq {1, 2, 3}
  <2>1. Trace!Order[1] = "off" /\ Trace!Order[2] = "pidOff" /\ Trace!Order[3] = "clearAll"
    BY DEF Trace!Order
  <2>2. Trace!Wanted("off") <=> trace_enabled
    BY DEF Trace!Wanted
  <2>3. Trace!Wanted("pidOff") <=> pid # NoPid
    BY DEF Trace!Wanted
  <2>4. Trace!Wanted("clearAll") <=> set_remove_flag'
    BY DEF Trace!Wanted
  <2> QED BY <2>1, <2>2, <2>3, <2>4
<1>2. \/ \E k \in todo : (\A j \in todo : k <= j) /\ Trace!Then(Trace!Order[k])
      \/ todo = {} /\ tracePlace' = "exited" /\ UNCHANGED <<call, stage>>
  BY DEF Trace!CleanupFrom
<1> HIDE DEF todo
<1>3. CASE todo = {} /\ tracePlace' = "exited" /\ UNCHANGED <<call, stage>>
  BY <1>1, <1>3
<1>4. ASSUME NEW k \in todo, \A j \in todo : k <= j, Trace!Then(Trace!Order[k])
      PROVE  \/ i = 1 /\ trace_enabled /\ Goes("off")
             \/ i <= 2 /\ pid # NoPid /\ Goes("pidOff")
             \/ i <= 3 /\ set_remove_flag' /\ (i <= 2 => pid = NoPid) /\ Goes("clearAll")
  <2>1. k = 1 => Goes("off")
    BY <1>4 DEF Trace!Then, Trace!Order, Goes
  <2>2. k = 2 => Goes("pidOff")
    BY <1>4 DEF Trace!Then, Trace!Order, Goes
  <2>3. k = 3 => Goes("clearAll")
    BY <1>4 DEF Trace!Then, Trace!Order, Goes
  <2> QED BY <1>1, <1>4, <2>1, <2>2, <2>3
<1> QED BY <1>2, <1>3, <1>4

LEMMA TracerInit == Trace!ConstantsAssumption /\ Trace!Init => TracerInv
<1> SUFFICES ASSUME Trace!ConstantsAssumption, Trace!Init PROVE TracerInv
  OBVIOUS
<1>1. Trace!TypeOK
  <2> USE DEF Trace!Init
  <2>1. found \in BOOLEAN \X BOOLEAN
    OBVIOUS
  <2>2. mib \in [op : Trace!Ops, arg : {0, 1, 16384}]
    BY DEF Trace!Ops
  <2>3. call \in Trace!MainCalls \cup Trace!CleanupCalls
    BY DEF Trace!MainCalls
  <2>4. runs \in 0 .. MaxRuns
    BY DEF Trace!ConstantsAssumption
  <2>5. /\ flagged \subseteq Pids /\ blocked \subseteq Signals /\ ret \in {-1, 0}
        /\ lapses \subseteq Trace!CleanupCalls
    OBVIOUS
  <2>6. /\ valcheck \in BOOLEAN /\ pidcheck \in BOOLEAN /\ exiting \in BOOLEAN
        /\ trace_enabled \in BOOLEAN /\ set_remove_flag \in BOOLEAN
    OBVIOUS
  <2>7. /\ tracePlace \in {"down", "up", "exited", "killed"}
        /\ stage \in {"fill", "sysctl", "return"} /\ pid \in Pids \cup {NoPid}
    OBVIOUS
  <2>8. enabled \in BOOLEAN /\ buffers \in BOOLEAN
    OBVIOUS
  <2> QED BY ONLY <2>1, <2>2, <2>3, <2>4, <2>5, <2>6, <2>7, <2>8 DEF Trace!TypeOK
<1>2. tracePlace = "down"
  BY DEF Trace!Init
<1> QED
  BY <1>1, <1>2 DEF TracerInv, RequestFits, Phases, SetUp, Untouched, CleanedUp,
     Trace!CleanExit, Up

(* Types: what an action assigns.                                           *)
LEMMA CleaningTypes ==
    ASSUME Trace!TypeOK, NEW i \in 1 .. 4, Trace!CleanupFrom(i)
    PROVE  /\ call' \in Trace!MainCalls \cup Trace!CleanupCalls
           /\ stage' \in {"fill", "sysctl", "return"}
           /\ tracePlace' \in {"down", "up", "exited", "killed"}
  BY Cleaning DEF Trace!TypeOK, Goes, Trace!CleanupCalls

(* What a sysctl that succeeds has done, by the function that made it.      *)
SetsUp ==
    /\ call \in {"clear", "clearAll"} =>
          /\ enabled' = FALSE /\ buffers' = FALSE /\ valcheck' = FALSE /\ pidcheck' = FALSE
          /\ flagged' = flagged
    /\ call = "reinit" =>
          enabled' = FALSE /\ buffers' = TRUE /\ UNCHANGED <<valcheck, pidcheck, flagged>>
    /\ call = "pidOn" =>
          /\ flagged' = flagged \cup {pid} /\ pidcheck' = TRUE
          /\ UNCHANGED <<enabled, buffers, valcheck>>
    /\ call = "valcheck" =>
          valcheck' = TRUE /\ UNCHANGED <<enabled, buffers, pidcheck, flagged>>
    /\ call = "on" =>
          enabled' = TRUE /\ UNCHANGED <<buffers, valcheck, pidcheck, flagged>>
    /\ call = "off" =>
          enabled' = FALSE /\ UNCHANGED <<buffers, valcheck, pidcheck, flagged>>
    /\ call = "pidOff" =>
          /\ flagged' = flagged \ {pid}
          /\ UNCHANGED <<enabled, buffers, valcheck, pidcheck>>
    /\ call \in {"setbuf", "getbuf", "read"} =>
          UNCHANGED <<enabled, buffers, valcheck, pidcheck, flagged>>

LEMMA Performed ==
    ASSUME Trace!TypeOK, RequestFits, Up, stage = "sysctl", Trace!Perform
    PROVE  SetsUp
<1> USE DEF RequestFits
<1>1. pidcheck \in BOOLEAN BY DEF Trace!TypeOK
<1>2. CASE call \in {"clear", "clearAll"}
  BY <1>2 DEF Trace!Perform, SetsUp
<1>3. CASE call = "reinit"
  BY <1>3 DEF Trace!Perform, SetsUp
<1>4. CASE call = "pidOn"
  BY <1>1, <1>4 DEF Trace!Perform, SetsUp
<1>5. CASE call = "pidOff"
  BY <1>1, <1>5 DEF Trace!Perform, SetsUp
<1>6. CASE call = "valcheck"
  BY <1>6 DEF Trace!Perform, SetsUp
<1>7. CASE call = "on"
  BY <1>7 DEF Trace!Perform, SetsUp
<1>8. CASE call = "off"
  <2>1. mib.op = "KDENABLE" /\ mib.arg = 0 /\ (mib.arg = 1) = FALSE
    BY <1>8
  <2>2. enabled' = (mib.arg = 1) /\ UNCHANGED <<buffers, valcheck, pidcheck, flagged>>
    BY <2>1 DEF Trace!Perform
  <2> QED BY <1>8, <2>1, <2>2 DEF SetsUp
<1>9. CASE call \in {"setbuf", "getbuf", "read"}
  BY <1>9 DEF Trace!Perform, Trace!facility, SetsUp
<1>10. call \in Trace!MainCalls \cup Trace!CleanupCalls BY DEF Trace!TypeOK
<1> QED
  BY <1>2, <1>3, <1>4, <1>5, <1>6, <1>7, <1>8, <1>9, <1>10 DEF Trace!MainCalls, Trace!CleanupCalls

LEMMA SysctlStep ==
    ASSUME Trace!ConstantsAssumption, TracerInv, Trace!Sysctl
    PROVE  TracerInv'
<1>1. Up /\ Trace!TypeOK /\ RequestFits /\ stage = "sysctl"
  BY DEF TracerInv, Trace!Sysctl, Up
<1>2. /\ stage' = "return"
      /\ UNCHANGED <<tracePlace, call, mib, pid, set_remove_flag, exiting, trace_enabled,
                     blocked, found, runs>>
  BY DEF Trace!Sysctl, Trace!globals
<1>3. \/ ret' = 0 /\ SetsUp /\ lapses' = lapses \ {call}
      \/ /\ ret' = -1 /\ UNCHANGED <<enabled, buffers, valcheck, pidcheck, flagged>>
         /\ lapses' = lapses \cup ({call} \cap Trace!CleanupCalls)
  BY <1>1, Performed DEF Trace!Sysctl, Trace!facility
<1>4. Trace!TypeOK'
  <2>1. call \in Trace!MainCalls \cup Trace!CleanupCalls BY <1>1 DEF Trace!TypeOK
  <2>2. flagged' \subseteq Pids
    BY <1>1, <1>3, <2>1 DEF SetsUp, Phases, TracerInv, Trace!TypeOK, Trace!MainCalls,
       Trace!CleanupCalls
  <2>3. /\ enabled' \in BOOLEAN /\ buffers' \in BOOLEAN
        /\ valcheck' \in BOOLEAN /\ pidcheck' \in BOOLEAN
    <3>1. /\ enabled \in BOOLEAN /\ buffers \in BOOLEAN
          /\ valcheck \in BOOLEAN /\ pidcheck \in BOOLEAN
      BY <1>1 DEF Trace!TypeOK
    <3> QED BY ONLY <1>3, <2>1, <3>1 DEF SetsUp, Trace!MainCalls, Trace!CleanupCalls
  <2>4. ret' \in {-1, 0} /\ lapses' \subseteq Trace!CleanupCalls
    BY <1>1, <1>3 DEF Trace!TypeOK
  <2> QED BY ONLY <1>1, <1>2, <2>2, <2>3, <2>4 DEF Trace!TypeOK
<1>5. RequestFits' /\ Phases'
  BY <1>1, <1>2 DEF RequestFits, Phases, TracerInv, Up
<1>6. SetUp'
  <2>1. SetUp /\ Phases
    BY DEF TracerInv
  <2>2. CASE ret' = -1
    BY <1>1, <1>2, <1>3, <2>1, <2>2 DEF SetUp, PidsChosen, Up, Done
  <2>3. CASE ret' = 0
    <3>1. SetsUp
      BY <1>3, <2>3
    <3>2. call \in Trace!MainCalls \cup Trace!CleanupCalls BY <1>1 DEF Trace!TypeOK
    <3> QED
      BY ONLY <1>1, <1>2, <2>1, <2>3, <3>1, <3>2 DEF SetUp, SetsUp, PidsChosen, Phases, Up, Done,
         Trace!CleanupCalls, Trace!MainCalls
  <2> QED BY <1>3, <2>2, <2>3
<1>7. Untouched'
  BY <1>1, <1>2, <1>3 DEF Untouched, SetsUp, TracerInv, Up, Done
<1>8. CleanedUp'
  BY <1>1, <1>2, <1>3 DEF CleanedUp, SetsUp, TracerInv, Up, Done, Trace!CleanupCalls
<1>9. Trace!CleanExit'
  BY <1>1, <1>2 DEF Trace!CleanExit, Up
<1> QED BY <1>4, <1>5, <1>6, <1>7, <1>8, <1>9 DEF TracerInv

(* The rest of a function leaves the facility and the request alone.        *)
Settled ==
    /\ UNCHANGED <<enabled, buffers, valcheck, pidcheck, flagged>>
    /\ UNCHANGED <<ret, mib, pid, lapses, found, runs>>

LEMMA FlagTypes ==
    ASSUME Trace!TypeOK
    PROVE  /\ exiting \in BOOLEAN /\ trace_enabled \in BOOLEAN /\ set_remove_flag \in BOOLEAN
           /\ blocked \subseteq Signals /\ tracePlace \in {"down", "up", "exited", "killed"}
  BY DEF Trace!TypeOK

LEMMA SettledTypes ==
    ASSUME Trace!TypeOK, Settled,
           call' \in Trace!MainCalls \cup Trace!CleanupCalls,
           stage' \in {"fill", "sysctl", "return"},
           tracePlace' \in {"down", "up", "exited", "killed"},
           exiting' \in BOOLEAN, trace_enabled' \in BOOLEAN, set_remove_flag' \in BOOLEAN,
           blocked' \subseteq Signals
    PROVE  Trace!TypeOK'
  BY DEF Settled, Trace!TypeOK

(* The handler begins: at a signal, or on a failure that main() has found.  *)
LEMMA HandlerBegins ==
    ASSUME Trace!ConstantsAssumption, TracerInv, Up, Settled, Trace!ukdbg_exit_handler,
           blocked' \subseteq Signals, UNCHANGED trace_enabled,
           \/ UNCHANGED set_remove_flag
           \/ call = "clear" /\ ~Done("clear") /\ set_remove_flag' = FALSE
    PROVE  TracerInv'
<1>1. exiting' = TRUE /\ Trace!CleanupFrom(1)
  BY DEF Trace!ukdbg_exit_handler
<1>2. \/ trace_enabled /\ Goes("off")
      \/ pid # NoPid /\ Goes("pidOff")
      \/ set_remove_flag' /\ pid = NoPid /\ Goes("clearAll")
      \/ /\ ~trace_enabled /\ pid = NoPid /\ ~set_remove_flag'
         /\ tracePlace' = "exited" /\ UNCHANGED <<call, stage>>
  BY <1>1, Cleaning
<1>3. Trace!TypeOK'
  <2>1. /\ set_remove_flag' \in BOOLEAN /\ trace_enabled' \in BOOLEAN /\ exiting' \in BOOLEAN
    BY <1>1, FlagTypes DEF TracerInv
  <2> QED BY <1>1, <2>1, CleaningTypes, SettledTypes DEF TracerInv
<1>4. pid = NoPid => pid \notin flagged
  BY DEF TracerInv, Trace!TypeOK, Trace!ConstantsAssumption
<1>5. ~set_remove_flag' => <<enabled, buffers>> = found /\ ~trace_enabled
  BY DEF TracerInv, Untouched, Phases, Up, Done, Trace!CleanupCalls
<1> USE DEF Goes, Settled
<1>6. RequestFits' /\ Phases' /\ SetUp'
  BY <1>1, <1>2 DEF TracerInv, RequestFits, Phases, SetUp, PidsChosen, Up, Done, Trace!CleanupCalls
<1>7. Untouched' /\ CleanedUp'
  BY <1>1, <1>2, <1>4, <1>5 DEF TracerInv, Untouched, CleanedUp, Up, Done
<1>8. Trace!CleanExit'
  BY <1>2, <1>4, <1>5 DEF Trace!CleanExit, Up
<1> QED BY <1>3, <1>6, <1>7, <1>8 DEF TracerInv

(* main() goes on: the call has succeeded.                                  *)
LEMMA MainGoesOn ==
    ASSUME TracerInv, Up, Settled, stage = "return", ret = 0, ~exiting, NEW d, Goes(d),
           \/ call = "clear" /\ d = "setbuf"
           \/ call = "setbuf" /\ d = "reinit"
           \/ call = "reinit" /\ d = IF pid # NoPid THEN "pidOn" ELSE "valcheck"
           \/ call = "pidOn" /\ d = "valcheck"
           \/ call = "valcheck" /\ d = "on"
           \/ call = "on" /\ d = "getbuf"
           \/ call = "getbuf" /\ d = "read"
           \/ call = "read" /\ d = "getbuf",
           UNCHANGED <<exiting, set_remove_flag, blocked>>,
           UNCHANGED trace_enabled \/ trace_enabled' = (call = "on")
    PROVE  TracerInv'
<1> USE DEF Goes, Settled
<1>1. d \in Trace!MainCalls
  BY DEF Trace!MainCalls
<1>2. Trace!TypeOK'
  <2>1. /\ trace_enabled' \in BOOLEAN /\ exiting' \in BOOLEAN /\ set_remove_flag' \in BOOLEAN
        /\ blocked' \subseteq Signals
        /\ tracePlace' \in {"down", "up", "exited", "killed"}
    BY FlagTypes DEF TracerInv
  <2> QED BY <1>1, <2>1, SettledTypes DEF TracerInv
<1>3. RequestFits'
  BY DEF RequestFits
<1>4. Phases'
  <2>1. d \in {"pidOn", "pidOff"} => pid # NoPid
    OBVIOUS
  <2>2. trace_enabled' => d \in {"getbuf", "read"}
    BY DEF TracerInv, Phases, Up
  <2>3. d \notin Trace!CleanupCalls
    BY DEF Trace!CleanupCalls
  <2> QED BY <2>1, <2>2, <2>3 DEF Phases
<1>6. SetUp'
  BY DEF TracerInv, SetUp, PidsChosen, Up, Done
<1>5. Untouched' /\ CleanedUp' /\ Trace!CleanExit'
  BY DEF TracerInv, Untouched, CleanedUp, Trace!CleanExit, Up, Done
<1> QED BY <1>2, <1>3, <1>4, <1>5, <1>6 DEF TracerInv

(* The handler goes on, whether the cleaning call has succeeded or not.     *)
LEMMA HandlerGoesOn ==
    ASSUME Trace!ConstantsAssumption, TracerInv, Up, Settled, stage = "return", exiting,
           NEW i \in 2 .. 4, Trace!CleanupFrom(i),
           \/ i = 2 /\ call = "off" /\ trace_enabled' = FALSE
           \/ i = 3 /\ call = "pidOff" /\ UNCHANGED trace_enabled
           \/ i = 4 /\ call = "clearAll" /\ UNCHANGED trace_enabled,
           UNCHANGED <<exiting, set_remove_flag, blocked>>
    PROVE  TracerInv'
<1>2. \/ i = 2 /\ pid # NoPid /\ Goes("pidOff")
      \/ i <= 3 /\ set_remove_flag' /\ (i = 2 => pid = NoPid) /\ Goes("clearAll")
      \/ /\ (i = 2 => pid = NoPid) /\ (i <= 3 => ~set_remove_flag')
         /\ tracePlace' = "exited" /\ UNCHANGED <<call, stage>>
  BY Cleaning
<1>3. Trace!TypeOK'
  <2>1. /\ set_remove_flag' \in BOOLEAN /\ trace_enabled' \in BOOLEAN /\ exiting' \in BOOLEAN
        /\ blocked' \subseteq Signals
    BY FlagTypes DEF TracerInv
  <2> QED BY <2>1, CleaningTypes, SettledTypes DEF TracerInv
<1>4. pid = NoPid => pid \notin flagged
  BY DEF TracerInv, Trace!TypeOK, Trace!ConstantsAssumption
<1> USE DEF Goes, Settled
<1>6. RequestFits' /\ Phases' /\ SetUp'
  BY <1>2 DEF TracerInv, RequestFits, Phases, SetUp, PidsChosen, Up, Done, Trace!CleanupCalls
<1>7. Untouched' /\ CleanedUp'
  BY <1>2, <1>4 DEF TracerInv, Untouched, CleanedUp, Up, Done
<1>8. Trace!CleanExit'
  BY <1>2, <1>4 DEF TracerInv, CleanedUp, Untouched, Trace!CleanExit, Up
<1> QED BY <1>3, <1>6, <1>7, <1>8 DEF TracerInv

(* Every ukdbg_ function, when its sysctl has returned.                     *)
LEMMA Returning ==
    ASSUME TracerInv, NEW c, Trace!Returns(c)
    PROVE  Up /\ Settled /\ stage = "return" /\ call = c /\ blocked' \subseteq Signals
           /\ UNCHANGED blocked
  BY FlagTypes DEF TracerInv, Trace!Returns, Trace!facility, Settled, Up

LEMMA MainStep ==
    ASSUME Trace!ConstantsAssumption, TracerInv, Trace!Main
    PROVE  TracerInv'
<1> USE Returning
<1>0. /\ ret \in {-1, 0} /\ set_remove_flag \in BOOLEAN
      /\ Up => (exiting <=> call \in Trace!CleanupCalls)
  BY FlagTypes DEF TracerInv, Phases, Trace!TypeOK
<1>1. CASE Trace!ukdbg_clear("clear", Trace!Then("setbuf"))
  <2>1. /\ Trace!Returns("clear") /\ UNCHANGED trace_enabled
        /\ set_remove_flag' = (set_remove_flag /\ ~Trace!Fails)
        /\ IF Trace!Fails THEN Trace!ukdbg_exit ELSE Trace!Then("setbuf") /\ UNCHANGED exiting
    BY <1>1 DEF Trace!ukdbg_clear
  <2>2. ~exiting
    BY <1>0, <2>1 DEF Trace!CleanupCalls
  <2>3. CASE Trace!Fails
    <3>1. ret # 0 /\ ~Done("clear")
      BY <1>0, <2>3 DEF Trace!Fails, Done
    <3>2. set_remove_flag' = FALSE
      BY <2>1, <2>3
    <3>3. Trace!ukdbg_exit_handler
      BY <2>1, <2>3 DEF Trace!ukdbg_exit
    <3> QED BY <2>1, <3>1, <3>2, <3>3, HandlerBegins
  <2>4. CASE ~Trace!Fails
    <3>1. ret = 0
      BY <1>0, <2>2, <2>4 DEF Trace!Fails
    <3>2. UNCHANGED <<exiting, set_remove_flag, blocked>> /\ Trace!Then("setbuf")
      BY <1>0, <2>1, <2>4
    <3>3. Goes("setbuf")
      BY <3>2 DEF Goes, Trace!Then
    <3> QED BY <2>1, <2>2, <3>1, <3>2, <3>3, MainGoesOn
  <2> QED BY <2>3, <2>4
<1>2. ASSUME NEW c \in {"setbuf", "reinit", "valcheck", "getbuf", "read"}, NEW d,
             Trace!ukdbg_checked(c, Trace!Then(d)),
             <<c, d>> \in {<<"setbuf", "reinit">>, <<"valcheck", "on">>, <<"getbuf", "read">>,
                           <<"read", "getbuf">>,
                           <<"reinit", IF pid # NoPid THEN "pidOn" ELSE "valcheck">>}
      PROVE  TracerInv'
  <2>1. /\ Trace!Returns(c) /\ UNCHANGED <<set_remove_flag, trace_enabled>>
        /\ IF ret < 0 THEN Trace!ukdbg_exit ELSE Trace!Then(d) /\ UNCHANGED exiting
    BY <1>2 DEF Trace!ukdbg_checked, Trace!globals
  <2>2. ~exiting
    BY <1>0, <2>1 DEF Trace!CleanupCalls
  <2>3. CASE ret < 0
    BY <2>1, <2>3, HandlerBegins DEF Trace!ukdbg_exit
  <2>4. CASE ~(ret < 0)
    <3>1. ret = 0
      BY <1>0, <2>4
    <3>2. Goes(d) /\ UNCHANGED <<exiting, set_remove_flag, blocked>>
      BY <2>1, <2>4 DEF Goes, Trace!Then
    <3> QED BY <1>2, <2>1, <2>2, <3>1, <3>2, MainGoesOn
  <2> QED BY <2>3, <2>4
<1>3. CASE Trace!ukdbg_setpidcheck("pidOn", Trace!Then("valcheck"))
  <2>1. /\ Trace!Returns("pidOn") /\ UNCHANGED <<set_remove_flag, trace_enabled>>
        /\ IF Trace!Fails THEN Trace!ukdbg_exit ELSE Trace!Then("valcheck") /\ UNCHANGED exiting
    BY <1>3 DEF Trace!ukdbg_setpidcheck, Trace!globals
  <2>2. ~exiting
    BY <1>0, <2>1 DEF Trace!CleanupCalls
  <2>3. CASE Trace!Fails
    BY <2>1, <2>3, HandlerBegins DEF Trace!ukdbg_exit
  <2>4. CASE ~Trace!Fails
    <3>1. ret = 0
      BY <1>0, <2>2, <2>4 DEF Trace!Fails
    <3>2. Goes("valcheck") /\ UNCHANGED <<exiting, set_remove_flag, blocked>>
      BY <2>1, <2>4 DEF Goes, Trace!Then
    <3> QED BY <2>1, <2>2, <3>1, <3>2, MainGoesOn
  <2> QED BY <2>3, <2>4
<1>4. CASE Trace!ukdbg_setenable("on", Trace!Then("getbuf"))
  <2>1. /\ Trace!Returns("on") /\ UNCHANGED set_remove_flag
        /\ IF Trace!Fails
           THEN Trace!ukdbg_exit /\ UNCHANGED trace_enabled
           ELSE Trace!Then("getbuf") /\ trace_enabled' = ("on" = "on") /\ UNCHANGED exiting
    BY <1>4 DEF Trace!ukdbg_setenable
  <2>2. ~exiting
    BY <1>0, <2>1 DEF Trace!CleanupCalls
  <2>3. CASE Trace!Fails
    BY <2>1, <2>3, HandlerBegins DEF Trace!ukdbg_exit
  <2>4. CASE ~Trace!Fails
    <3>1. ret = 0
      BY <1>0, <2>2, <2>4 DEF Trace!Fails
    <3>2. Goes("getbuf") /\ UNCHANGED <<exiting, set_remove_flag, blocked>>
      BY <2>1, <2>4 DEF Goes, Trace!Then
    <3>3. call = "on" /\ trace_enabled' = (call = "on")
      BY <2>1, <2>4
    <3> QED BY <2>1, <2>2, <3>1, <3>2, <3>3, MainGoesOn
  <2> QED BY <2>3, <2>4
<1> QED BY <1>1, <1>2, <1>3, <1>4 DEF Trace!Main

LEMMA HandlerStep ==
    ASSUME Trace!ConstantsAssumption, TracerInv, Trace!Handler
    PROVE  TracerInv'
<1> USE Returning
<1>0. set_remove_flag \in BOOLEAN /\ (Up => (exiting <=> call \in Trace!CleanupCalls))
  BY FlagTypes DEF TracerInv, Phases
<1>1. ASSUME NEW c \in Trace!CleanupCalls, Trace!Returns(c)
      PROVE  exiting /\ ~Trace!Fails
  BY <1>0, <1>1 DEF Trace!Fails
<1>2. CASE Trace!ukdbg_setenable("off", Trace!CleanupFrom(2))
  <2>1. /\ Trace!Returns("off") /\ UNCHANGED set_remove_flag
        /\ ~Trace!Fails =>
              Trace!CleanupFrom(2) /\ trace_enabled' = ("off" = "on") /\ UNCHANGED exiting
    BY <1>2 DEF Trace!ukdbg_setenable
  <2>2. exiting /\ ~Trace!Fails
    BY <1>1, <2>1 DEF Trace!CleanupCalls
  <2>3. trace_enabled' = FALSE
    BY <2>1, <2>2
  <2>4. /\ Up /\ Settled /\ stage = "return" /\ call = "off" /\ 2 \in 2 .. 4
        /\ Trace!CleanupFrom(2) /\ UNCHANGED <<exiting, set_remove_flag, blocked>>
    BY <2>1, <2>2
  <2> QED BY <2>1, <2>2, <2>3, <2>4, HandlerGoesOn
<1>3. CASE Trace!ukdbg_setpidcheck("pidOff", Trace!CleanupFrom(3))
  <2>1. /\ Trace!Returns("pidOff") /\ UNCHANGED <<set_remove_flag, trace_enabled>>
        /\ ~Trace!Fails => Trace!CleanupFrom(3) /\ UNCHANGED exiting
    BY <1>3 DEF Trace!ukdbg_setpidcheck, Trace!globals
  <2>2. exiting /\ ~Trace!Fails
    BY <1>1, <2>1 DEF Trace!CleanupCalls
  <2>4. /\ Up /\ Settled /\ stage = "return" /\ call = "pidOff" /\ 3 \in 2 .. 4
        /\ Trace!CleanupFrom(3) /\ UNCHANGED <<exiting, set_remove_flag, blocked>>
    BY <2>1, <2>2
  <2> QED BY <2>1, <2>2, <2>4, HandlerGoesOn
<1>4. CASE Trace!ukdbg_clear("clearAll", Trace!CleanupFrom(4))
  <2>1. /\ Trace!Returns("clearAll") /\ UNCHANGED trace_enabled
        /\ set_remove_flag' = (set_remove_flag /\ ~Trace!Fails)
        /\ ~Trace!Fails => Trace!CleanupFrom(4) /\ UNCHANGED exiting
    BY <1>4 DEF Trace!ukdbg_clear
  <2>2. exiting /\ ~Trace!Fails
    BY <1>1, <2>1 DEF Trace!CleanupCalls
  <2>3. UNCHANGED set_remove_flag
    BY <1>0, <2>1, <2>2
  <2>4. /\ Up /\ Settled /\ stage = "return" /\ call = "clearAll" /\ 4 \in 2 .. 4
        /\ Trace!CleanupFrom(4) /\ UNCHANGED <<exiting, set_remove_flag, blocked>>
    BY <2>1, <2>2, <2>3
  <2> QED BY <2>1, <2>2, <2>3, <2>4, HandlerGoesOn
<1> QED BY <1>2, <1>3, <1>4 DEF Trace!Handler

LEMMA StartStep ==
    ASSUME Trace!ConstantsAssumption, TracerInv, Trace!Start
    PROVE  TracerInv'
<1> USE DEF Trace!Start, Trace!facility
<1>1. Trace!TypeOK'
  <2>1. /\ found' \in BOOLEAN \X BOOLEAN
        /\ runs' \in 0 .. MaxRuns
        /\ blocked' \subseteq Signals /\ lapses' \subseteq Trace!CleanupCalls
    BY DEF TracerInv, Trace!TypeOK, Trace!ConstantsAssumption
  <2>2. /\ exiting' \in BOOLEAN /\ trace_enabled' \in BOOLEAN /\ set_remove_flag' \in BOOLEAN
        /\ tracePlace' \in {"down", "up", "exited", "killed"}
        /\ stage' \in {"fill", "sysctl", "return"}
    OBVIOUS
  <2>4. call' \in Trace!MainCalls \cup Trace!CleanupCalls
    BY DEF Trace!MainCalls
  <2>3. UNCHANGED <<enabled, buffers, valcheck, pidcheck, flagged, ret, mib>>
        /\ pid' \in Pids \cup {NoPid} /\ Trace!TypeOK
    BY DEF TracerInv
  <2> QED BY ONLY <2>1, <2>2, <2>3, <2>4 DEF Trace!TypeOK
<1>2. RequestFits' /\ Phases' /\ SetUp' /\ Untouched' /\ CleanedUp' /\ Trace!CleanExit'
  BY DEF RequestFits, Phases, SetUp, Untouched, CleanedUp, Trace!CleanExit, Up, Done,
     Trace!CleanupCalls
<1> QED BY <1>1, <1>2 DEF TracerInv

LEMMA FillStep ==
    ASSUME TracerInv, Trace!Fill
    PROVE  TracerInv'
<1> USE DEF Trace!Fill
<1>1. /\ Up /\ stage = "fill" /\ stage' = "sysctl" /\ mib' = Trace!Request(call)
      /\ UNCHANGED <<enabled, buffers, valcheck, pidcheck, flagged, tracePlace, call, ret, pid,
                     set_remove_flag, exiting, trace_enabled, blocked, lapses, found, runs>>
  BY DEF Trace!facility, Trace!globals, Up
<1>2. call \in Trace!MainCalls \cup Trace!CleanupCalls /\ mib \in [op : Trace!Ops, arg : {0, 1, 16384}]
  BY DEF TracerInv, Trace!TypeOK
<1>3. mib' \in [op : Trace!Ops, arg : {0, 1, 16384}] /\ RequestFits'
  <2>1. ASSUME call \in {"clear", "clearAll", "reinit", "pidOn", "pidOff", "valcheck", "getbuf", "read"}
        PROVE  mib' \in [op : Trace!Ops, arg : {0, 1, 16384}] /\ RequestFits'
    <3>1. \A op : op \in Trace!Ops =>
             /\ [mib EXCEPT !.op = op] \in [op : Trace!Ops, arg : {0, 1, 16384}]
             /\ [mib EXCEPT !.op = op].op = op
      BY <1>2
    <3>2. /\ call \in {"clear", "clearAll"} => mib' = [mib EXCEPT !.op = "KDREMOVE"]
          /\ call = "reinit" => mib' = [mib EXCEPT !.op = "KDSETUP"]
          /\ call \in {"pidOn", "pidOff"} => mib' = [mib EXCEPT !.op = "KDPIDTR"]
          /\ call = "valcheck" => mib' = [mib EXCEPT !.op = "KDSETREG"]
          /\ call = "getbuf" => mib' = [mib EXCEPT !.op = "KDGETBUF"]
          /\ call = "read" => mib' = [mib EXCEPT !.op = "KDREADTR"]
      BY <1>1 DEF Trace!Request
    <3> HIDE DEF Trace!Fill
    <3> QED BY <1>1, <2>1, <3>1, <3>2 DEF Trace!Ops, RequestFits
  <2>2. CASE call = "on"
    BY <1>1, <2>2 DEF Trace!Request, Trace!Ops, RequestFits
  <2>3. CASE call = "off"
    BY <1>1, <2>3 DEF Trace!Request, Trace!Ops, RequestFits
  <2>4. CASE call = "setbuf"
    BY <1>1, <2>4 DEF Trace!Request, Trace!Ops, RequestFits
  <2> QED BY <1>2, <2>1, <2>2, <2>3, <2>4 DEF Trace!MainCalls, Trace!CleanupCalls
<1>4. Trace!TypeOK'
  BY <1>1, <1>3 DEF TracerInv, Trace!TypeOK
<1>5. Phases' /\ SetUp' /\ Untouched' /\ CleanedUp' /\ Trace!CleanExit'
  BY <1>1 DEF TracerInv, Phases, SetUp, PidsChosen, Untouched, CleanedUp, Trace!CleanExit, Up, Done
<1> QED BY <1>3, <1>4, <1>5 DEF TracerInv

LEMMA TracerStep ==
    ASSUME Trace!ConstantsAssumption, TracerInv, [Trace!Next]_(Trace!vars)
    PROVE  TracerInv'
<1>1. ASSUME NEW s \in Signals, Trace!Signal(s) PROVE TracerInv'
  <2>1. /\ Up /\ blocked' \subseteq Signals /\ Trace!ukdbg_exit_handler
        /\ UNCHANGED <<set_remove_flag, trace_enabled>> /\ Settled
    BY <1>1, FlagTypes DEF TracerInv, Trace!Signal, Trace!facility, Trace!globals, Settled, Up
  <2> QED BY <2>1, HandlerBegins
<1>2. CASE Trace!Killed
  <2>1. Trace!TypeOK'
    BY <1>2 DEF Trace!Killed, Trace!facility, Trace!globals, TracerInv, Trace!TypeOK
  <2> QED
    BY <1>2, <2>1 DEF Trace!Killed, Trace!facility, Trace!globals, TracerInv, RequestFits, Phases,
       SetUp, Untouched, CleanedUp, Trace!CleanExit, Up, Done
<1>3. CASE UNCHANGED Trace!vars
  <2> USE <1>3 DEF Trace!vars, Trace!facility, Trace!globals
  <2>1. Trace!TypeOK'
    BY DEF TracerInv, Trace!TypeOK
  <2>2. RequestFits' /\ Phases' /\ SetUp'
    BY DEF TracerInv, RequestFits, Phases, SetUp, PidsChosen, Up, Done
  <2>3. Untouched' /\ CleanedUp' /\ Trace!CleanExit'
    BY DEF TracerInv, Untouched, CleanedUp, Trace!CleanExit, Up, Done
  <2> QED BY <2>1, <2>2, <2>3 DEF TracerInv
<1> QED
  BY <1>1, <1>2, <1>3, StartStep, FillStep, SysctlStep, MainStep, HandlerStep
     DEF Trace!Next, Trace!Step, Trace!Rest

\* Wherever signals strike and whichever sysctl fails, a run of the kdebug tracer
\* (6-29/kdebug.c) that exits has undone what it did as far as its cleaning
\* calls succeeded, and its loop reads a trace that is set up as asked: for
\* any processes, signals and number of runs.
THEOREM TracerCleansUp ==
    ASSUME Trace!ConstantsAssumption
    PROVE  Trace!Spec => []CleanRuns
<1>1. Trace!Init => TracerInv
  BY TracerInit
<1>2. TracerInv /\ [Trace!Next]_(Trace!vars) => TracerInv'
  BY TracerStep
<1>3. TracerInv => CleanRuns
  <2> SUFFICES ASSUME TracerInv PROVE CleanRuns
    OBVIOUS
  <2>1. pidcheck \in BOOLEAN /\ Trace!TypeOK
    BY DEF TracerInv, Trace!TypeOK
  <2>2. Trace!Configured
    BY <2>1 DEF TracerInv, SetUp, PidsChosen, Trace!Configured, Up
  <2> QED BY <2>1, <2>2 DEF TracerInv, CleanRuns, Trace!CleanRuns
<1> QED BY <1>1, <1>2, <1>3, PTL DEF Trace!Spec

-----------------------------------------------------------------------------
(* The shared page (8-17, 8-18, 8-19).  The server and the messages are     *)
(* those of MachServer, whose theorems carry over.                          *)
Exchange == INSTANCE MachServerProofs WITH
    Data <- {"request"}, Answers <- {Shm!Handle},
    Answer <- [d \in {"request"} |-> Shm!Handle], NoAnswer <- "none",
    Arguments <- {}     \* of the factorial service only

MachConstants ==
    NoOne \notin Clients /\ QLimit \in Nat \ {0} /\ MayDie \in BOOLEAN

(* The server's part of a step is a step of MachServer.                     *)
LEMMA SameServer ==
    /\ Shm!Server!Init <=> Exchange!Init
    /\ Shm!Server!TypeOK <=> Exchange!TypeOK
    /\ Shm!Server!ServerStep <=> Exchange!ServerStep
<1> USE DEF Shm!Server!Nothing, Exchange!Nothing, Shm!Server!Requests, Exchange!Requests
<1>1. Shm!Server!Init <=> Exchange!Init
  BY DEF Shm!Server!Init, Exchange!Init
<1>2. Shm!Server!TypeOK <=> Exchange!TypeOK
  BY DEF Shm!Server!TypeOK, Exchange!TypeOK
<1>3. Shm!Server!ServerStep <=> Exchange!ServerStep
  BY DEF Shm!Server!ServerStep, Exchange!ServerStep, Shm!Server!CreateService, Exchange!CreateService,
     Shm!Server!CheckIn, Exchange!CheckIn, Shm!Server!Receive, Exchange!Receive,
     Shm!Server!Reply, Exchange!Reply, Shm!Server!ServerExits, Exchange!ServerExits,
     Shm!Server!PortAlive, Exchange!PortAlive
<1> QED BY <1>1, <1>2, <1>3

LEMMA SameClients ==
    ASSUME NEW c \in Clients
    PROVE  /\ Shm!Server!LookUp(c) <=> Exchange!LookUp(c)
           /\ Shm!Server!Send(c) <=> Exchange!Send(c)
           /\ Shm!Server!Take(c) <=> Exchange!Take(c)
           /\ Shm!Server!Killed(c) <=> Exchange!Killed(c)
  BY DEF Shm!Server!LookUp, Exchange!LookUp, Shm!Server!Send, Exchange!Send,
     Shm!Server!Take, Exchange!Take, Shm!Server!Killed, Exchange!Killed,
     Shm!Server!Go, Exchange!Go, Shm!Server!serverVars, Exchange!serverVars
(* Every step with the page is a step of the server's clients, or none.     *)
LEMMA ServerSteps == [Shm!Next]_(Shm!vars) => [Exchange!Next]_(Exchange!vars)
<1> SUFFICES ASSUME [Shm!Next]_(Shm!vars) PROVE [Exchange!Next]_(Exchange!vars)
  OBVIOUS
<1>0. UNCHANGED Shm!serverVars => UNCHANGED Exchange!vars
  BY DEF Shm!serverVars, Exchange!vars, Exchange!serverVars
<1>1. CASE Shm!Serve
  BY <1>1, SameServer DEF Shm!Serve, Exchange!Next
<1>2. ASSUME NEW c \in Clients, Shm!Request(c) \/ Shm!Map(c) \/ Shm!Killed(c)
      PROVE  [Exchange!Next]_(Exchange!vars)
  BY <1>0, <1>2, SameClients DEF Shm!Request, Shm!Map, Shm!Killed, Exchange!Next, Exchange!ClientStep
<1>3. ASSUME NEW c \in Clients, Shm!UsePage(c) PROVE UNCHANGED Shm!serverVars
  BY <1>3 DEF Shm!UsePage, Shm!PrintChar, Shm!PrintBeyond, Shm!CopyChar, Shm!Terminate, Shm!serverVars
<1>4. CASE UNCHANGED Shm!vars
  BY <1>0, <1>4 DEF Shm!vars
<1> QED BY <1>0, <1>1, <1>2, <1>3, <1>4 DEF Shm!Next

(* What the clients see of the page: each prints from its beginning, one    *)
(* character after the other.                                               *)
Characters == {NUL} \cup UNION {{w[j] : j \in DOMAIN w} : w \in Texts \cup {Hello}}
PageTypes ==
    /\ memory \in [1 .. Size -> Characters]
    /\ argument \in [Clients -> Texts \cup {Shm!None}]
    /\ use \in [Clients -> {"none", "print", "left", "copy", "end", "killed"}]
    /\ pos \in [Clients -> 1 .. Size + 1]
    /\ seen \in [Clients -> Seq(Characters)]
    /\ \A c \in Clients : use[c] # "none" => result[c] = Shm!Handle
Printing ==
    \A c \in Clients :
       /\ client[c] # "done" => use[c] = "none"
       /\ use[c] = "none" => pos[c] = 1 /\ Len(seen[c]) = 0
       /\ use[c] = "print" => pos[c] = Len(seen[c]) + 1
       /\ \A k \in 1 .. Len(seen[c]) : seen[c][k] \in Shm!Written(k)
PageWritten == \A k \in 1 .. Size : memory[k] \in Shm!Written(k) \cup {NUL}
PageInv == Exchange!TypeOK /\ PageTypes /\ Printing /\ PageWritten /\ Shm!PageEnd

LEMMA Chars ==
    ASSUME Shm!TextsAssumption, NEW w \in Texts \cup {Hello, Shm!None}, NEW k \in Nat \ {0}
    PROVE  /\ Shm!Char(w, k) \in Characters
           /\ Len(w) < k => Shm!Char(w, k) = NUL
<1>1. CASE w = Shm!None
  BY <1>1 DEF Shm!None, Shm!Char, Characters
<1>2. CASE w \in Texts \cup {Hello}
  <2>1. Len(w) \in Nat /\ DOMAIN w = 1 .. Len(w)
    BY <1>2 DEF Shm!TextsAssumption
  <2>2. CASE k <= Len(w)
    BY <1>2, <2>1, <2>2 DEF Shm!Char, Characters
  <2>3. CASE Len(w) < k
    BY <2>1, <2>3 DEF Shm!Char, Characters
  <2> QED BY <2>1, <2>2, <2>3
<1> QED BY <1>1, <1>2

LEMMA Lengths ==
    ASSUME Shm!TextsAssumption, NEW w \in Texts \cup {Hello, Shm!None}
    PROVE  Len(w) \in Nat
  BY DEF Shm!TextsAssumption, Shm!None

LEMMA PageInit ==
    ASSUME Shm!TextsAssumption, MachConstants, Shm!Init
    PROVE  PageInv
<1> USE DEF Shm!Init
<1>1. Exchange!TypeOK
  BY SameServer, Exchange!TypeInit DEF MachConstants, Shm!Handle
<1>2. Size \in Nat \ {0} /\ Len(Hello) < Size
  BY DEF Shm!TextsAssumption
<1>3. PageTypes
  <2>1. memory \in [1 .. Size -> Characters]
    BY <1>2, Chars
  <2>2. seen \in [Clients -> Seq(Characters)] /\ pos \in [Clients -> 1 .. Size + 1]
    BY <1>2
  <2>3. argument \in [Clients -> Texts \cup {Shm!None}]
        /\ use \in [Clients -> {"none", "print", "left", "copy", "end", "killed"}]
        /\ \A c \in Clients : use[c] = "none"
    OBVIOUS
  <2> QED BY ONLY <2>1, <2>2, <2>3 DEF PageTypes
<1>4. Printing /\ PageWritten
  BY <1>2 DEF Printing, PageWritten, Shm!Written, Shm!Writers
<1>5. Shm!PageEnd
  BY <1>2, Chars DEF Shm!PageEnd
<1> QED BY <1>1, <1>3, <1>4, <1>5 DEF PageInv

(* What has been written stays written.                                     *)
LEMMA WrittenGrows ==
    ASSUME PageTypes, UNCHANGED argument,
           \A c \in Clients : c \in Shm!Writers => c \in Shm!Writers'
    PROVE  \A k : Shm!Written(k) \subseteq Shm!Written(k)'
  BY DEF Shm!Written, Shm!Writers

(* Readers move as they like, as long as who runs off the page found it     *)
(* without an end, and no writer is disturbed.                              *)
LEMMA EndKept ==
    ASSUME Shm!PageEnd, UNCHANGED <<memory, argument>>, Size \in Nat \ {0},
           Shm!Overfull \subseteq Shm!Overfull', Shm!Unterminated \subseteq Shm!Unterminated',
           \A c \in Clients : use'[c] = "print" /\ pos'[c] > Size =>
              (use[c] = "print" /\ pos[c] > Size) \/ memory[Size] # NUL
    PROVE  Shm!PageEnd'
<1>1. memory[Size] # NUL => Shm!Unterminated # {} /\ Shm!Overfull # {}
  BY DEF Shm!PageEnd, Shm!Unterminated
<1>2. \A c \in Clients : use'[c] = "print" /\ pos'[c] > Size => Shm!Overfull # {}
  BY <1>1 DEF Shm!PageEnd
<1> QED BY <1>1, <1>2 DEF Shm!PageEnd


(* Steps of the server and of clients that wait for it.                     *)
LEMMA PageKept ==
    ASSUME PageTypes, Printing, PageWritten, Shm!PageEnd, UNCHANGED Shm!memoryVars, UNCHANGED result,
           \A c \in Clients : client[c] = "done" => client'[c] = "done"
    PROVE  PageTypes' /\ Printing' /\ PageWritten' /\ Shm!PageEnd'
<1> USE DEF Shm!memoryVars
<1>1. PageTypes'
  BY DEF PageTypes
<1>2. Printing'
  BY DEF Printing, Shm!Written, Shm!Writers
<1>3. PageWritten' /\ Shm!PageEnd'
  BY DEF PageWritten, Shm!PageEnd, Shm!Written, Shm!Writers, Shm!Overfull, Shm!Unterminated
<1> QED BY <1>1, <1>2, <1>3

(* The page is mapped by a client that has not used it yet.                 *)
LEMMA MapStep ==
    ASSUME Exchange!TypeOK, PageTypes, Printing, PageWritten, Shm!PageEnd, Size \in Nat \ {0},
           NEW c \in Clients, Shm!Map(c)
    PROVE  PageTypes' /\ Printing' /\ PageWritten' /\ Shm!PageEnd'
<1>1. /\ inbox[c] # "none" /\ client[c] = "wait"
      /\ client' = [client EXCEPT ![c] = "done"] /\ result' = [result EXCEPT ![c] = inbox[c]]
  BY SameClients DEF Shm!Map, Exchange!Take, Exchange!Go
<1>2. /\ inbox[c] = Shm!Handle /\ client \in [Clients -> {"begin", "send", "wait", "done", "failed", "killed"}]
      /\ result \in [Clients -> {Shm!Handle, "none"}]
  BY <1>1 DEF Exchange!TypeOK
<1>3. /\ use[c] = "none" /\ pos[c] = 1 /\ Len(seen[c]) = 0
  BY <1>1 DEF Printing
<1>4. PICK w \in {"print", "left"} : use' = [use EXCEPT ![c] = w]
  BY DEF Shm!Map
<1>5. UNCHANGED <<memory, argument, pos, seen>>
  BY DEF Shm!Map
<1>6. PageTypes'
  BY <1>1, <1>2, <1>4, <1>5 DEF PageTypes
<1>7. \A k : Shm!Written(k) \subseteq Shm!Written(k)'
  BY <1>3, <1>4, <1>5, WrittenGrows DEF PageTypes, Shm!Writers
<1>8. Printing'
  BY <1>1, <1>2, <1>3, <1>4, <1>5, <1>7 DEF Printing, PageTypes
<1>9. PageWritten'
  BY <1>5, <1>7 DEF PageWritten
<1>10. Shm!PageEnd'
  <2>1. Shm!Overfull \subseteq Shm!Overfull' /\ Shm!Unterminated \subseteq Shm!Unterminated'
    BY <1>3, <1>4, <1>5 DEF Shm!Overfull, Shm!Unterminated, Shm!Writers, PageTypes
  <2>2. \A d \in Clients : use'[d] = "print" /\ pos'[d] > Size => use[d] = "print" /\ pos[d] > Size
    BY <1>3, <1>4, <1>5 DEF PageTypes
  <2> QED BY <1>5, <2>1, <2>2, EndKept
<1> QED BY <1>6, <1>8, <1>9, <1>10

(* The string ends, at a NUL in the page, or behind it, or with the client. *)
LEMMA PrintEnds ==
    ASSUME PageTypes, Printing, PageWritten, Shm!PageEnd, Size \in Nat \ {0}, NEW c \in Clients,
           use[c] = "print", UNCHANGED <<memory, argument, seen, client, result>>,
           NEW w \in {"left", "copy"}, use' = [use EXCEPT ![c] = w],
           pos' = pos \/ pos' = [pos EXCEPT ![c] = 1]
    PROVE  PageTypes' /\ Printing' /\ PageWritten' /\ Shm!PageEnd'
<1>1. PageTypes'
  <2>1. use' \in [Clients -> {"none", "print", "left", "copy", "end", "killed"}]
    BY DEF PageTypes
  <2>2. pos' \in [Clients -> 1 .. Size + 1]
    <3>1. CASE pos' = pos
      BY <3>1 DEF PageTypes
    <3>2. CASE pos' = [pos EXCEPT ![c] = 1]
      <4>1. 1 \in 1 .. Size + 1 /\ pos \in [Clients -> 1 .. Size + 1]
        BY DEF PageTypes
      <4> QED BY <4>1, <3>2
    <3> QED BY <3>1, <3>2
  <2>3. \A d \in Clients : use'[d] # "none" => result'[d] = Shm!Handle
    BY DEF PageTypes
  <2> QED BY <2>1, <2>2, <2>3 DEF PageTypes
<1>2. \A k : Shm!Written(k) \subseteq Shm!Written(k)'
  BY WrittenGrows DEF PageTypes, Shm!Writers
<1>3. Printing' /\ PageWritten'
  BY <1>2 DEF Printing, PageWritten, PageTypes
<1>4. Shm!PageEnd'
  <2>1. Shm!Overfull \subseteq Shm!Overfull' /\ Shm!Unterminated \subseteq Shm!Unterminated'
    BY DEF Shm!Overfull, Shm!Unterminated, Shm!Writers, PageTypes
  <2>2. \A d \in Clients : use'[d] = "print" /\ pos'[d] > Size => use[d] = "print" /\ pos[d] > Size
    BY DEF PageTypes
  <2> QED BY <2>1, <2>2, EndKept
<1> QED BY <1>1, <1>3, <1>4

(* A character is printed; the first NUL ends the string.                   *)
LEMMA PrintStep ==
    ASSUME PageTypes, Printing, PageWritten, Shm!PageEnd, Size \in Nat \ {0}, NEW c \in Clients, Shm!PrintChar(c)
    PROVE  PageTypes' /\ Printing' /\ PageWritten' /\ Shm!PageEnd'
<1>1. /\ use[c] = "print" /\ pos[c] \in 1 .. Size /\ pos[c] = Len(seen[c]) + 1
      /\ memory[pos[c]] \in Characters /\ seen[c] \in Seq(Characters)
      /\ memory[pos[c]] \in Shm!Written(pos[c]) \cup {NUL}
  BY DEF Shm!PrintChar, PageTypes, Printing, PageWritten
<1>2. UNCHANGED <<memory, argument, client, result>>
  BY DEF Shm!PrintChar, Shm!serverVars
<1>3. CASE memory[pos[c]] = NUL
  BY <1>1, <1>2, <1>3, PrintEnds DEF Shm!PrintChar, Shm!Printed
<1>4. CASE memory[pos[c]] # NUL
  <2>1. /\ pos' = [pos EXCEPT ![c] = @ + 1] /\ UNCHANGED use
        /\ seen' = [seen EXCEPT ![c] = Append(@, memory[pos[c]])]
    BY <1>4 DEF Shm!PrintChar
  <2>2. /\ Len(seen'[c]) = Len(seen[c]) + 1 /\ seen'[c][pos[c]] = memory[pos[c]]
        /\ \A k \in 1 .. Len(seen[c]) : seen'[c][k] = seen[c][k]
        /\ seen'[c] \in Seq(Characters)
    BY <1>1, <2>1 DEF PageTypes
  <2>3. PageTypes'
    BY <1>1, <1>2, <2>1, <2>2 DEF PageTypes
  <2>4. \A k : Shm!Written(k) \subseteq Shm!Written(k)'
    BY <1>2, <2>1, WrittenGrows DEF Shm!Writers
  <2>5. \A k \in 1 .. Len(seen'[c]) : seen'[c][k] \in Shm!Written(k)'
    <3> SUFFICES ASSUME NEW k \in 1 .. Len(seen'[c]) PROVE seen'[c][k] \in Shm!Written(k)
      BY <2>4
    <3>1. k = pos[c] \/ k \in 1 .. Len(seen[c])
      BY <1>1, <2>2
    <3> QED BY <1>1, <1>4, <2>2, <3>1 DEF Printing
  <2>6. Printing'
    <3> SUFFICES ASSUME NEW d \in Clients
                 PROVE  /\ client'[d] # "done" => use'[d] = "none"
                        /\ use'[d] = "none" => pos'[d] = 1 /\ Len(seen'[d]) = 0
                        /\ use'[d] = "print" => pos'[d] = Len(seen'[d]) + 1
                        /\ \A k \in 1 .. Len(seen'[d]) : seen'[d][k] \in Shm!Written(k)'
      BY DEF Printing
    <3>1. CASE d = c
      BY <1>1, <1>2, <2>1, <2>2, <2>5, <3>1 DEF Printing, PageTypes
    <3>2. CASE d # c
      BY <1>2, <2>1, <2>4, <3>2 DEF Printing, PageTypes
    <3> QED BY <3>1, <3>2
  <2>7. PageWritten'
    BY <1>2, <2>4 DEF PageWritten
  <2>8. Shm!PageEnd'
    <3>1. Shm!Overfull \subseteq Shm!Overfull' /\ Shm!Unterminated \subseteq Shm!Unterminated'
      BY <1>1, <1>2, <2>1 DEF Shm!Overfull, Shm!Unterminated, Shm!Writers, PageTypes
    <3>2. \A d \in Clients : use'[d] = "print" /\ pos'[d] > Size =>
             (use[d] = "print" /\ pos[d] > Size) \/ memory[Size] # NUL
      BY <1>1, <1>4, <2>1 DEF PageTypes
    <3> QED BY <1>2, <3>1, <3>2, EndKept
  <2> QED BY <2>3, <2>6, <2>7, <2>8
<1> QED BY <1>3, <1>4

(* A character is copied: it belongs to the text of this client.            *)
LEMMA CopyStep ==
    ASSUME Shm!TextsAssumption, PageTypes, Printing, PageWritten, Shm!PageEnd, NEW c \in Clients, Shm!CopyChar(c)
    PROVE  PageTypes' /\ Printing' /\ PageWritten' /\ Shm!PageEnd'
<1>1. /\ use[c] = "copy" /\ pos[c] \in 1 .. Size /\ Size \in Nat \ {0}
      /\ memory' = [memory EXCEPT ![pos[c]] = Shm!Char(argument[c], pos[c])]
      /\ pos' = [pos EXCEPT ![c] = @ + 1]
      /\ UNCHANGED <<argument, use, seen, client, result>>
  BY DEF Shm!CopyChar, PageTypes, Shm!serverVars, Shm!TextsAssumption
<1>2. argument[c] \in Texts \cup {Hello, Shm!None} /\ pos[c] \in Nat \ {0}
  BY <1>1 DEF PageTypes
<1>3. PageTypes'
  <2>1. memory' \in [1 .. Size -> Characters]
    BY <1>1, <1>2, Chars DEF PageTypes
  <2> QED BY <1>1, <2>1 DEF PageTypes
<1>4. Printing'
  BY <1>1 DEF Printing, PageTypes, Shm!Written, Shm!Writers
<1>5. PageWritten'
  BY <1>1 DEF PageWritten, PageTypes, Shm!Written, Shm!Writers
<1>6. Shm!PageEnd'
  <2>1. Shm!Overfull \subseteq Shm!Overfull' /\ Shm!Unterminated \subseteq Shm!Unterminated'
    BY <1>1 DEF Shm!Overfull, Shm!Unterminated, Shm!Writers, PageTypes
  <2>2. \A d \in Clients : use'[d] = "print" /\ pos'[d] > Size => Shm!Overfull' # {}
    BY <1>1, <2>1 DEF Shm!PageEnd, PageTypes
  <2>3. CASE pos[c] # Size \/ Shm!Char(argument[c], Size) = NUL
    <3>1. memory'[Size] = memory[Size] \/ memory'[Size] = NUL
      BY <1>1, <2>3 DEF PageTypes
    <3> QED BY <2>1, <2>2, <3>1 DEF Shm!PageEnd
  <2>4. CASE pos[c] = Size /\ Shm!Char(argument[c], Size) # NUL
    <3>1. Len(argument[c]) >= Size
      BY <1>1, <1>2, <2>4, Chars, Lengths
    <3>2. c \in Shm!Unterminated'
      BY <1>1, <2>4, <3>1 DEF Shm!Overfull, Shm!Unterminated, Shm!Writers, PageTypes
    <3> QED BY <2>2, <3>2 DEF Shm!PageEnd
  <2> QED BY <2>3, <2>4
<1> QED BY <1>3, <1>4, <1>5, <1>6

(* The last byte is cleared, or the client is killed while it copies.       *)
LEMMA UseEnds ==
    ASSUME PageTypes, Printing, PageWritten, Shm!PageEnd, Size \in Nat \ {0}, NEW c \in Clients,
           use[c] = "copy", NEW w \in {"end", "killed"}, use' = [use EXCEPT ![c] = w],
           UNCHANGED Shm!serverVars, UNCHANGED <<argument, pos, seen>>,
           \/ w = "end" /\ memory' = [memory EXCEPT ![Size] = NUL]
           \/ w = "killed" /\ memory' = memory
    PROVE  PageTypes' /\ Printing' /\ PageWritten' /\ Shm!PageEnd'
<1> USE DEF Shm!serverVars
<1>1. PageTypes'
  <2>1. memory' \in [1 .. Size -> Characters]
    BY DEF PageTypes, Characters
  <2> QED BY <2>1 DEF PageTypes
<1>2. \A k : Shm!Written(k) \subseteq Shm!Written(k)'
  BY WrittenGrows DEF PageTypes, Shm!Writers
<1>3. Printing'
  BY <1>2 DEF Printing, PageTypes
<1>4. PageWritten'
  BY <1>2 DEF PageWritten, PageTypes
<1>5. Shm!PageEnd'
  <2>1. Shm!Overfull \subseteq Shm!Overfull'
    BY DEF Shm!Overfull, Shm!Writers, PageTypes
  <2>2. \A d \in Clients : use'[d] = "print" /\ pos'[d] > Size => Shm!Overfull' # {}
    BY <2>1 DEF Shm!PageEnd, PageTypes
  <2>3. CASE w = "end"
    <3>1. memory'[Size] = NUL
      BY <2>3 DEF PageTypes
    <3> QED BY <2>2, <3>1 DEF Shm!PageEnd
  <2>4. CASE w = "killed"
    <3>1. Shm!Unterminated \subseteq Shm!Unterminated' /\ UNCHANGED memory
      BY <2>1, <2>4 DEF Shm!Unterminated, PageTypes
    <3> QED BY <2>2, <3>1 DEF Shm!PageEnd
  <2> QED BY <2>3, <2>4
<1> QED BY <1>1, <1>3, <1>4, <1>5

LEMMA PageStep ==
    ASSUME Shm!TextsAssumption, MachConstants, PageInv, [Shm!Next]_(Shm!vars)
    PROVE  PageInv'
<1>0. /\ Size \in Nat \ {0} /\ Exchange!TypeOK /\ PageTypes /\ Printing /\ PageWritten /\ Shm!PageEnd
      /\ client \in [Clients -> {"begin", "send", "wait", "done", "failed", "killed"}]
  BY DEF Shm!TextsAssumption, PageInv, Exchange!TypeOK
<1> DEFINE Kept == PageTypes' /\ Printing' /\ PageWritten' /\ Shm!PageEnd'
<1>1. Exchange!TypeOK'
  BY ServerSteps, Exchange!TypeStep DEF PageInv, MachConstants, Shm!Handle
<1>2. ASSUME Shm!Serve PROVE Kept
  <2>1. UNCHANGED client /\ UNCHANGED result /\ UNCHANGED Shm!memoryVars
    BY <1>2, SameServer DEF Shm!Serve, Exchange!ServerStep, Exchange!CreateService, Exchange!CheckIn,
       Exchange!Receive, Exchange!Reply
  <2>2. \A d \in Clients : client[d] = "done" => client'[d] = "done"
    BY <2>1
  <2> QED BY <1>0, <2>1, <2>2, PageKept
<1>3. ASSUME NEW c \in Clients, Shm!Request(c) PROVE Kept
  <2>1. /\ UNCHANGED result /\ UNCHANGED Shm!memoryVars
        /\ \A d \in Clients : client[d] = "done" => client'[d] = "done"
    BY <1>0, <1>3, SameClients DEF Shm!Request, Exchange!LookUp, Exchange!Send, Exchange!Go
  <2> QED BY <1>0, <2>1, PageKept
<1>4. ASSUME NEW c \in Clients, Shm!Map(c) PROVE Kept
  BY <1>0, <1>4, MapStep
<1>5. ASSUME NEW c \in Clients, Shm!UsePage(c) PROVE Kept
  <2>1. CASE Shm!Terminate(c)
    BY <1>0, <2>1, UseEnds DEF Shm!Terminate
  <2>2. CASE Shm!PrintBeyond(c)
    <3>1. UNCHANGED <<memory, argument, seen, client, result>> /\ use[c] = "print"
      BY <2>2 DEF Shm!PrintBeyond, Shm!serverVars
    <3>2. PICK w \in {"left", "copy"} : use' = [use EXCEPT ![c] = w]
      BY <2>2 DEF Shm!PrintBeyond, Shm!Printed
    <3>3. pos' = pos \/ pos' = [pos EXCEPT ![c] = 1]
      BY <2>2 DEF Shm!PrintBeyond, Shm!Printed
    <3> QED BY <1>0, <3>1, <3>2, <3>3, PrintEnds
  <2> QED BY <1>0, <1>5, <2>1, <2>2, PrintStep, CopyStep DEF Shm!UsePage
<1>6. ASSUME NEW c \in Clients, Shm!Killed(c) PROVE Kept
  <2>1. CASE Shm!Server!Killed(c) /\ UNCHANGED Shm!memoryVars
    <3>1. UNCHANGED result /\ \A d \in Clients : client[d] = "done" => client'[d] = "done"
      BY <1>0, <2>1, SameClients DEF Exchange!Killed
    <3> QED BY <1>0, <2>1, <3>1, PageKept
  <2>2. CASE ~(Shm!Server!Killed(c) /\ UNCHANGED Shm!memoryVars)
    <3>1. /\ use[c] \in {"print", "copy"} /\ UNCHANGED Shm!serverVars
          /\ use' = [use EXCEPT ![c] = IF @ = "print" THEN "left" ELSE "killed"]
          /\ UNCHANGED <<memory, argument, pos, seen>>
      BY <1>6, <2>2 DEF Shm!Killed
    <3>2. CASE use[c] = "print"
      <4>1. use' = [use EXCEPT ![c] = "left"] /\ UNCHANGED <<client, result>>
        BY <3>1, <3>2 DEF Shm!serverVars
      <4> QED BY <1>0, <3>1, <3>2, <4>1, PrintEnds
    <3>3. CASE use[c] = "copy"
      <4>1. use' = [use EXCEPT ![c] = "killed"]
        BY <3>1, <3>3
      <4> QED BY <1>0, <3>1, <3>3, <4>1, UseEnds
    <3> QED BY <3>1, <3>2, <3>3
  <2> QED BY <2>1, <2>2
<1>7. ASSUME UNCHANGED Shm!vars PROVE Kept
  <2>1. UNCHANGED client /\ UNCHANGED result /\ UNCHANGED Shm!memoryVars
    BY <1>7 DEF Shm!vars, Shm!serverVars
  <2>2. \A d \in Clients : client[d] = "done" => client'[d] = "done"
    BY <2>1
  <2> QED BY <1>0, <2>1, <2>2, PageKept
<1> HIDE DEF Kept
<1>8. Kept
  BY <1>2, <1>3, <1>4, <1>5, <1>6, <1>7 DEF Shm!Next
<1> QED BY <1>1, <1>8 DEF PageInv, Kept

-----------------------------------------------------------------------------
\* The server of the shared page (8-19/shm_ipc_server.c) is a Mach server like
\* the others, whatever its clients do with the page.
THEOREM PageServerIsMachServer ==
    ASSUME MachConstants
    PROVE  Shm!Spec => Exchange!Spec
<1>1. Shm!Init => Exchange!Init
  BY SameServer DEF Shm!Init
<1> QED BY <1>1, ServerSteps, PTL DEF Shm!Spec, Exchange!Spec

\* Without a lock a client of the shared page (8-18/shm_ipc_client.c) prints only
\* what the server or a client put there, character for character, and the page
\* has an end of string but while, or after, a client is stopped between the
\* two statements that write a page-long one: for any clients and any texts.
THEOREM OnlyWrittenIsPrinted ==
    ASSUME Shm!TextsAssumption, MachConstants
    PROVE  Shm!Spec => []OnlyWritten
<1>1. Shm!Init => PageInv
  BY PageInit
<1>2. PageInv /\ [Shm!Next]_(Shm!vars) => PageInv'
  BY PageStep
<1>3. PageInv => OnlyWritten
  <2> SUFFICES ASSUME PageInv PROVE OnlyWritten
    OBVIOUS
  <2>1. Shm!TypeOK
    BY Zenon, SameServer DEF PageInv, PageTypes, Characters, Shm!TypeOK
  <2>2. \A c \in Clients : \A j \in DOMAIN seen[c] : seen[c][j] \in Shm!Written(j)
    <3>1. ASSUME NEW c \in Clients PROVE DOMAIN seen[c] = 1 .. Len(seen[c])
      <4>1. seen[c] \in Seq(Characters)
        BY DEF PageInv, PageTypes
      <4> QED BY <4>1
    <3> QED BY <3>1 DEF PageInv, Printing
  <2> QED BY <2>1, <2>2 DEF PageInv, PageWritten, OnlyWritten, Shm!OnlyWritten, Shm!Mixture
<1> QED BY <1>1, <1>2, <1>3, PTL DEF Shm!Spec

-----------------------------------------------------------------------------
(* Darwin notifications (9-57 to 9-59).  The first notify_check() of a      *)
(* registration is true although nothing was posted; it is main()'s own     *)
(* unless the signal handler comes before it, once.                         *)
Naming ==
    /\ name["main"] = "signal" /\ name["fd"] = "descriptor"
    /\ name["port"] \in {"mach_port", "cancel"}
FirstCheck ==
    /\ "signal" \in token => at["main"] \in {"check", "sleep"}
    /\ "signal" \in token \cap registered /\ ~checked => at["main"] = "check"
    /\ early => checked
Sums ==
    /\ received["descriptor"] + pipe = due["descriptor"]
    /\ received["mach_port"] + Notification!Queued \in
          due["mach_port"] .. due["mach_port"] + failures
    /\ received["signal"] + Notification!One(fresh) <=
          due["signal"] + Notification!One(early)
    /\ \A w \in Notification!Names : due[w] <= posts
NoticeInv == Notification!TypeOK /\ Naming /\ FirstCheck /\ Sums

(* The parts of the types, for the proofs of the steps.                     *)
Flags ==
    /\ installed \in BOOLEAN /\ pending \in BOOLEAN /\ fresh \in BOOLEAN
    /\ checked \in BOOLEAN /\ early \in BOOLEAN
ThreadTypes ==
    /\ up \in BOOLEAN
    /\ at \in [Notification!Threads ->
                 {"none", "create_fd", "create_port", "signal", "register", "assign",
                  "check", "sleep", "read", "receive", "cancel", "ended"}]
    /\ name \in [Notification!Threads -> Notification!Names]
    /\ step \in [Notification!Threads -> 1 .. 4]
    /\ token \subseteq Notification!Names /\ registered \subseteq Notification!Names
Counts ==
    /\ pipe \in 0 .. MaxPosts /\ notifyPort \in Seq({"mach_port", "cancel"})
    /\ msg \in {"garbage", "mach_port", "cancel"}
    /\ due \in [Notification!Names -> 0 .. MaxPosts]
    /\ received \in [Notification!Ways -> Nat]
    /\ posts \in 0 .. MaxPosts /\ failures \in 0 .. MaxFailures

LEMMA Parts ==
    /\ NoticeInv <=> Flags /\ ThreadTypes /\ Counts /\ Naming /\ FirstCheck /\ Sums
    /\ NoticeInv' <=> Flags' /\ ThreadTypes' /\ Counts' /\ Naming' /\ FirstCheck' /\ Sums'
<1>1. {installed, pending, fresh, checked, early} \subseteq BOOLEAN <=> Flags
  BY Zenon DEF Flags
<1>2. ({installed, pending, fresh, checked, early} \subseteq BOOLEAN)' <=> Flags'
  BY Zenon DEF Flags
<1>3. Notification!TypeOK <=> Flags /\ ThreadTypes /\ Counts
  BY Zenon, <1>1 DEF Notification!TypeOK, ThreadTypes, Counts
<1>4. Notification!TypeOK' <=> Flags' /\ ThreadTypes' /\ Counts'
  BY Zenon, <1>2 DEF Notification!TypeOK, ThreadTypes, Counts
<1> QED BY Zenon, <1>3, <1>4 DEF NoticeInv

(* Messages of one kind in a queue, when one is added or taken.             *)
Messages(q) == {k \in DOMAIN q : q[k] = "mach_port"}

LEMMA Count ==
    /\ Notification!Queued = Cardinality(Messages(notifyPort))
    /\ Notification!Queued' = Cardinality(Messages(notifyPort'))
<1>1. ASSUME NEW S PROVE Notification!Cardinality(S) = Cardinality(S)
  BY Zenon DEF Notification!Cardinality, Cardinality
<1> QED BY <1>1 DEF Notification!Queued, Messages

LEMMA MessagesFinite ==
    ASSUME NEW q \in Seq({"mach_port", "cancel"})
    PROVE  IsFiniteSet(Messages(q)) /\ Cardinality(Messages(q)) \in Nat
<1>1. Messages(q) \in SUBSET (1 .. Len(q)) /\ Len(q) \in Nat
  BY DEF Messages
<1>2. IsFiniteSet(1 .. Len(q))
  BY <1>1, FS_Interval
<1>3. IsFiniteSet(Messages(q))
  BY <1>1, <1>2, FS_Subset
<1> QED BY <1>3, FS_CardinalityType

LEMMA MessageAdded ==
    ASSUME NEW q \in Seq({"mach_port", "cancel"}), NEW w \in {"mach_port", "cancel"}
    PROVE  /\ Append(q, w) \in Seq({"mach_port", "cancel"})
           /\ Cardinality(Messages(Append(q, w))) =
                 Cardinality(Messages(q)) + IF w = "mach_port" THEN 1 ELSE 0
<1>1. /\ Append(q, w) \in Seq({"mach_port", "cancel"}) /\ Len(Append(q, w)) = Len(q) + 1
      /\ \A k \in 1 .. Len(q) : Append(q, w)[k] = q[k]
      /\ Append(q, w)[Len(q) + 1] = w
      /\ DOMAIN q = 1 .. Len(q) /\ DOMAIN Append(q, w) = 1 .. Len(q) + 1 /\ Len(q) \in Nat
  OBVIOUS
<1>2. CASE w = "mach_port"
  <2>1. Messages(Append(q, w)) = Messages(q) \cup {Len(q) + 1} /\ Len(q) + 1 \notin Messages(q)
    BY <1>1, <1>2 DEF Messages
  <2> QED BY <1>1, <1>2, <2>1, MessagesFinite, FS_AddElement
<1>3. CASE w # "mach_port"
  <2>1. Messages(Append(q, w)) = Messages(q)
    BY <1>1, <1>3 DEF Messages
  <2> QED BY <1>1, <1>3, <2>1, MessagesFinite
<1> QED BY <1>2, <1>3

LEMMA MessageTaken ==
    ASSUME NEW q \in Seq({"mach_port", "cancel"}), q # <<>>
    PROVE  /\ Tail(q) \in Seq({"mach_port", "cancel"}) /\ Head(q) \in {"mach_port", "cancel"}
           /\ Cardinality(Messages(q)) =
                 Cardinality(Messages(Tail(q))) + IF Head(q) = "mach_port" THEN 1 ELSE 0
<1>1. /\ Tail(q) \in Seq({"mach_port", "cancel"}) /\ Len(Tail(q)) = Len(q) - 1
      /\ \A k \in 1 .. Len(q) - 1 : Tail(q)[k] = q[k + 1]
      /\ Head(q) = q[1] /\ q[1] \in {"mach_port", "cancel"} /\ Len(q) \in Nat \ {0}
      /\ DOMAIN q = 1 .. Len(q) /\ DOMAIN Tail(q) = 1 .. Len(q) - 1
  OBVIOUS
<1> DEFINE f == [k \in Messages(Tail(q)) |-> k + 1]
<1>2. ExistsBijection(Messages(Tail(q)), Messages(q) \ {1})
  <2>1. \A k \in Messages(Tail(q)) : k + 1 \in Messages(q) \ {1}
    BY <1>1 DEF Messages
  <2>2. \A k \in Messages(q) \ {1} : k - 1 \in Messages(Tail(q)) /\ f[k - 1] = k
    BY <1>1 DEF Messages
  <2>3. f \in Injection(Messages(Tail(q)), Messages(q) \ {1})
    BY <1>1, <2>1 DEF Injection, IsInjective, Messages
  <2>4. f \in Surjection(Messages(Tail(q)), Messages(q) \ {1})
    BY <2>1, <2>2 DEF Surjection
  <2> QED BY <2>3, <2>4 DEF ExistsBijection, Bijection
<1>3. Cardinality(Messages(Tail(q))) = Cardinality(Messages(q) \ {1})
  BY <1>1, <1>2, MessagesFinite, FS_Bijection
<1>4. 1 \in Messages(q) <=> Head(q) = "mach_port"
  BY <1>1 DEF Messages
<1>5. Cardinality(Messages(q) \ {1}) =
         IF 1 \in Messages(q) THEN Cardinality(Messages(q)) - 1 ELSE Cardinality(Messages(q))
  BY MessagesFinite, FS_RemoveElement
<1>6. Cardinality(Messages(q)) \in Nat
  BY MessagesFinite
<1> QED BY <1>1, <1>3, <1>4, <1>5, <1>6

(* Nothing has been posted at first.                                        *)
LEMMA NoticeInit == Notification!BoundsAssumption /\ Notification!Init => NoticeInv
<1> SUFFICES ASSUME Notification!BoundsAssumption, Notification!Init PROVE NoticeInv
  OBVIOUS
<1> USE DEF Notification!BoundsAssumption, Notification!Init, Notification!Threads,
            Notification!Names, Notification!Ways
<1>1. Flags
  BY DEF Flags
<1>2. ThreadTypes
  BY DEF ThreadTypes
<1>3. Counts
  BY DEF Counts
<1>4. Naming /\ FirstCheck
  BY DEF Naming, FirstCheck
<1>5. Notification!Queued = 0
  <2>1. Messages(notifyPort) = {}
    BY DEF Messages
  <2> QED BY <2>1, Count, FS_EmptySet
<1>6. Sums
  BY <1>5 DEF Sums, Notification!One
<1> QED BY <1>1, <1>2, <1>3, <1>4, <1>6, Zenon, Parts

(* A post or a stray signal.                                                *)
LEMMA PostStep ==
    ASSUME Notification!BoundsAssumption, NoticeInv, NEW w \in Notification!Names,
           Notification!Post(w)
    PROVE  NoticeInv'
<1> USE DEF Notification!BoundsAssumption
<1>0. Flags /\ ThreadTypes /\ Counts /\ Naming /\ FirstCheck /\ Sums
  BY Zenon, Parts
<1>1. /\ posts < MaxPosts /\ posts' = posts + 1
      /\ UNCHANGED <<up, at, name, step, token, registered, msg, installed, checked, early,
                     received, failures>>
  BY DEF Notification!Post, Notification!threadVars, Notification!tokenVars
<1>2. ThreadTypes' /\ Naming' /\ FirstCheck'
  BY <1>0, <1>1 DEF ThreadTypes, Naming, FirstCheck
<1>3. CASE w \in registered
  <2>1. /\ due' = [due EXCEPT ![w] = @ + 1]
        /\ pipe' = IF w = "descriptor" THEN pipe + 1 ELSE pipe
        /\ notifyPort' = IF w \in {"mach_port", "cancel"} THEN Append(notifyPort, w) ELSE notifyPort
        /\ pending' = (pending \/ w = "signal")
        /\ fresh' = (fresh \/ w = "signal")
    BY <1>3 DEF Notification!Post
  <2>2. Flags'
    BY <1>0, <1>1, <2>1 DEF Flags
  <2>3. /\ notifyPort \in Seq({"mach_port", "cancel"}) /\ notifyPort' \in Seq({"mach_port", "cancel"})
        /\ Notification!Queued \in Nat
        /\ Notification!Queued' = Notification!Queued + IF w = "mach_port" THEN 1 ELSE 0
    BY <1>0, <2>1, Count, MessageAdded, MessagesFinite DEF Counts
  <2>4. /\ due[w] \in Nat /\ due[w] <= posts /\ posts \in Nat
    BY <1>0 DEF Counts, Sums
  <2>5. due' \in [Notification!Names -> 0 .. MaxPosts]
    BY <1>0, <1>1, <2>1, <2>4 DEF Counts
  <2>6. Sums'
    <3>1. ASSUME NEW v \in Notification!Names
          PROVE  due'[v] <= posts'
      <4>1. due[v] \in Nat /\ due[v] <= posts /\ posts \in Nat
        BY <1>0 DEF Sums, Counts
      <4>2. due'[v] = IF v = w THEN due[v] + 1 ELSE due[v]
        BY <1>0, <2>1 DEF Counts
      <4>3. posts' = posts + 1
        BY <1>1
      <4> QED BY ONLY <4>1, <4>2, <4>3
    <3>2. received["descriptor"] + pipe' = due'["descriptor"]
      BY <1>0, <2>1 DEF Sums, Counts, Notification!Names, Notification!Ways
    <3>3. received["mach_port"] + Notification!Queued' \in due'["mach_port"] .. due'["mach_port"] + failures
      <4>1. received["mach_port"] \in Nat /\ due["mach_port"] \in Nat /\ failures \in Nat
        BY <1>0 DEF Counts, Notification!Names, Notification!Ways
      <4>2. due'["mach_port"] = due["mach_port"] + IF w = "mach_port" THEN 1 ELSE 0
        BY <1>0, <2>1 DEF Counts, Notification!Names, Notification!Ways
      <4>3. /\ received["mach_port"] + Notification!Queued >= due["mach_port"]
            /\ received["mach_port"] + Notification!Queued <= due["mach_port"] + failures
        BY <1>0, <2>3, <4>1 DEF Sums
      <4>4. received["mach_port"] + Notification!Queued' \in Nat
        BY <2>3, <4>1
      <4> QED BY ONLY <2>3, <4>1, <4>2, <4>3, <4>4
    <3>4. received["signal"] + Notification!One(fresh)' <= due'["signal"] + Notification!One(early)
      <4>1. CASE w = "signal"
        <5>1. due'["signal"] = due["signal"] + 1 /\ due["signal"] \in Nat /\ received["signal"] \in Nat
          BY <1>0, <2>1, <4>1 DEF Counts, Notification!Names, Notification!Ways
        <5>2. received["signal"] + Notification!One(fresh) <= due["signal"] + Notification!One(early)
          BY <1>0 DEF Sums
        <5>3. /\ Notification!One(fresh)' \in 0 .. 1 /\ Notification!One(fresh) \in 0 .. 1
              /\ Notification!One(early) \in 0 .. 1
          BY DEF Notification!One
        <5> QED BY ONLY <5>1, <5>2, <5>3
      <4>2. CASE w # "signal"
        <5>1. fresh' = fresh
          BY <1>0, <2>1, <4>2 DEF Flags
        <5>2. due'["signal"] = due["signal"]
          BY <1>0, <2>1, <4>2 DEF Counts, Notification!Names, Notification!Ways
        <5>3. received["signal"] + Notification!One(fresh) <= due["signal"] + Notification!One(early)
          BY <1>0 DEF Sums
        <5>4. Notification!One(fresh)' = Notification!One(fresh)
          BY <5>1 DEF Notification!One
        <5> QED BY <5>2, <5>3, <5>4, Zenon
      <4> QED BY <4>1, <4>2
    <3> QED BY <1>1, <3>1, <3>2, <3>3, <3>4 DEF Sums, Notification!One
  <2>7. pipe' \in 0 .. MaxPosts
    <3>1. pipe' \in Nat /\ received["descriptor"] \in Nat /\ due'["descriptor"] \in 0 .. MaxPosts
      BY <1>0, <2>1, <2>5 DEF Counts, Notification!Names, Notification!Ways
    <3> QED BY <1>1, <2>6, <3>1 DEF Sums
  <2>8. Counts'
    BY <1>0, <1>1, <2>3, <2>5, <2>7 DEF Counts
  <2> QED BY <1>2, <2>2, <2>6, <2>8, Zenon, Parts
<1>4. CASE w \notin registered
  <2>1. UNCHANGED <<due, pipe, notifyPort, pending, fresh>>
    BY <1>4 DEF Notification!Post
  <2>2. Flags' /\ Counts'
    BY <1>0, <1>1, <2>1 DEF Flags, Counts
  <2>3. Sums'
    BY <1>0, <1>1, <2>1 DEF Sums, Counts, Notification!Queued, Notification!One
  <2> QED BY <1>2, <2>2, <2>3, Zenon, Parts
<1> QED BY <1>3, <1>4

(* Steps that neither receive nor count a post.                             *)
LEMMA SumsKept ==
    ASSUME Sums, Counts, failures' \in Nat, failures <= failures', posts <= posts', posts' \in Nat,
           UNCHANGED <<pipe, notifyPort, due, received, fresh, early>>
    PROVE  Sums'
<1>1. Notification!Queued' = Notification!Queued /\ Notification!Queued \in Nat
  BY Count, MessagesFinite DEF Counts
<1>2. Notification!One(fresh)' = Notification!One(fresh) /\ Notification!One(early)' = Notification!One(early)
  BY DEF Notification!One
<1>3. received["mach_port"] \in Nat /\ due["mach_port"] \in Nat /\ failures \in Nat
  BY DEF Counts, Notification!Names, Notification!Ways
<1>4. received["mach_port"] + Notification!Queued' \in due["mach_port"] .. due["mach_port"] + failures'
  BY <1>1, <1>3 DEF Sums
<1>5. \A w \in Notification!Names : due[w] \in Nat /\ due[w] <= posts
  BY DEF Counts, Sums
<1>6. \A w \in Notification!Names : due'[w] <= posts'
  BY <1>5 DEF Counts
<1> QED BY <1>2, <1>4, <1>6 DEF Sums

LEMMA StrayStep ==
    ASSUME Notification!BoundsAssumption, NoticeInv, Notification!StraySignal
    PROVE  NoticeInv'
<1>0. Flags /\ ThreadTypes /\ Counts /\ Naming /\ FirstCheck /\ Sums
  BY Zenon, Parts
<1>1. /\ posts < MaxPosts /\ posts' = posts + 1
      /\ UNCHANGED <<at, name, step, token, pipe, notifyPort, msg, installed, fresh, checked, early,
                     due, received, failures>>
      /\ \/ pending' = TRUE /\ UNCHANGED <<up, registered>>
         \/ up' = FALSE /\ registered' = {} /\ UNCHANGED pending
  BY DEF Notification!StraySignal, Notification!Exit, Notification!threadVars
<1>2. Flags'
  BY <1>0, <1>1 DEF Flags
<1>3. ThreadTypes'
  BY <1>0, <1>1 DEF ThreadTypes
<1>4. Counts' /\ Naming' /\ FirstCheck'
  BY <1>0, <1>1 DEF Counts, Naming, FirstCheck, Notification!BoundsAssumption
<1>5. Sums'
  BY <1>0, <1>1, SumsKept DEF Counts
<1> QED BY <1>2, <1>3, <1>4, <1>5, Zenon, Parts

(* Steps of the threads that receive nothing.                               *)
LEMMA CreateStep ==
    ASSUME Notification!BoundsAssumption, NoticeInv, Notification!CreateThreads
    PROVE  NoticeInv'
<1>0. Flags /\ ThreadTypes /\ Counts /\ Naming /\ FirstCheck /\ Sums
  BY Zenon, Parts
<1>1. PICK where \in {"create_fd", "create_port"}, t \in {"fd", "port"}, next \in {"create_port", "signal"} :
         Notification!Create(where, t, next)
  BY DEF Notification!CreateThreads
<1>2. /\ at["main"] \in {"create_fd", "create_port"}
      /\ \/ at' = [at EXCEPT !["main"] = next, ![t] = "register"] /\ UNCHANGED failures
         \/ at' = [at EXCEPT !["main"] = "cancel"] /\ failures < MaxFailures /\ failures' = failures + 1
      /\ UNCHANGED <<up, name, step, token, registered, pipe, notifyPort, msg, installed, pending,
                     fresh, checked, early, due, received, posts>>
  BY <1>1 DEF Notification!Create, Notification!Goto, Notification!Fail, Notification!tokenVars,
             Notification!signalVars
<1>3. Flags' /\ Naming' /\ FirstCheck'
  BY <1>0, <1>2 DEF Flags, Naming, FirstCheck
<1>4. ThreadTypes'
  BY <1>0, <1>2 DEF ThreadTypes, Notification!Threads
<1>5. Counts' /\ failures' \in Nat /\ failures <= failures'
  BY <1>0, <1>2 DEF Counts, Notification!BoundsAssumption
<1>6. Sums'
  BY <1>0, <1>2, <1>5, SumsKept DEF Counts
<1> QED BY <1>3, <1>4, <1>5, <1>6, Zenon, Parts

LEMMA InstallStep ==
    ASSUME NoticeInv, Notification!InstallHandler
    PROVE  NoticeInv'
<1>0. Flags /\ ThreadTypes /\ Counts /\ Naming /\ FirstCheck /\ Sums
  BY Zenon, Parts
<1>1. /\ at["main"] = "signal" /\ installed' = TRUE /\ at' = [at EXCEPT !["main"] = "register"]
      /\ UNCHANGED <<up, name, step, token, registered, pipe, notifyPort, msg, pending, fresh, checked,
                     early, due, received, posts, failures>>
  BY DEF Notification!InstallHandler, Notification!Goto, Notification!tokenVars
<1>2. Flags' /\ Naming' /\ FirstCheck'
  BY <1>0, <1>1 DEF Flags, Naming, FirstCheck
<1>3. ThreadTypes' /\ Counts'
  BY <1>0, <1>1 DEF ThreadTypes, Counts
<1>4. Sums'
  BY <1>0, <1>1, SumsKept DEF Counts
<1> QED BY <1>2, <1>3, <1>4, Zenon, Parts

LEMMA RegisterStep ==
    ASSUME Notification!BoundsAssumption, NoticeInv, NEW t \in Notification!Threads,
           Notification!Register(t)
    PROVE  NoticeInv'
<1>0. Flags /\ ThreadTypes /\ Counts /\ Naming /\ FirstCheck /\ Sums
  BY Zenon, Parts
<1>1. /\ at[t] = "register"
      /\ \E where \in {"assign", "cancel", "ended"} : at' = [at EXCEPT ![t] = where]
      /\ \/ registered' = registered \cup {name[t]} /\ UNCHANGED failures
         \/ UNCHANGED registered /\ failures < MaxFailures /\ failures' = failures + 1
      /\ UNCHANGED <<up, name, step, token, pipe, notifyPort, msg, installed, pending, fresh, checked,
                     early, due, received, posts>>
  BY DEF Notification!Register, Notification!Goto, Notification!Fail, Notification!signalVars
<1>2. Flags' /\ Naming'
  BY <1>0, <1>1 DEF Flags, Naming
<1>3. FirstCheck'
  <2>1. "signal" \in token => t # "main"
    BY <1>0, <1>1 DEF FirstCheck
  <2>2. t # "main" => name[t] # "signal" /\ at'["main"] = at["main"]
    BY <1>0, <1>1 DEF Naming, ThreadTypes, Notification!Threads
  <2> QED BY <1>0, <1>1, <2>1, <2>2 DEF FirstCheck
<1>4. ThreadTypes'
  BY <1>0, <1>1 DEF ThreadTypes
<1>5. Counts' /\ failures' \in Nat /\ failures <= failures'
  BY <1>0, <1>1 DEF Counts, Notification!BoundsAssumption
<1>6. Sums'
  BY <1>0, <1>1, <1>5, SumsKept DEF Counts
<1> QED BY <1>2, <1>3, <1>4, <1>5, <1>6, Zenon, Parts

LEMMA AssignStep ==
    ASSUME NoticeInv, NEW t \in Notification!Threads, Notification!Assign(t)
    PROVE  NoticeInv'
<1>0. Flags /\ ThreadTypes /\ Counts /\ Naming /\ FirstCheck /\ Sums
  BY Zenon, Parts
<1>1. /\ token' = token \cup {name[t]}
      /\ IF name[t] = "mach_port"
         THEN at' = [at EXCEPT ![t] = "register"] /\ name' = [name EXCEPT ![t] = "cancel"]
         ELSE /\ at' = [at EXCEPT ![t] = CASE t = "fd" -> "read" [] t = "port" -> "receive"
                                           [] t = "main" -> "check"]
              /\ UNCHANGED name
      /\ UNCHANGED <<up, step, registered, pipe, notifyPort, msg, installed, pending, fresh, checked,
                     early, due, received, posts, failures>>
  BY DEF Notification!Assign, Notification!Goto, Notification!signalVars
<1>2. Flags' /\ Counts'
  BY <1>0, <1>1 DEF Flags, Counts
<1>3. ASSUME t = "main" PROVE Naming' /\ FirstCheck' /\ ThreadTypes'
  <2>1. name[t] = "signal" /\ at' = [at EXCEPT !["main"] = "check"] /\ UNCHANGED name
    BY <1>0, <1>1, <1>3 DEF Naming
  <2> QED BY <1>0, <1>1, <1>3, <2>1 DEF Naming, FirstCheck, ThreadTypes, Notification!Names,
                                     Notification!Ways
<1>4. ASSUME t # "main" PROVE Naming' /\ FirstCheck' /\ ThreadTypes'
  <2>1. name[t] # "signal" /\ (name[t] = "mach_port" => t = "port")
    BY <1>0, <1>4 DEF Naming, Notification!Threads
  <2>2. Naming' /\ at'["main"] = at["main"]
    BY <1>0, <1>1, <1>4, <2>1 DEF Naming, ThreadTypes, Notification!Threads
  <2>3. FirstCheck'
    BY <1>0, <1>1, <2>1, <2>2 DEF FirstCheck
  <2>4. ThreadTypes'
    BY <1>0, <1>1, <1>4, <2>1 DEF ThreadTypes, Notification!Threads, Notification!Names, Notification!Ways
  <2> QED BY <2>2, <2>3, <2>4
<1>5. Naming' /\ FirstCheck' /\ ThreadTypes'
  BY <1>3, <1>4
<1>6. Sums'
  BY <1>0, <1>1, SumsKept DEF Counts
<1> QED BY <1>2, <1>5, <1>6, Zenon, Parts

LEMMA CancelStep ==
    ASSUME NoticeInv, NEW t \in Notification!Threads, Notification!CancelAll(t)
    PROVE  NoticeInv'
<1>0. Flags /\ ThreadTypes /\ Counts /\ Naming /\ FirstCheck /\ Sums
  BY Zenon, Parts
<1>1. /\ registered' \subseteq registered
      /\ up' \in {up, FALSE}
      /\ step' = step \/ (step[t] <= 3 /\ step' = [step EXCEPT ![t] = @ + 1])
      /\ UNCHANGED <<at, name, token, pipe, notifyPort, msg, installed, pending, fresh, checked, early,
                     due, received, posts, failures>>
  BY DEF Notification!CancelAll, Notification!Exit, Notification!signalVars
<1>2. Flags' /\ Counts' /\ Naming' /\ FirstCheck'
  BY <1>0, <1>1 DEF Flags, Counts, Naming, FirstCheck
<1>3. ThreadTypes'
  <2>1. step' \in [Notification!Threads -> 1 .. 4]
    BY <1>0, <1>1 DEF ThreadTypes
  <2>2. up' \in BOOLEAN
    BY <1>0, <1>1 DEF ThreadTypes
  <2> QED BY <1>0, <1>1, <2>1, <2>2 DEF ThreadTypes
<1>4. Sums'
  BY <1>0, <1>1, SumsKept DEF Counts
<1> QED BY <1>2, <1>3, <1>4, Zenon, Parts

(* Steps that receive, and the checks.                                      *)
LEMMA ReadStep ==
    ASSUME Notification!BoundsAssumption, NoticeInv, Notification!ReadDescriptor
    PROVE  NoticeInv'
<1>0. Flags /\ ThreadTypes /\ Counts /\ Naming /\ FirstCheck /\ Sums
  BY Zenon, Parts
<1>1. /\ \/ at' = [at EXCEPT !["fd"] = "ended"] /\ UNCHANGED <<pipe, received>>
         \/ /\ pipe > 0 /\ pipe' = pipe - 1 /\ UNCHANGED at
            /\ received' = [received EXCEPT !["descriptor"] = @ + 1]
      /\ UNCHANGED <<up, name, step, token, registered, notifyPort, msg, installed, pending, fresh,
                     checked, early, due, posts, failures>>
  BY DEF Notification!ReadDescriptor, Notification!Goto, Notification!tokenVars, Notification!signalVars
<1>2. Flags' /\ Naming' /\ FirstCheck'
  <2>1. at'["main"] = at["main"]
    BY <1>0, <1>1 DEF ThreadTypes, Notification!Threads
  <2>2. Flags' /\ Naming'
    BY <1>0, <1>1 DEF Flags, Naming
  <2>3. FirstCheck'
    BY <1>0, <1>1, <2>1 DEF FirstCheck
  <2> QED BY <2>2, <2>3
<1>3. ThreadTypes'
  BY <1>0, <1>1 DEF ThreadTypes, Notification!Threads
<1>4. Counts'
  <2>1. pipe' \in 0 .. MaxPosts
    BY <1>0, <1>1 DEF Counts, Notification!BoundsAssumption
  <2>2. received' \in [Notification!Ways -> Nat]
    BY <1>0, <1>1 DEF Counts, Notification!Ways
  <2> QED BY <1>0, <1>1, <2>1, <2>2 DEF Counts
<1>5. Sums'
  <2>1. received'["descriptor"] + pipe' = received["descriptor"] + pipe
    BY <1>0, <1>1 DEF Counts, Notification!Ways
  <2>2. received'["mach_port"] = received["mach_port"] /\ received'["signal"] = received["signal"]
    BY <1>0, <1>1 DEF Counts, Notification!Ways
  <2>3. Notification!Queued' = Notification!Queued
    BY <1>1, Count
  <2> QED BY <1>0, <1>1, <2>1, <2>2, <2>3 DEF Sums, Notification!One
<1> QED BY <1>2, <1>3, <1>4, <1>5, Zenon, Parts

LEMMA ReceiveStep ==
    ASSUME Notification!BoundsAssumption, NoticeInv, Notification!ReceiveMessage
    PROVE  NoticeInv'
<1>0. Flags /\ ThreadTypes /\ Counts /\ Naming /\ FirstCheck /\ Sums
  BY Zenon, Parts
<1>1. PICK id \in {"other", "mach_port", "cancel"} :
         /\ received' = [received EXCEPT !["mach_port"] = IF id = "mach_port" THEN @ + 1 ELSE @]
         /\ at' = [at EXCEPT !["port"] = IF id = "cancel" THEN "cancel" ELSE @]
         /\ \/ /\ notifyPort # <<>> /\ id = Head(notifyPort)
               /\ msg' = Head(notifyPort) /\ notifyPort' = Tail(notifyPort) /\ UNCHANGED failures
            \/ failures < MaxFailures /\ failures' = failures + 1 /\ UNCHANGED <<notifyPort, msg>>
  <2>1. CASE /\ notifyPort # <<>> /\ msg' = Head(notifyPort) /\ notifyPort' = Tail(notifyPort)
             /\ Notification!Handle(Head(notifyPort)) /\ UNCHANGED failures
    <3>1. Head(notifyPort) \in {"other", "mach_port", "cancel"}
      BY <1>0, <2>1, MessageTaken DEF Counts
    <3> QED BY <2>1, <3>1 DEF Notification!Handle
  <2>2. CASE /\ \E id \in IF msg = "garbage" THEN {"other", "mach_port", "cancel"} ELSE {msg} :
                   Notification!Handle(id)
             /\ Notification!Fail /\ UNCHANGED <<notifyPort, msg>>
    BY <1>0, <2>2 DEF Notification!Handle, Notification!Fail, Counts
  <2> QED BY <2>1, <2>2 DEF Notification!ReceiveMessage
<1>2. UNCHANGED <<up, name, step, token, registered, pipe, installed, pending, fresh, checked, early,
                  due, posts>>
  BY DEF Notification!ReceiveMessage, Notification!tokenVars, Notification!signalVars
<1>3. Flags' /\ Naming' /\ FirstCheck'
  BY <1>0, <1>1, <1>2 DEF Flags, Naming, FirstCheck
<1>4. ThreadTypes'
  <2>1. "port" \in Notification!Threads
    BY DEF Notification!Threads
  <2> QED BY <1>0, <1>1, <1>2, <2>1 DEF ThreadTypes
<1>5. /\ failures' \in 0 .. MaxFailures
      /\ notifyPort' \in Seq({"mach_port", "cancel"}) /\ msg' \in {"garbage", "mach_port", "cancel"}
  <2>1. /\ notifyPort \in Seq({"mach_port", "cancel"}) /\ msg \in {"garbage", "mach_port", "cancel"}
        /\ failures \in 0 .. MaxFailures
    BY <1>0 DEF Counts
  <2>2. notifyPort # <<>> => /\ Tail(notifyPort) \in Seq({"mach_port", "cancel"})
                             /\ Head(notifyPort) \in {"mach_port", "cancel"}
    BY <2>1, MessageTaken
  <2> QED BY <1>1, <2>1, <2>2 DEF Notification!BoundsAssumption
<1>6. /\ received' \in [Notification!Ways -> Nat]
      /\ received'["mach_port"] = received["mach_port"] + IF id = "mach_port" THEN 1 ELSE 0
      /\ received'["descriptor"] = received["descriptor"] /\ received'["signal"] = received["signal"]
  <2>1. CASE id = "mach_port"
    BY <1>0, <1>1, <2>1 DEF Counts, Notification!Ways
  <2>2. CASE id # "mach_port"
    BY <1>0, <1>1, <2>2 DEF Counts, Notification!Ways
  <2> QED BY <2>1, <2>2
<1>7. Counts'
  BY <1>0, <1>2, <1>5, <1>6 DEF Counts
<1>8. received'["mach_port"] + Notification!Queued' \in due'["mach_port"] .. due'["mach_port"] + failures'
  <2>1. /\ received["mach_port"] \in Nat /\ due["mach_port"] \in Nat /\ failures \in Nat
        /\ due'["mach_port"] = due["mach_port"]
    BY <1>0, <1>2 DEF Counts, Notification!Names, Notification!Ways
  <2>2. Notification!Queued \in Nat /\ Notification!Queued' \in Nat
    BY <1>0, <1>5, Count, MessagesFinite DEF Counts
  <2>3. /\ received["mach_port"] + Notification!Queued >= due["mach_port"]
        /\ received["mach_port"] + Notification!Queued <= due["mach_port"] + failures
    BY <1>0, <2>1, <2>2 DEF Sums
  <2>4. CASE /\ notifyPort # <<>> /\ id = Head(notifyPort)
             /\ notifyPort' = Tail(notifyPort) /\ UNCHANGED failures
    <3>1. Notification!Queued = Notification!Queued' + IF id = "mach_port" THEN 1 ELSE 0
      BY <1>0, <2>4, Count, MessageTaken DEF Counts
    <3>2. received'["mach_port"] + Notification!Queued' = received["mach_port"] + Notification!Queued
      <4>1. CASE id = "mach_port"
        BY <1>6, <2>1, <2>2, <3>1, <4>1
      <4>2. CASE id # "mach_port"
        BY <1>6, <2>1, <2>2, <3>1, <4>2
      <4> QED BY <4>1, <4>2
    <3> QED BY <2>1, <2>2, <2>3, <2>4, <3>2
  <2>5. CASE failures' = failures + 1 /\ UNCHANGED notifyPort
    <3>1. Notification!Queued' = Notification!Queued
      BY <2>5, Count
    <3>2. received'["mach_port"] \in {received["mach_port"], received["mach_port"] + 1}
      BY <1>6, <2>1
    <3> QED BY <2>1, <2>2, <2>3, <2>5, <3>1, <3>2
  <2> QED BY <1>1, <2>4, <2>5
<1>9. Sums'
  BY <1>0, <1>2, <1>6, <1>8 DEF Sums, Notification!One
<1> QED BY <1>3, <1>4, <1>7, <1>9, Zenon, Parts

LEMMA DummyStep ==
    ASSUME NoticeInv, Notification!DummyCheck
    PROVE  NoticeInv'
<1>0. Flags /\ ThreadTypes /\ Counts /\ Naming /\ FirstCheck /\ Sums
  BY Zenon, Parts
<1>1. /\ at["main"] = "check" /\ at' = [at EXCEPT !["main"] = "sleep"]
      /\ IF "signal" \in token \cap registered THEN fresh' = FALSE /\ checked' = TRUE
                                               ELSE UNCHANGED <<fresh, checked>>
      /\ UNCHANGED <<up, name, step, token, registered, pipe, notifyPort, msg, installed, pending,
                     early, due, received, posts, failures>>
  BY DEF Notification!DummyCheck, Notification!CheckSignal, Notification!Goto, Notification!tokenVars
<1>2. Flags' /\ Naming'
  BY <1>0, <1>1 DEF Flags, Naming
<1>3. FirstCheck'
  BY <1>0, <1>1 DEF FirstCheck, ThreadTypes, Notification!Threads
<1>4. ThreadTypes'
  BY <1>0, <1>1 DEF ThreadTypes
<1>5. Counts'
  BY <1>0, <1>1 DEF Counts
<1>6. Sums'
  <2>1. received["signal"] \in Nat /\ due["signal"] \in Nat
    BY <1>0 DEF Counts, Notification!Names, Notification!Ways
  <2>2. received["signal"] + Notification!One(fresh') <= due["signal"] + Notification!One(early)
    BY <1>0, <1>1, <2>1 DEF Sums, Notification!One
  <2>3. Notification!Queued' = Notification!Queued
    BY <1>1, Count
  <2> QED BY <1>0, <1>1, <2>2, <2>3 DEF Sums, Notification!One
<1> QED BY <1>2, <1>3, <1>4, <1>5, <1>6, Zenon, Parts

LEMMA SignalStep ==
    ASSUME NoticeInv, Notification!sighandler_USR1
    PROVE  NoticeInv'
<1>0. Flags /\ ThreadTypes /\ Counts /\ Naming /\ FirstCheck /\ Sums
  BY Zenon, Parts
<1> DEFINE live == "signal" \in token \cap registered
           true == live /\ (fresh \/ ~checked)
<1>1. /\ pending' = FALSE
      /\ IF live THEN fresh' = FALSE /\ checked' = TRUE ELSE UNCHANGED <<fresh, checked>>
      /\ received' = [received EXCEPT !["signal"] = IF true THEN @ + 1 ELSE @]
      /\ early' = (early \/ (true /\ at["main"] = "check"))
      /\ UNCHANGED <<up, at, name, step, token, registered, pipe, notifyPort, msg, installed,
                     due, posts, failures>>
  BY DEF Notification!sighandler_USR1, Notification!CheckSignal, Notification!CheckIsTrue,
         Notification!threadVars, Notification!tokenVars
<1>2. Flags' /\ Naming'
  BY <1>0, <1>1 DEF Flags, Naming
<1>3. FirstCheck'
  BY <1>0, <1>1, Zenon DEF FirstCheck
<1>4. ThreadTypes'
  BY <1>0, <1>1 DEF ThreadTypes
<1>5. /\ received' \in [Notification!Ways -> Nat]
      /\ received'["signal"] = received["signal"] + IF true THEN 1 ELSE 0
      /\ received'["descriptor"] = received["descriptor"]
      /\ received'["mach_port"] = received["mach_port"]
  BY <1>0, <1>1 DEF Counts, Notification!Ways
<1>6. Counts'
  BY <1>0, <1>1, <1>5 DEF Counts
<1>7. received'["signal"] + Notification!One(fresh') <= due["signal"] + Notification!One(early')
  <2>1. received["signal"] \in Nat /\ due["signal"] \in Nat
    BY <1>0 DEF Counts, Notification!Names, Notification!Ways
  <2>2. received["signal"] + Notification!One(fresh) <= due["signal"] + Notification!One(early)
    BY <1>0 DEF Sums
  <2>3. CASE true /\ ~fresh
    <3>1. ~checked /\ ~early /\ at["main"] = "check"
      BY <1>0, <2>3 DEF FirstCheck
    <3>2. early' = TRUE /\ fresh' = FALSE
      BY <1>1, <2>3, <3>1
    <3> QED BY <1>5, <2>1, <2>2, <2>3, <3>1, <3>2 DEF Notification!One
  <2>4. CASE true /\ fresh
    <3>1. fresh' = FALSE /\ (early => early')
      BY <1>1, <2>4
    <3> QED BY <1>5, <2>1, <2>2, <2>4, <3>1 DEF Notification!One
  <2>5. CASE ~true
    <3>1. (fresh' => fresh) /\ early' = early
      BY <1>0, <1>1, <2>5 DEF Flags
    <3> QED BY <1>5, <2>1, <2>2, <2>5, <3>1 DEF Notification!One
  <2> QED BY <2>3, <2>4, <2>5
<1>8. Sums'
  <2>1. Notification!Queued' = Notification!Queued
    BY <1>1, Count
  <2> QED BY <1>0, <1>1, <1>5, <1>7, <2>1 DEF Sums, Notification!One
<1> QED BY <1>2, <1>3, <1>4, <1>6, <1>8, Zenon, Parts

LEMMA NoticeStutter ==
    ASSUME NoticeInv, UNCHANGED Notification!vars
    PROVE  NoticeInv'
<1>0. Flags /\ ThreadTypes /\ Counts /\ Naming /\ FirstCheck /\ Sums
  BY Zenon, Parts
<1>1. UNCHANGED <<up, at, name, step, token, registered, pipe, notifyPort, msg, installed, pending,
                  fresh, checked, early, due, received, posts, failures>>
  BY DEF Notification!vars, Notification!threadVars, Notification!tokenVars, Notification!signalVars
<1>2. Flags' /\ ThreadTypes' /\ Counts' /\ Naming' /\ FirstCheck'
  BY <1>0, <1>1 DEF Flags, ThreadTypes, Counts, Naming, FirstCheck
<1>3. Sums'
  BY <1>0, <1>1, SumsKept DEF Counts
<1> QED BY <1>2, <1>3, Zenon, Parts

(* Accounted (9-57 to 9-59), whatever fails and whoever sends SIGUSR1: a    *)
(* line "received notification" has a post of its own, and no post by       *)
(* descriptor or by Mach port is lost, failed receives aside.               *)
THEOREM EveryPostAccounted ==
    ASSUME Notification!BoundsAssumption
    PROVE  Notification!Spec => []Accounted
<1>1. Notification!Init => NoticeInv
  BY NoticeInit
<1>2. NoticeInv /\ [Notification!Next]_(Notification!vars) => NoticeInv'
  <2> SUFFICES ASSUME NoticeInv, [Notification!Next]_(Notification!vars) PROVE NoticeInv'
    OBVIOUS
  <2>1. CASE \E w \in Notification!Names : Notification!Post(w)
    BY <2>1, PostStep
  <2>2. CASE Notification!StraySignal
    BY <2>2, StrayStep
  <2>3. CASE \E t \in Notification!Threads : Notification!Step(t)
    BY <2>3, RegisterStep, AssignStep, CancelStep, CreateStep, InstallStep, DummyStep, ReadStep,
       ReceiveStep DEF Notification!Step
  <2>4. CASE Notification!sighandler_USR1
    BY <2>4, SignalStep
  <2>5. CASE UNCHANGED Notification!vars
    BY <2>5, NoticeStutter
  <2> QED BY <2>1, <2>2, <2>3, <2>4, <2>5 DEF Notification!Next
<1>3. NoticeInv => Accounted
  BY Zenon DEF NoticeInv, Sums, Accounted, Notification!Accounted
<1> QED BY <1>1, <1>2, <1>3, PTL DEF Notification!Spec

-----------------------------------------------------------------------------
(* The bootstrap server (9-16/bootstrap_server.c): one at most, for any     *)
(* number of instances, launches and failures.                              *)

(* An instance on its way to the server loop, or in it, past the step that  *)
(* gave it the port of the service's server.                                *)
Serving(i) ==
    place[i] \in {"check in new", "loop"} \/ (place[i] = "destroy right" /\ kr[i] = "success")

(* What an instance started by hand can hold: the port of the server it has *)
(* created itself in this run.  Where it is about to declare the service,   *)
(* the declared one, if any, is not its own.                                *)
Created(i) ==
    /\ bootstrap_port[i] = User /\ server_priv_port[i] \in {Null, i}
    /\ place[i] \in {"create server", "create service"} => service # i
    /\ place[i] = "create service" => server_priv_port[i] = i
    /\ place[i] \in {"off", "stat", "check in", "create server", "unregister"} =>
          server_priv_port[i] = Null

Creators == \A i \in ByHand : Created(i)

(* launchd starts its instance only when nobody is left with the port of    *)
(* the declared service; the service is there for good.                     *)
Successor ==
    /\ service = NoService => place[Job] = "off"
    /\ place[Job] \notin {"create server", "create service", "check in new"}
    /\ server_priv_port[Job] \in {Null, service}
    /\ place[Job] \in {"off", "stat", "unregister"} => server_priv_port[Job] = Null
    /\ place[Job] # "off" =>
          /\ bootstrap_port[Job] = service
          /\ \A i \in ByHand : server_priv_port[i] # service

(* Who serves has the port of the service, and its right is on the way to   *)
(* being destroyed.                                                         *)
Served(i) ==
    /\ Serving(i) => server_priv_port[i] = service /\ service # NoService
    /\ service_rcv_port[i] # Null => place[i] = "destroy right" /\ kr[i] = "success"
    /\ place[i] \in {"stat", "check in", "create server", "create service", "check in new"} =>
          kr[i] = "success"

Servers == \A i \in Instances : Served(i)

IInv == Types /\ Creators /\ Successor /\ Servers

-----------------------------------------------------------------------------
(* No instance is mistaken for a special port.                              *)
Distinct ==
    /\ Job \notin ByHand
    /\ \A i \in Instances : i # NoService /\ i # Null /\ i # User

LEMMA Names == ASSUME JobAssumption PROVE Distinct
BY DEF JobAssumption, Distinct, Instances, NoService, Null, User

(* Nothing is declared and nobody runs at first.                            *)
LEMMA Initial ==
    ASSUME Distinct, Init
    PROVE  IInv
BY DEF Distinct, Init, IInv, Types, Creators, Created, Successor, Servers, Served,
       Serving, Instances, NoService, Null, User

(* The shell starts an instance that knows no port but the user's.          *)
LEMMA LaunchStep ==
    ASSUME Distinct, IInv, NEW i \in ByHand, LaunchByHand(i)
    PROVE  IInv'
<1>1. Types'
  BY DEF Distinct, IInv, Types, LaunchByHand, Start, Goto, SetPriv, Instances
<1>2. Creators'
  BY DEF Distinct, IInv, Types, Creators, Created, LaunchByHand, Start, Goto, SetPriv, Instances
<1>3. Successor'
  BY DEF Distinct, IInv, Types, Creators, Created, Successor, LaunchByHand, Start, Goto, SetPriv,
         Instances, Null, NoService
<1>4. Servers'
  BY DEF Distinct, IInv, Types, Servers, Served, Serving, LaunchByHand, Start, Goto, SetPriv,
         Instances
<1> QED BY <1>1, <1>2, <1>3, <1>4 DEF IInv

(* Nobody holds the port of the declared service when launchd starts Job.   *)
LEMMA RelaunchStep ==
    ASSUME Distinct, IInv, Relaunch
    PROVE  IInv'
<1>1. Types'
  BY DEF Distinct, IInv, Types, Relaunch, Start, Goto, SetPriv, Instances
<1>2. Creators'
  BY DEF Distinct, IInv, Types, Creators, Created, Relaunch, Start, Goto, SetPriv, Instances
<1>3. \A i \in ByHand : server_priv_port[i] # service
  BY DEF Distinct, IInv, Types, Creators, Created, Relaunch, Holds, Instances, Null, NoService
<1>4. Successor'
  BY <1>3 DEF Distinct, IInv, Types, Successor, Relaunch, Start, Goto, SetPriv, Instances
<1>5. Servers'
  BY DEF Distinct, IInv, Types, Servers, Served, Serving, Relaunch, Start, Goto, SetPriv,
         Instances
<1> QED BY <1>1, <1>2, <1>4, <1>5 DEF IInv

(* An instance ends, whether it is killed or exits: its ports go.           *)
LEMMA EndStep ==
    ASSUME Distinct, IInv, NEW i \in Instances, End(i),
           UNCHANGED <<bootstrap_port, kr, service, flag>>
    PROVE  IInv'
<1>1. Types'
  BY DEF Distinct, IInv, Types, End, Goto, SetPriv, Instances
<1>2. Creators'
  BY DEF Distinct, IInv, Types, Creators, Created, End, Goto, SetPriv, Instances
<1>3. Successor'
  BY DEF Distinct, IInv, Types, Successor, End, Goto, SetPriv, Instances, Null, NoService
<1>4. Servers'
  BY DEF Distinct, IInv, Types, Servers, Served, Serving, End, Goto, SetPriv, Instances
<1> QED BY <1>1, <1>2, <1>3, <1>4 DEF IInv

(* The file decides: ports stay as they are.                                *)
LEMMA StatStep ==
    ASSUME Distinct, IInv, NEW i \in Instances, Stat(i)
    PROVE  IInv'
<1> USE DEF Distinct, Instances, Null, NoService, User
<1>1. CASE flag
  <2>1. /\ place[i] = "stat"
        /\ place' = [place EXCEPT ![i] = "unregister"]
        /\ UNCHANGED <<bootstrap_port, server_priv_port, service_rcv_port, kr, service, flag>>
    BY <1>1 DEF IInv, Types, Creators, Created, Successor, Stat, Goto, SetPriv, Fails
  <2>2. Types'
    BY <2>1 DEF IInv, Types
  <2>3. Creators'
    BY <2>1 DEF IInv, Types, Successor, Creators, Created
  <2>4. Successor'
    BY <2>1 DEF IInv, Types, Creators, Created, Successor
  <2>5. ASSUME NEW j \in Instances PROVE Served(j)'
    <3>1. CASE j = i
      BY <2>1, <3>1 DEF IInv, Types, Creators, Created, Successor, Servers, Served,
         Serving
    <3>2. CASE j # i
      BY <2>1, <3>2 DEF IInv, Types, Servers, Served, Serving
    <3> QED BY <3>1, <3>2
  <2> QED BY <2>2, <2>3, <2>4, <2>5 DEF IInv, Servers
<1>2. CASE ~flag
  <2>1. /\ place[i] = "stat"
        /\ place' = [place EXCEPT ![i] = "check in"]
        /\ UNCHANGED <<bootstrap_port, server_priv_port, service_rcv_port, kr, service, flag>>
    BY <1>2 DEF IInv, Types, Creators, Created, Successor, Stat, Goto, SetPriv, Fails
  <2>2. Types'
    BY <2>1 DEF IInv, Types
  <2>3. Creators'
    BY <2>1 DEF IInv, Types, Successor, Creators, Created
  <2>4. Successor'
    BY <2>1 DEF IInv, Types, Creators, Created, Successor
  <2>5. ASSUME NEW j \in Instances PROVE Served(j)'
    <3>1. CASE j = i
      BY <2>1, <3>1 DEF IInv, Types, Creators, Created, Successor, Servers, Served,
         Serving
    <3>2. CASE j # i
      BY <2>1, <3>2 DEF IInv, Types, Servers, Served, Serving
    <3> QED BY <3>1, <3>2
  <2> QED BY <2>2, <2>3, <2>4, <2>5 DEF IInv, Servers
<1> QED BY <1>1, <1>2 DEF Stat

(* The right is destroyed, and the instance that has the port may serve.    *)
LEMMA DestroyRightStep ==
    ASSUME Distinct, IInv, NEW i \in Instances, DestroyRight(i)
    PROVE  IInv'
<1> USE DEF Distinct, Instances, Null, NoService, User
<1>1. CASE kr[i] = "error"
  <2>1. /\ place[i] = "destroy right"
        /\ place' = [place EXCEPT ![i] = "error"]
        /\ service_rcv_port' = [service_rcv_port EXCEPT ![i] = Null]
        /\ UNCHANGED <<bootstrap_port, server_priv_port, kr, service, flag>>
    BY <1>1 DEF IInv, Types, Creators, Created, Successor, DestroyRight, Goto, SetPriv,
       Fails
  <2>2. Types'
    BY <2>1 DEF IInv, Types
  <2>3. Creators'
    BY <2>1 DEF IInv, Types, Successor, Creators, Created
  <2>4. Successor'
    BY <2>1 DEF IInv, Types, Creators, Created, Successor
  <2>5. ASSUME NEW j \in Instances PROVE Served(j)'
    <3>1. CASE j = i
      BY <2>1, <3>1 DEF IInv, Types, Creators, Created, Successor, Servers, Served,
         Serving
    <3>2. CASE j # i
      BY <2>1, <3>2 DEF IInv, Types, Servers, Served, Serving
    <3> QED BY <3>1, <3>2
  <2> QED BY <2>2, <2>3, <2>4, <2>5 DEF IInv, Servers
<1>2. CASE kr[i] # "error"
  <2>1. /\ place[i] = "destroy right"
        /\ place' = [place EXCEPT ![i] = "loop"]
        /\ kr[i] = "success"
        /\ service_rcv_port' = [service_rcv_port EXCEPT ![i] = Null]
        /\ UNCHANGED <<bootstrap_port, server_priv_port, kr, service, flag>>
    BY <1>2 DEF IInv, Types, Creators, Created, Successor, DestroyRight, Goto, SetPriv,
       Fails
  <2>2. Types'
    BY <2>1 DEF IInv, Types
  <2>3. Creators'
    BY <2>1 DEF IInv, Types, Successor, Creators, Created
  <2>4. Successor'
    BY <2>1 DEF IInv, Types, Creators, Created, Successor
  <2>5. ASSUME NEW j \in Instances PROVE Served(j)'
    <3>1. CASE j = i
      BY <2>1, <3>1 DEF IInv, Types, Creators, Created, Successor, Servers, Served,
         Serving
    <3>2. CASE j # i
      BY <2>1, <3>2 DEF IInv, Types, Servers, Served, Serving
    <3> QED BY <3>1, <3>2
  <2> QED BY <2>2, <2>3, <2>4, <2>5 DEF IInv, Servers
<1> QED BY <1>1, <1>2 DEF DestroyRight

(* Only Job has a bootstrap port through which the service can be checked   *)
(* in.                                                                      *)
LEMMA CheckInStep ==
    ASSUME Distinct, IInv, NEW i \in Instances, CheckIn(i)
    PROVE  IInv'
<1> USE DEF Distinct, Instances, Null, NoService, User
<1>1. CASE service = NoService
  <2>1. /\ place[i] = "check in"
        /\ place' = [place EXCEPT ![i] = "create server"]
        /\ i \in ByHand
        /\ service = NoService
        /\ UNCHANGED <<bootstrap_port, server_priv_port, service_rcv_port, kr, service, flag>>
    BY <1>1 DEF IInv, Types, Creators, Created, Successor, CheckIn, Goto, SetPriv, Fails
  <2>2. Types'
    BY <2>1 DEF IInv, Types
  <2>3. Creators'
    BY <2>1 DEF IInv, Types, Successor, Creators, Created
  <2>4. Successor'
    BY <2>1 DEF IInv, Types, Creators, Created, Successor
  <2>5. ASSUME NEW j \in Instances PROVE Served(j)'
    <3>1. CASE j = i
      BY <2>1, <3>1 DEF IInv, Types, Creators, Created, Successor, Servers, Served,
         Serving
    <3>2. CASE j # i
      BY <2>1, <3>2 DEF IInv, Types, Servers, Served, Serving
    <3> QED BY <3>1, <3>2
  <2> QED BY <2>2, <2>3, <2>4, <2>5 DEF IInv, Servers
<1>2. CASE service # NoService /\ service = bootstrap_port[i]
          /\ \A j \in Instances : service_rcv_port[j] = Null
  <2>1. /\ place[i] = "check in"
        /\ place' = [place EXCEPT ![i] = "destroy right"]
        /\ i = Job
        /\ service # NoService
        /\ server_priv_port' = [server_priv_port EXCEPT ![i] = service]
        /\ service_rcv_port' = [service_rcv_port EXCEPT ![i] = "right"]
        /\ UNCHANGED <<bootstrap_port, kr, service, flag>>
    BY <1>2 DEF IInv, Types, Creators, Created, Successor, CheckIn, Goto, SetPriv, Fails
  <2>2. Types'
    BY <2>1 DEF IInv, Types
  <2>3. Creators'
    BY <2>1 DEF IInv, Types, Successor, Creators, Created
  <2>4. Successor'
    BY <2>1 DEF IInv, Types, Creators, Created, Successor
  <2>5. ASSUME NEW j \in Instances PROVE Served(j)'
    <3>1. CASE j = i
      BY <2>1, <3>1 DEF IInv, Types, Creators, Created, Successor, Servers, Served,
         Serving
    <3>2. CASE j # i
      BY <2>1, <3>2 DEF IInv, Types, Servers, Served, Serving
    <3> QED BY <3>1, <3>2
  <2> QED BY <2>2, <2>3, <2>4, <2>5 DEF IInv, Servers
<1>3. CASE service # NoService
          /\ ~(service = bootstrap_port[i] /\ \A j \in Instances : service_rcv_port[j] = Null)
  <2>1. /\ place[i] = "check in"
        /\ place' = [place EXCEPT ![i] = "destroy right"]
        /\ service # NoService
        /\ kr' = [kr EXCEPT ![i] = "error"]
        /\ UNCHANGED <<bootstrap_port, server_priv_port, service_rcv_port, service, flag>>
    BY <1>3 DEF IInv, Types, Creators, Created, Successor, CheckIn, Goto, SetPriv, Fails
  <2>2. Types'
    BY <2>1 DEF IInv, Types
  <2>3. Creators'
    BY <2>1 DEF IInv, Types, Successor, Creators, Created
  <2>4. Successor'
    BY <2>1 DEF IInv, Types, Creators, Created, Successor
  <2>5. ASSUME NEW j \in Instances PROVE Served(j)'
    <3>1. CASE j = i
      BY <2>1, <3>1 DEF IInv, Types, Creators, Created, Successor, Servers, Served,
         Serving
    <3>2. CASE j # i
      BY <2>1, <3>2 DEF IInv, Types, Servers, Served, Serving
    <3> QED BY <3>1, <3>2
  <2> QED BY <2>2, <2>3, <2>4, <2>5 DEF IInv, Servers
<1> QED BY <1>1, <1>2, <1>3 DEF CheckIn

(* A new server has no service yet; Job never creates one.                  *)
LEMMA CreateServerStep ==
    ASSUME Distinct, IInv, NEW i \in Instances, CreateServer(i)
    PROVE  IInv'
<1> USE DEF Distinct, Instances, Null, NoService, User
<1>1. i \in ByHand
  BY DEF IInv, Successor, CreateServer
<1>2. CASE SetPriv(i, i) /\ Goto(i, "create service") /\ UNCHANGED kr
  <2>1. /\ place[i] = "create server"
        /\ place' = [place EXCEPT ![i] = "create service"]
        /\ server_priv_port' = [server_priv_port EXCEPT ![i] = i]
        /\ UNCHANGED <<bootstrap_port, service_rcv_port, kr, service, flag>>
    BY <1>1, <1>2 DEF IInv, Types, Creators, Created, Successor, CreateServer, Goto,
       SetPriv, Fails
  <2>2. Types'
    BY <1>1, <2>1 DEF IInv, Types
  <2>3. Creators'
    BY <1>1, <2>1 DEF IInv, Types, Successor, Creators, Created
  <2>4. Successor'
    BY <1>1, <2>1 DEF IInv, Types, Creators, Created, Successor
  <2>5. ASSUME NEW j \in Instances PROVE Served(j)'
    <3>1. CASE j = i
      BY <1>1, <2>1, <3>1 DEF IInv, Types, Creators, Created, Successor, Servers,
         Served, Serving
    <3>2. CASE j # i
      BY <1>1, <2>1, <3>2 DEF IInv, Types, Servers, Served, Serving
    <3> QED BY <3>1, <3>2
  <2> QED BY <2>2, <2>3, <2>4, <2>5 DEF IInv, Servers
<1>3. CASE Fails(i) /\ Goto(i, "error") /\ UNCHANGED server_priv_port
  <2>1. /\ place[i] = "create server"
        /\ place' = [place EXCEPT ![i] = "error"]
        /\ kr' = [kr EXCEPT ![i] = "error"]
        /\ UNCHANGED <<bootstrap_port, server_priv_port, service_rcv_port, service, flag>>
    BY <1>1, <1>3 DEF IInv, Types, Creators, Created, Successor, CreateServer, Goto,
       SetPriv, Fails
  <2>2. Types'
    BY <1>1, <2>1 DEF IInv, Types
  <2>3. Creators'
    BY <1>1, <2>1 DEF IInv, Types, Successor, Creators, Created
  <2>4. Successor'
    BY <1>1, <2>1 DEF IInv, Types, Creators, Created, Successor
  <2>5. ASSUME NEW j \in Instances PROVE Served(j)'
    <3>1. CASE j = i
      BY <1>1, <2>1, <3>1 DEF IInv, Types, Creators, Created, Successor, Servers,
         Served, Serving
    <3>2. CASE j # i
      BY <1>1, <2>1, <3>2 DEF IInv, Types, Servers, Served, Serving
    <3> QED BY <3>1, <3>2
  <2> QED BY <2>2, <2>3, <2>4, <2>5 DEF IInv, Servers
<1> QED BY <1>1, <1>2, <1>3 DEF CreateServer

(* The service goes to one server: while there is none, nobody serves and   *)
(* Job is not running.                                                      *)
LEMMA CreateServiceStep ==
    ASSUME Distinct, IInv, NEW i \in Instances, CreateService(i)
    PROVE  IInv'
<1> USE DEF Distinct, Instances, Null, NoService, User
<1>1. i \in ByHand
  BY DEF IInv, Successor, CreateService
<1>2. CASE /\ service = NoService /\ service' = server_priv_port[i]
          /\ Goto(i, "check in new") /\ UNCHANGED <<server_priv_port, kr>>
  <2>1. /\ place[i] = "create service"
        /\ place' = [place EXCEPT ![i] = "check in new"]
        /\ service = NoService /\ service' = i
        /\ server_priv_port[i] = i
        /\ UNCHANGED <<bootstrap_port, server_priv_port, service_rcv_port, kr, flag>>
    BY <1>1, <1>2 DEF IInv, Types, Creators, Created, Successor, CreateService, Goto,
       SetPriv, Fails
  <2>2. Types'
    BY <1>1, <2>1 DEF IInv, Types
  <2>3. Creators'
    BY <1>1, <2>1 DEF IInv, Types, Successor, Creators, Created
  <2>4. Successor'
    BY <1>1, <2>1 DEF IInv, Types, Creators, Created, Successor
  <2>5. ASSUME NEW j \in Instances PROVE Served(j)'
    <3>1. CASE j = i
      BY <1>1, <2>1, <3>1 DEF IInv, Types, Creators, Created, Successor, Servers,
         Served, Serving
    <3>2. CASE j # i
      BY <1>1, <2>1, <3>2 DEF IInv, Types, Servers, Served, Serving
    <3> QED BY <3>1, <3>2
  <2> QED BY <2>2, <2>3, <2>4, <2>5 DEF IInv, Servers
<1>3. CASE SetPriv(i, Null) /\ Fails(i) /\ Goto(i, "error") /\ UNCHANGED service
  <2>1. /\ place[i] = "create service"
        /\ place' = [place EXCEPT ![i] = "error"]
        /\ server_priv_port' = [server_priv_port EXCEPT ![i] = Null]
        /\ kr' = [kr EXCEPT ![i] = "error"]
        /\ UNCHANGED <<bootstrap_port, service_rcv_port, service, flag>>
    BY <1>1, <1>3 DEF IInv, Types, Creators, Created, Successor, CreateService, Goto,
       SetPriv, Fails
  <2>2. Types'
    BY <1>1, <2>1 DEF IInv, Types
  <2>3. Creators'
    BY <1>1, <2>1 DEF IInv, Types, Successor, Creators, Created
  <2>4. Successor'
    BY <1>1, <2>1 DEF IInv, Types, Creators, Created, Successor
  <2>5. ASSUME NEW j \in Instances PROVE Served(j)'
    <3>1. CASE j = i
      BY <1>1, <2>1, <3>1 DEF IInv, Types, Creators, Created, Successor, Servers,
         Served, Serving
    <3>2. CASE j # i
      BY <1>1, <2>1, <3>2 DEF IInv, Types, Servers, Served, Serving
    <3> QED BY <3>1, <3>2
  <2> QED BY <2>2, <2>3, <2>4, <2>5 DEF IInv, Servers
<1> QED BY <1>1, <1>2, <1>3 DEF CreateService

(* The right is checked in by the instance that has just declared.          *)
LEMMA CheckInNewStep ==
    ASSUME Distinct, IInv, NEW i \in Instances, CheckInNew(i)
    PROVE  IInv'
<1> USE DEF Distinct, Instances, Null, NoService, User
<1>1. i \in ByHand
  BY DEF IInv, Successor, CheckInNew
<1>2. CASE /\ Goto(i, "destroy right") /\ UNCHANGED <<server_priv_port, kr>>
          /\ service_rcv_port' = [service_rcv_port EXCEPT ![i] = "right"]
  <2>1. /\ place[i] = "check in new"
        /\ place' = [place EXCEPT ![i] = "destroy right"]
        /\ service_rcv_port' = [service_rcv_port EXCEPT ![i] = "right"]
        /\ kr[i] = "success"
        /\ UNCHANGED <<bootstrap_port, server_priv_port, kr, service, flag>>
    BY <1>1, <1>2 DEF IInv, Types, Creators, Created, Servers, Served, CheckInNew, Goto,
       SetPriv, Fails
  <2>2. Types'
    BY <1>1, <2>1 DEF IInv, Types
  <2>3. Creators'
    BY <1>1, <2>1 DEF IInv, Types, Successor, Creators, Created
  <2>4. Successor'
    BY <1>1, <2>1 DEF IInv, Types, Creators, Created, Successor
  <2>5. ASSUME NEW j \in Instances PROVE Served(j)'
    <3>1. CASE j = i
      BY <1>1, <2>1, <3>1 DEF IInv, Types, Creators, Created, Successor, Servers,
         Served, Serving
    <3>2. CASE j # i
      BY <1>1, <2>1, <3>2 DEF IInv, Types, Servers, Served, Serving
    <3> QED BY <3>1, <3>2
  <2> QED BY <2>2, <2>3, <2>4, <2>5 DEF IInv, Servers
<1>3. CASE SetPriv(i, Null) /\ Fails(i) /\ Goto(i, "error") /\ UNCHANGED service_rcv_port
  <2>1. /\ place[i] = "check in new"
        /\ place' = [place EXCEPT ![i] = "error"]
        /\ server_priv_port' = [server_priv_port EXCEPT ![i] = Null]
        /\ kr' = [kr EXCEPT ![i] = "error"]
        /\ UNCHANGED <<bootstrap_port, service_rcv_port, service, flag>>
    BY <1>1, <1>3 DEF IInv, Types, Creators, Created, Successor, CheckInNew, Goto,
       SetPriv, Fails
  <2>2. Types'
    BY <1>1, <2>1 DEF IInv, Types
  <2>3. Creators'
    BY <1>1, <2>1 DEF IInv, Types, Successor, Creators, Created
  <2>4. Successor'
    BY <1>1, <2>1 DEF IInv, Types, Creators, Created, Successor
  <2>5. ASSUME NEW j \in Instances PROVE Served(j)'
    <3>1. CASE j = i
      BY <1>1, <2>1, <3>1 DEF IInv, Types, Creators, Created, Successor, Servers,
         Served, Serving
    <3>2. CASE j # i
      BY <1>1, <2>1, <3>2 DEF IInv, Types, Servers, Served, Serving
    <3> QED BY <3>1, <3>2
  <2> QED BY <2>2, <2>3, <2>4, <2>5 DEF IInv, Servers
<1> QED BY <1>1, <1>2, <1>3 DEF CheckInNew

(* The instance that is to destroy the service does nothing to it.          *)
LEMMA UnregisterStep ==
    ASSUME Distinct, IInv, NEW i \in Instances, Unregister(i)
    PROVE  IInv' /\ service' = service
<1>1. server_priv_port[i] = Null /\ service' = service
  BY DEF Distinct, IInv, Types, Creators, Created, Successor, Unregister, Instances, Null, NoService
<1>2. Types'
  BY <1>1 DEF Distinct, IInv, Types, Unregister, Goto, Fails, Instances
<1>3. Creators'
  BY <1>1 DEF Distinct, IInv, Types, Creators, Created, Unregister, Goto, Fails, Instances
<1>4. Successor'
  BY <1>1 DEF Distinct, IInv, Types, Successor, Unregister, Goto, Fails, Instances
<1>5. Servers'
  BY <1>1 DEF Distinct, IInv, Types, Servers, Served, Serving, Unregister, Goto, Fails, Instances
<1> QED BY <1>1, <1>2, <1>3, <1>4, <1>5 DEF IInv

LEMMA Inductive ==
    ASSUME Distinct, IInv, [Next]_vars
    PROVE  IInv'
<1>1. CASE UNCHANGED vars
  BY <1>1 DEF vars, IInv, Types, Creators, Created, Successor, Servers, Served, Serving
<1>2. ASSUME NEW i \in ByHand, LaunchByHand(i)
      PROVE  IInv'
  BY <1>2, LaunchStep
<1>3. CASE Relaunch
  BY <1>3, RelaunchStep
<1>4. CASE TouchFlag
  BY <1>4 DEF TouchFlag, IInv, Types, Creators, Created, Successor, Servers, Served, Serving
<1>5. ASSUME NEW i \in Instances, Step(i)
      PROVE  IInv'
  <2>1. CASE Exit(i)
    BY <2>1, EndStep DEF Exit
  <2> QED
    BY <1>5, <2>1, StatStep, DestroyRightStep, CheckInStep, CreateServerStep, CreateServiceStep,
       CheckInNewStep, UnregisterStep DEF Step
<1>6. ASSUME NEW i \in Instances, Killed(i)
      PROVE  IInv'
  BY <1>6, EndStep DEF Killed
<1> QED BY <1>1, <1>2, <1>3, <1>4, <1>5, <1>6 DEF Next

(* Launches and events are counted up to their bounds.                      *)
LEMMA CountedStep ==
    ASSUME JobAssumption, Counted, [Next]_vars
    PROVE  Counted'
<1>1. ASSUME NEW i \in Instances, Step(i)
      PROVE  UNCHANGED <<launches, events>> \/ (Event /\ UNCHANGED launches)
  BY <1>1 DEF Step, Stat, CheckIn, CreateServer, CreateService, CheckInNew, DestroyRight,
     Unregister, Exit, Event
<1>2. \/ UNCHANGED <<launches, events>>
      \/ Event /\ UNCHANGED launches
      \/ launches < MaxLaunches /\ launches' = launches + 1 /\ UNCHANGED events
  BY <1>1 DEF Next, vars, LaunchByHand, Relaunch, Start, TouchFlag, Killed, Event
<1> QED BY <1>2 DEF JobAssumption, Counted, Event

-----------------------------------------------------------------------------
\* One server (9-16/bootstrap_server.c): whatever the shell and launchd start,
\* and whatever fails or is killed, at most one instance is in the server loop,
\* and it holds the port of the declared service.
THEOREM OneInTheLoop ==
    ASSUME JobAssumption
    PROVE  Spec => []OneServer
<1>1. Init => IInv
  BY Names, Initial
<1>2. IInv /\ [Next]_vars => IInv'
  BY Names, Inductive
<1>3. Init => Counted
  BY DEF Init, Counted, JobAssumption
<1>4. Counted /\ [Next]_vars => Counted'
  BY CountedStep
<1>5. ASSUME IInv, Counted
      PROVE  OneServer
  <2>1. \A i \in ByHand : server_priv_port[i] = service => i = service
    BY <1>5, Names DEF Distinct, IInv, Types, Creators, Created, Instances, Null, NoService
  <2>2. \A i, j \in Instances : place[i] = "loop" /\ place[j] = "loop" => i = j
    BY <1>5, <2>1 DEF IInv, Successor, Servers, Served, Serving, Instances
  <2> QED BY <1>5, <2>2 DEF IInv, TypeOK, Servers, Served, Serving, OneServer
<1> QED BY <1>1, <1>2, <1>3, <1>4, <1>5, PTL DEF Spec

\* The service stays for good: no step of any instance undeclares it, not even
\* that of an instance which is to destroy it.
THEOREM ServiceStays ==
    ASSUME JobAssumption
    PROVE  Spec => [][service # NoService => service' = service]_vars
<1>1. Init => IInv
  BY Names, Initial
<1>2. IInv /\ [Next]_vars => IInv'
  BY Names, Inductive
<1>3. IInv /\ [Next]_vars => [service # NoService => service' = service]_vars
  <2> SUFFICES ASSUME IInv, Next PROVE service # NoService => service' = service
    BY DEF vars
  <2>1. ASSUME NEW i \in Instances, Step(i)
        PROVE  service # NoService => service' = service
    BY <2>1, Names, UnregisterStep DEF Step, Stat, CheckIn, CreateServer, CreateService, CheckInNew,
       DestroyRight, Exit
  <2> QED
    BY <2>1 DEF Next, LaunchByHand, Relaunch, Start, TouchFlag, Killed
<1> QED BY <1>1, <1>2, <1>3, PTL DEF Spec

-----------------------------------------------------------------------------
(* The programs together: in every step one of them takes a step of its     *)
(* own, and the others stay as they are.                                    *)
LEMMA Apart ==
    ASSUME [MCNext]_mcVars
    PROVE  /\ [Next]_vars
           /\ [Trace!Next]_(Trace!vars)
           /\ [Shm!Next]_(Shm!vars)
           /\ [Notification!Next]_(Notification!vars)
<1>1. [Next]_vars
  BY Zenon DEF MCNext, mcVars
<1>2. [Trace!Next]_(Trace!vars)
  BY Zenon DEF MCNext, mcVars, trace, Trace!vars, Trace!facility, Trace!globals
<1>3. [Shm!Next]_(Shm!vars)
  BY Zenon DEF MCNext, mcVars, shm, Shm!vars, Shm!serverVars, Shm!memoryVars
<1>4. [Notification!Next]_(Notification!vars)
  BY Zenon DEF MCNext, mcVars, notification, Notification!vars, Notification!threadVars,
               Notification!tokenVars, Notification!signalVars
<1> QED BY <1>1, <1>2, <1>3, <1>4

\* The exchanges as they are model-checked, for all values of the constants
\* that fit: whichever of them goes on (6-29, 8-17 to 8-19, 9-16, 9-57 to 9-59),
\* its safety property holds.
THEOREM ExchangesKeepTheirPromises ==
    ASSUME MachConstants
    PROVE  MCSpec => [](CleanRuns /\ OnlyWritten /\ Accounted /\ OneServer)
<1>1. MCInit => Init /\ Trace!Init /\ Shm!Init /\ Notification!Init
  BY Zenon DEF MCInit
<1>2. MCSpec => []OneServer
  <2> JobAssumption
    BY Assumptions DEF Assumptions
  <2> QED BY <1>1, Apart, OneInTheLoop, PTL DEF MCSpec, Spec
<1>3. MCSpec => []CleanRuns
  <2> Trace!ConstantsAssumption
    BY Assumptions DEF Assumptions
  <2> QED BY <1>1, Apart, TracerCleansUp, PTL DEF MCSpec, Trace!Spec
<1>4. MCSpec => []OnlyWritten
  <2> Shm!TextsAssumption
    BY Assumptions DEF Assumptions
  <2> QED BY <1>1, Apart, OnlyWrittenIsPrinted, PTL DEF MCSpec, Shm!Spec
<1>5. MCSpec => []Accounted
  <2> Notification!BoundsAssumption
    BY Assumptions DEF Assumptions
  <2> QED BY <1>1, Apart, EveryPostAccounted, PTL DEF MCSpec, Notification!Spec
<1> QED BY <1>2, <1>3, <1>4, <1>5, PTL
=============================================================================
