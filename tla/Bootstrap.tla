----------------------------- MODULE Bootstrap ------------------------------
(***************************************************************************)
(* bootstrap_server (9-16/bootstrap_server.c): started by hand, it makes   *)
(* itself a server of launchd's and declares a service; launchd then       *)
(* starts it again whenever it ends.  An instance that finds the shutdown  *)
(* file is to destroy the service instead.  launchd is external: servers   *)
(* are named after the instance that created them, and a service belongs   *)
(* to the server through whose port it was created.                        *)
(***************************************************************************)
EXTENDS Integers

CONSTANTS
    ByHand,       \* instances started from a shell
    Job,          \* the instance started by launchd
    MaxLaunches,  \* by hand
    MaxEvents     \* failures, kills, and changes of the file, together

\* Assumed of the constants where they get their values.
JobAssumption ==
    /\ Job \notin ByHand /\ {"none", "null", "user"} \cap (ByHand \cup {Job}) = {}
    /\ MaxLaunches \in Nat /\ MaxEvents \in Nat

VARIABLES
    place,           \* where each instance is
    bootstrap_port,  \* its bootstrap port: the user's, or that of a server
    server_priv_port,
    service_rcv_port,\* the service's receive right, or none
    kr,              \* success, or the error it has been told of
    service,         \* the server that declared the service, or none
    flag,            \* the shutdown file exists
    launches, events

vars == <<place, bootstrap_port, server_priv_port, service_rcv_port, kr, service, flag,
          launches, events>>

Instances == ByHand \cup {Job}
NoService == "none"
Null      == "null"    \* MACH_PORT_NULL, what a static port is at first
User      == "user"    \* the bootstrap port of a shell

Goto(i, p) == place' = [place EXCEPT ![i] = p]
SetPriv(i, port) == server_priv_port' = [server_priv_port EXCEPT ![i] = port]
Fails(i) == kr' = [kr EXCEPT ![i] = "error"]

Init ==
    /\ place = [i \in Instances |-> "off"] /\ kr = [i \in Instances |-> "success"]
    /\ bootstrap_port = [i \in Instances |-> User]
    /\ server_priv_port = [i \in Instances |-> Null]
    /\ service_rcv_port = [i \in Instances |-> Null]
    /\ service = NoService /\ flag \in BOOLEAN /\ launches = 0 /\ events = 0

-----------------------------------------------------------------------------
(* The shell, launchd, and what may happen.                                 *)
Start(i, port) ==
    /\ place[i] = "off" /\ Goto(i, "stat")
    /\ bootstrap_port' = [bootstrap_port EXCEPT ![i] = port]
    /\ SetPriv(i, Null) /\ kr' = [kr EXCEPT ![i] = "success"]
    /\ UNCHANGED <<service_rcv_port, service, flag, events>>

LaunchByHand(i) ==
    /\ launches < MaxLaunches /\ launches' = launches + 1 /\ Start(i, User)

Holds(i, port) == place[i] # "off" /\ port \in {bootstrap_port[i], server_priv_port[i]}

(* Not on demand: the server is started again once nobody holds its port.   *)
Relaunch ==
    /\ service # NoService /\ \A i \in Instances : ~Holds(i, service)
    /\ Start(Job, service) /\ UNCHANGED launches

Event == events < MaxEvents /\ events' = events + 1

End(i) ==
    /\ Goto(i, "off") /\ SetPriv(i, Null)
    /\ service_rcv_port' = [service_rcv_port EXCEPT ![i] = Null]

Killed(i) ==
    /\ Event /\ place[i] # "off" /\ End(i)
    /\ UNCHANGED <<bootstrap_port, kr, service, flag, launches>>

TouchFlag ==
    /\ Event /\ flag' = ~flag
    /\ UNCHANGED <<place, bootstrap_port, server_priv_port, service_rcv_port, kr, service,
                   launches>>

-----------------------------------------------------------------------------
(* main(): the shutdown file decides what the instance is for.              *)
Stat(i) ==
    /\ place[i] = "stat" /\ Goto(i, IF flag THEN "unregister" ELSE "check in")
    /\ UNCHANGED <<bootstrap_port, server_priv_port, service_rcv_port, kr, service, flag,
                   launches, events>>

(* The service can be checked in only through the port of its own server.   *)
(* After any other error the uninitialized service_rcv_port is destroyed,   *)
(* whatever it names, and the instance ends.                                *)
CheckIn(i) ==
    /\ place[i] = "check in"
    /\ IF service = NoService
       THEN Goto(i, "create server") /\ UNCHANGED <<server_priv_port, service_rcv_port, kr>>
       ELSE /\ Goto(i, "destroy right")
            /\ IF service = bootstrap_port[i] /\ \A j \in Instances : service_rcv_port[j] = Null
               THEN /\ SetPriv(i, bootstrap_port[i]) /\ UNCHANGED kr
                    /\ service_rcv_port' = [service_rcv_port EXCEPT ![i] = "right"]
               ELSE Fails(i) /\ UNCHANGED <<server_priv_port, service_rcv_port>>
    /\ UNCHANGED <<bootstrap_port, service, flag, launches, events>>

CreateServer(i) ==
    /\ place[i] = "create server"
    /\ \/ SetPriv(i, i) /\ Goto(i, "create service") /\ UNCHANGED <<kr, events>>
       \/ Event /\ Fails(i) /\ Goto(i, "error") /\ UNCHANGED server_priv_port
    /\ UNCHANGED <<bootstrap_port, service_rcv_port, service, flag, launches>>

(* Mutant: the return value is only looked at by main(), after it has been  *)
(* overwritten.                                                             *)
CreateService_Ignore(i) ==
    /\ place[i] = "create service"
    /\ Goto(i, "check in new") /\ UNCHANGED <<server_priv_port, kr, events>>
    /\ service' = IF service = NoService THEN server_priv_port[i] ELSE service
    /\ UNCHANGED <<bootstrap_port, service_rcv_port, flag, launches>>

(* Somebody else may have declared the service since CheckIn.               *)
CreateService(i) ==
    /\ place[i] = "create service"
    /\ \/ /\ service = NoService /\ service' = server_priv_port[i]
          /\ Goto(i, "check in new") /\ UNCHANGED <<server_priv_port, kr, events>>
       \/ /\ service # NoService \/ events < MaxEvents
          /\ events' = IF service = NoService THEN events + 1 ELSE events
          /\ SetPriv(i, Null) /\ Fails(i) /\ Goto(i, "error") /\ UNCHANGED service
    /\ UNCHANGED <<bootstrap_port, service_rcv_port, flag, launches>>

CheckInNew(i) ==
    /\ place[i] = "check in new"
    /\ \/ /\ service_rcv_port' = [service_rcv_port EXCEPT ![i] = "right"]
          /\ Goto(i, "destroy right") /\ UNCHANGED <<server_priv_port, kr, events>>
       \/ /\ Event /\ SetPriv(i, Null) /\ Fails(i) /\ Goto(i, "error")
          /\ UNCHANGED service_rcv_port
    /\ UNCHANGED <<bootstrap_port, service, flag, launches>>

(* mach_port_destroy(): the right goes back to launchd.                     *)
DestroyRight(i) ==
    /\ place[i] = "destroy right" /\ Goto(i, IF kr[i] = "error" THEN "error" ELSE "loop")
    /\ service_rcv_port' = [service_rcv_port EXCEPT ![i] = Null]
    /\ UNCHANGED <<bootstrap_port, server_priv_port, kr, service, flag, launches, events>>

(* bootstrap_register() of MACH_PORT_NULL, sent to server_priv_port.  "When *)
(* unregistering, we will get here if the unregister succeeded", says the   *)
(* comment on the test of kr: the instance ends in any case.                *)
Unregister(i) ==
    /\ place[i] = "unregister" /\ Fails(i) /\ Goto(i, "error")
    /\ service' = IF server_priv_port[i] = service THEN NoService ELSE service
    /\ UNCHANGED <<bootstrap_port, server_priv_port, service_rcv_port, flag, launches, events>>

Exit(i) ==
    /\ place[i] = "error" /\ End(i)
    /\ UNCHANGED <<bootstrap_port, kr, service, flag, launches, events>>

Step(i) ==
    \/ Stat(i) \/ CheckIn(i) \/ CreateServer(i) \/ CreateService(i) \/ CheckInNew(i)
    \/ DestroyRight(i) \/ Unregister(i) \/ Exit(i)

Next ==
    \/ \E i \in ByHand : LaunchByHand(i)
    \/ Relaunch \/ TouchFlag
    \/ \E i \in Instances : Step(i) \/ Killed(i)

(* The processes run, and launchd does start the server again.              *)
Fairness == WF_vars(Relaunch) /\ \A i \in Instances : WF_vars(Step(i))

Spec     == Init /\ [][Next]_vars
FairSpec == Spec /\ Fairness

-----------------------------------------------------------------------------
Counted == launches \in 0..MaxLaunches /\ events \in 0..MaxEvents

Types ==
    /\ place \in [Instances -> {"off", "stat", "check in", "create server", "create service",
                                "check in new", "destroy right", "loop", "unregister", "error"}]
    /\ bootstrap_port \in [Instances -> {User} \cup ByHand]
    /\ server_priv_port \in [Instances -> {Null} \cup ByHand]
    /\ service_rcv_port \in [Instances -> {Null, "right"}]
    /\ kr \in [Instances -> {"success", "error"}]
    /\ service \in {NoService} \cup ByHand /\ flag \in BOOLEAN

TypeOK == Types /\ Counted

\* However many instances are started by hand and by launchd, and whatever
\* fails between checking in and declaring the service: one at most gets to
\* the server loop ("server loop ready"), and it holds the port of the server
\* to which the declared service belongs, so that launchd does not start
\* another beside it.
OneServer ==
    /\ TypeOK
    /\ \A i, j \in Instances : place[i] = "loop" /\ place[j] = "loop" => i = j
    /\ \A i \in Instances : place[i] = "loop" => server_priv_port[i] = service /\ service_rcv_port[i] = Null

\* "If the shutdown flag file exists, we are destroying the service": once the
\* instance started by launchd has found the file, the service it was started
\* for ends, unless the file goes.
ShutdownDestroys == place[Job] = "unregister" ~> (service = NoService \/ ~flag)
=============================================================================
