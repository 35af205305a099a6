----------------------------- MODULE VmInherit ------------------------------
(***************************************************************************)
(* vm_inherit (8-14/vm_inherit.c): a page the child shares with its parent *)
(* and one it gets as a copy, made when one of them writes to it.  The     *)
(* kernel's maps and VM objects are external: objects are numbered.        *)
(***************************************************************************)
EXTENDS Integers, FiniteSets

VARIABLES
    parent, child,    \* where each of them is
    inherit,          \* of each page
    object,           \* the VM object behind each page of each process, 0: none
    content,          \* of each object
    seen              \* what peek_at_some_memory() has shown

vars == <<parent, child, inherit, object, content, seen>>

Pages   == {"shared", "cow"}
Objects == 1 .. 3
Who     == {"parent", "child"}

Init ==
    /\ parent = "allocate" /\ child = "none"
    /\ inherit = [page \in Pages |-> "copy"]
    /\ object = [who \in Who |-> [page \in Pages |-> 0]]
    /\ content = [o \in Objects |-> "zero"]
    /\ seen = {}

(* OUT_ON_MACH_ERROR                                                        *)
Or(goOn) ==
    \/ goOn
    \/ parent' = "out" /\ UNCHANGED <<inherit, object, content>>

Allocate ==
    /\ parent = "allocate" /\ Or(
          /\ parent' = "inherit" /\ UNCHANGED <<inherit, content>>
          /\ object' = [object EXCEPT !["parent"] = [shared |-> 1, cow |-> 2]])
    /\ UNCHANGED <<child, seen>>

(* Mutant: both pages are inherited alike.                                  *)
Inherit_Both ==
    /\ parent = "inherit" /\ Or(
          /\ parent' = "write" /\ UNCHANGED <<object, content>>
          /\ inherit' = [shared |-> "share", cow |-> "share"])
    /\ UNCHANGED <<child, seen>>

Inherit ==
    /\ parent = "inherit" /\ Or(
          /\ parent' = "write" /\ UNCHANGED <<object, content>>
          /\ inherit' = [shared |-> "share", cow |-> "copy"])
    /\ UNCHANGED <<child, seen>>

(* A write to a copied page that the other one still has, too, makes an     *)
(* object of its own.                                                       *)
Others(who)   == Who \ {who}
Fresh         == CHOOSE o \in Objects : \A who \in Who, page \in Pages : object[who][page] # o
Target(who, page) ==
    IF inherit[page] = "copy" /\ \E other \in Others(who) : object[other][page] = object[who][page]
    THEN Fresh ELSE object[who][page]

Write(who, values) ==
    LET targets == [page \in Pages |-> Target(who, page)] IN
    /\ object' = [object EXCEPT ![who] = targets]
    /\ content' = [o \in Objects |->
          IF \E page \in Pages : targets[page] = o
          THEN values[CHOOSE page \in Pages : targets[page] = o] ELSE content[o]]

FirstWrite ==
    /\ parent = "write" /\ parent' = "peek"
    /\ Write("parent", [shared |-> "AAAAAAAA", cow |-> "BBBBBBBB"])
    /\ UNCHANGED <<child, inherit, seen>>

peek(who, when) ==
    seen' = seen \cup {[who |-> who, when |-> when, ids |-> object[who],
                        values |-> [page \in Pages |-> content[object[who][page]]]]}

PeekFirst ==
    /\ parent = "peek" /\ parent' = "fork" /\ peek("parent", "before")
    /\ UNCHANGED <<child, inherit, object, content>>

(* fork(); its failure is not looked at, and there is nobody to wait for.   *)
Fork ==
    /\ parent = "fork" /\ parent' = "wait"
    /\ \/ child' = "peek" /\ object' = [object EXCEPT !["child"] = object["parent"]]
       \/ child' = "dead" /\ UNCHANGED object
    /\ UNCHANGED <<inherit, content, seen>>

ChildPeeks ==
    /\ child = "peek" /\ child' = "write" /\ peek("child", "before")
    /\ UNCHANGED <<parent, inherit, object, content>>

ChildWrites ==
    /\ child = "write" /\ child' = "peek again"
    /\ Write("child", [shared |-> "FEEDF00D", cow |-> "BADDF00D"])
    /\ UNCHANGED <<parent, inherit, seen>>

ChildPeeksAgain ==
    /\ child = "peek again" /\ child' = "dead" /\ peek("child", "after")
    /\ object' = [object EXCEPT !["child"] = [page \in Pages |-> 0]]
    /\ UNCHANGED <<parent, inherit, content>>

Killed ==
    /\ child \in {"peek", "write", "peek again"} /\ child' = "dead"
    /\ object' = [object EXCEPT !["child"] = [page \in Pages |-> 0]]
    /\ UNCHANGED <<parent, inherit, content, seen>>

PeekLast ==
    /\ parent = "wait" /\ child = "dead" /\ parent' = "out" /\ peek("parent", "after")
    /\ UNCHANGED <<child, inherit, object, content>>

Deallocate ==
    /\ parent = "out" /\ parent' = "exit"
    /\ object' = [object EXCEPT !["parent"] = [page \in Pages |-> 0]]
    /\ UNCHANGED <<child, inherit, content, seen>>

Next ==
    \/ Allocate \/ Inherit \/ FirstWrite \/ PeekFirst \/ Fork
    \/ ChildPeeks \/ ChildWrites \/ ChildPeeksAgain \/ Killed \/ PeekLast \/ Deallocate

Spec == Init /\ [][Next]_vars

-----------------------------------------------------------------------------
TypeOK ==
    /\ parent \in {"allocate", "inherit", "write", "peek", "fork", "wait", "out", "exit"}
    /\ child \in {"none", "peek", "write", "peek again", "dead"}
    /\ inherit \in [Pages -> {"share", "copy"}]
    /\ object \in [Who -> [Pages -> 0 .. 3]]

\* Both see one object behind the shared page at any time, and what the child
\* wrote there last is what its parent sees; the copied page is one object
\* until the child writes, and the parent never sees what the child wrote.
OwnCopies ==
    /\ TypeOK
    /\ \A s, t \in seen :
          /\ s.ids.shared = t.ids.shared
          /\ s.when = "before" /\ t.when = "before" => s = [t EXCEPT !.who = s.who]
          /\ s.who = "parent" => s.values.cow = "BBBBBBBB" /\ s.ids.cow = 2
          /\ s.who = "child" /\ s.when = "after" =>
                /\ s.values = [shared |-> "FEEDF00D", cow |-> "BADDF00D"] /\ s.ids.cow # 2
                /\ t.who = "parent" /\ t.when = "after" => t.values.shared = "FEEDF00D"
=============================================================================
