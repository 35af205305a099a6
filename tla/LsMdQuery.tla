----------------------------- MODULE LsMdQuery -----------------------------
(***************************************************************************)
(* lsmdquery (11-28/lsmdquery.c): runs a Spotlight query, given as a       *)
(* string or kept in a smart folder, and prints the results when they have *)
(* been gathered and each update after that.  Core Foundation and the      *)
(* query are external: the query changes its list of results whenever      *)
(* updates are enabled, and files may go at any time.                      *)
(***************************************************************************)
EXTENDS Integers, FiniteSets

CONSTANTS
    Files,        \* what a query may find
    MaxOptions,   \* bound: options on the command line
    MaxUpdates    \* bound: changes of the results

\* Assumed of the constants where they get their values.
BoundsAssumption == IsFiniteSet(Files) /\ MaxOptions \in Nat /\ MaxUpdates \in Nat

VARIABLES
    running,   \* where main() is
    strings,   \* query strings it owns: created, not released
    rawQuery,  \* the last option gave one
    owned,     \* open file, xmlData, pList and queryRef, as far as they exist
    options,   \* options seen
    results,   \* what the query has found
    updating,  \* updates are enabled
    updates,   \* changes so far
    gone,      \* files whose attributes cannot be had any more
    finished,  \* the notification that the results have been gathered: no, sent, handled
    shown,     \* results printed for it
    idx, total \* of the loop over the results

queryVars == <<results, updating, updates, gone>>
loopVars  == <<finished, shown, idx, total>>
vars == <<running, strings, rawQuery, owned, options, queryVars, loopVars>>

Init ==
    /\ running = "options" /\ strings = 0 /\ rawQuery = FALSE /\ owned = {} /\ options = 0
    /\ results = {} /\ updating = TRUE /\ updates = 0 /\ gone = {}
    /\ finished = "no" /\ shown = {} /\ idx = 0 /\ total = 0

-----------------------------------------------------------------------------
(* getopt(): of several options the last one counts, and the strings of the *)
(* others are not released.                                                 *)
QueryOption ==
    /\ running = "options" /\ options < MaxOptions /\ options' = options + 1
    /\ rawQuery' \in BOOLEAN /\ strings' = IF rawQuery' THEN strings + 1 ELSE strings
    /\ UNCHANGED <<running, owned, queryVars, loopVars>>

(* ExtractRawQueryFromSmartFolder(): each step may fail; CFRetain() comes   *)
(* before the test whether the folder has a query, and ends the program.    *)
FolderOption ==
    /\ running = "options" /\ options < MaxOptions /\ options' = options + 1
    /\ \/ running' = "open" /\ owned' = {"fd"} /\ UNCHANGED rawQuery
       \/ rawQuery' = FALSE /\ UNCHANGED <<running, owned>>
    /\ UNCHANGED <<strings, queryVars, loopVars>>

ReadFolder ==
    /\ running = "open"
    /\ \/ owned' = {"fd", "xmlData", "pList"} /\ running' = "extract"
       \/ owned' \in {{"fd"}, {"fd", "xmlData"}} /\ running' = "no query"
    /\ UNCHANGED <<strings, rawQuery, options, queryVars, loopVars>>

ExtractQuery ==
    /\ running = "extract"
    /\ \/ running' = "query" /\ strings' = strings + 1
       \/ running' = "crashed" /\ UNCHANGED strings
    /\ UNCHANGED <<rawQuery, owned, options, queryVars, loopVars>>

ExtractOut ==
    /\ running \in {"query", "no query"} /\ running' = "options"
    /\ rawQuery' = (running = "query") /\ owned' = {}
    /\ UNCHANGED <<strings, options, queryVars, loopVars>>

(* The options end, or one that there is not ends the program: exit_usage() *)
(* releases nothing.                                                        *)
OptionsDone ==
    /\ running = "options"
    /\ running' \in {"usage", IF rawQuery THEN "create" ELSE "usage"}
    /\ UNCHANGED <<strings, rawQuery, owned, options, queryVars, loopVars>>

(* The query, its observer and its execution, which live updates are part   *)
(* of; the run loop does not end.                                           *)
CreateQuery ==
    /\ running = "create"
    /\ \/ owned' = {"queryRef"} /\ running' \in {"loop", "out"}
       \/ running' = "out" /\ UNCHANGED owned
    /\ UNCHANGED <<strings, rawQuery, options, queryVars, loopVars>>

Out ==
    /\ running = "out" /\ running' = "exit"
    /\ strings' = strings - 1 /\ owned' = {}
    /\ UNCHANGED <<rawQuery, options, queryVars, loopVars>>

-----------------------------------------------------------------------------
(* The query gathers, then tells that it has; files come and go.            *)
Update ==
    /\ running \in {"loop", "callback"} /\ updating
    /\ updates < MaxUpdates /\ updates' = updates + 1
    /\ results' \in SUBSET Files \ {results}
    /\ UNCHANGED <<running, strings, rawQuery, owned, options, updating, gone, loopVars>>

(* A file goes, whether or not the query may tell of it.                    *)
Vanish(file) ==
    /\ running \in {"loop", "callback"} /\ gone' = gone \cup {file}
    /\ UNCHANGED <<running, strings, rawQuery, owned, options, results, updating, updates, loopVars>>

Gathered ==
    /\ running = "loop" /\ finished = "no" /\ finished' = "sent"
    /\ UNCHANGED <<running, strings, rawQuery, owned, options, queryVars, shown, idx, total>>

(* Mutant: updates stay enabled.                                            *)
DisableUpdates_Late ==
    /\ running = "loop" /\ finished = "sent" /\ running' = "callback"
    /\ total' = Cardinality(results) /\ idx' = 0
    /\ UNCHANGED <<strings, rawQuery, owned, options, queryVars, finished, shown>>

(* notificationCallback() for kMDQueryDidFinishNotification.                *)
DisableUpdates ==
    /\ running = "loop" /\ finished = "sent"
    /\ running' = "callback" /\ updating' = FALSE
    /\ total' = Cardinality(results) /\ idx' = 0
    /\ UNCHANGED <<strings, rawQuery, owned, options, results, updates, gone, finished, shown>>

(* The result at an index of the list, its attributes, printed; there are   *)
(* none of a file that is gone, and they are used and released all the same.*)
ListOf(set) == CHOOSE list \in [0 .. Cardinality(set) - 1 -> set] : {list[k] : k \in DOMAIN list} = set

PrintResult ==
    /\ running = "callback" /\ idx < total
    /\ IF idx < Cardinality(results) /\ ListOf(results)[idx] \notin gone
       THEN shown' = shown \cup {ListOf(results)[idx]} /\ idx' = idx + 1 /\ UNCHANGED running
       ELSE running' = "crashed" /\ UNCHANGED <<shown, idx>>
    /\ UNCHANGED <<strings, rawQuery, owned, options, queryVars, finished, total>>

EnableUpdates ==
    /\ running = "callback" /\ idx = total
    /\ running' = "loop" /\ updating' = TRUE /\ finished' = "handled"
    /\ UNCHANGED <<strings, rawQuery, owned, options, results, updates, gone, shown, idx, total>>

Next == \/ QueryOption \/ FolderOption \/ ReadFolder \/ ExtractQuery \/ ExtractOut \/ OptionsDone
        \/ CreateQuery \/ Out \/ Update \/ (\E file \in Files : Vanish(file)) \/ Gathered \/ DisableUpdates \/ PrintResult \/ EnableUpdates

Spec == Init /\ [][Next]_vars

-----------------------------------------------------------------------------
TypeOK ==
    /\ strings \in 0 .. MaxOptions /\ owned \subseteq {"fd", "xmlData", "pList", "queryRef"}
    /\ results \subseteq Files /\ gone \subseteq Files /\ shown \subseteq Files /\ idx \in 0 .. total

\* The results are gone through as they were when they were counted, each one
\* is printed, and updates are enabled again whenever the loop waits.  Only two
\* things end the program in between: a smart folder without a query, and a
\* result that went after it was listed.  What was created is released by the
\* end, but for the strings of options that a later one has replaced; on a
\* usage error nothing is.
ListsResults ==
    /\ TypeOK
    /\ ~updating => running \in {"callback", "crashed"}
    /\ running = "callback" => ~updating /\ total = Cardinality(results)
    /\ running = "callback" /\ idx = total => shown = results
    /\ running = "crashed" /\ "pList" \notin owned =>
          idx < Cardinality(results) /\ ListOf(results)[idx] \in gone
    /\ running \in {"options", "usage", "create", "exit"} => owned = {}
    /\ running \in {"create", "loop", "callback"} => strings \in 1 .. options
    /\ running = "usage" => strings <= options
    /\ running = "exit" => strings <= options - 1
=============================================================================
