---------------------------- MODULE FeatureFrames ----------------------------
(***************************************************************************)
(* get_or_build_feature_frames (data_cache.py) for one feature: memory,    *)
(* then the directory on disk behind its row, then the builder, with the   *)
(* flight lock of the process around it and prune running beside it.       *)
(*                                                                         *)
(* Memory may lose a value at any time (its limit, low memory).  rmtree is *)
(* two steps, since a reader may look into a directory that is half gone.  *)
(***************************************************************************)
EXTENDS Integers, FiniteSets

CONSTANTS
    Getters,    \* threads that ask for the feature
    Pruners,    \* threads whose prune has listed the feature's row
    Processes,  \* the API service and the command line have a manager each
    ProcessOf,  \* the process of each getter
    None

Threads == Getters \cup Pruners

VARIABLES
    target,  \* the feature's directory: "none", "whole", or "part" of it
    row,     \* the READY row of the feature is there
    memory,  \* processes whose memory holds the value
    flight,  \* holder of the flight lock of each process
    pc,      \* where each thread is
    outcome  \* of each getter: a value from memory, disk or builder, or an error

shared == <<target, row, memory>>
vars == <<shared, flight, pc, outcome>>

Init ==
    /\ target = "none"
    /\ row = FALSE
    /\ memory = {}
    /\ flight = [p \in Processes |-> None]
    /\ pc = [t \in Threads |-> "idle"]
    /\ outcome = [g \in Getters |-> None]

At(t, place) == pc[t] = place
Go(t, place) == pc' = [pc EXCEPT ![t] = place]
Remembered(g) == ProcessOf[g] \in memory

\* The with block ends, with a value or with an exception.
Leave(g, what) ==
    /\ Go(g, "idle")
    /\ flight' = [flight EXCEPT ![ProcessOf[g]] = None]
    /\ outcome' = [outcome EXCEPT ![g] = what]

\* The first look, without the lock: memory answers, or the thread queues up.
Ask(g) ==
    /\ At(g, "idle")
    /\ IF Remembered(g)
       THEN outcome' = [outcome EXCEPT ![g] = "memory"] /\ UNCHANGED pc
       ELSE Go(g, "queued") /\ outcome' = [outcome EXCEPT ![g] = None]
    /\ UNCHANGED <<shared, flight>>

Enter(g) ==
    /\ At(g, "queued")
    /\ flight[ProcessOf[g]] = None
    /\ flight' = [flight EXCEPT ![ProcessOf[g]] = g]
    /\ Go(g, "locked")
    /\ UNCHANGED <<shared, outcome>>

\* The second look: another thread of the process may have built it meanwhile.
AnsweredMeanwhile(g) == Remembered(g)

Recheck(g) ==
    /\ At(g, "locked")
    /\ AnsweredMeanwhile(g)
    /\ Leave(g, "memory")
    /\ UNCHANGED shared

SelectRow(g) ==
    /\ At(g, "locked")
    /\ ~AnsweredMeanwhile(g)
    /\ Go(g, IF row THEN "loading" ELSE "building")
    /\ UNCHANGED <<shared, flight, outcome>>

\* A manifest or a file that is missing raises OSError.
Loadable == target = "whole"

LoadFromDisk(g) ==
    /\ At(g, "loading")
    /\ Loadable
    /\ memory' \in {memory, memory \cup {ProcessOf[g]}}
    /\ Leave(g, "disk")
    /\ UNCHANGED <<target, row>>

\* Mutant: the row is read again instead of the value being built.
FailToLoadRetrying(g) ==
    /\ At(g, "loading")
    /\ ~Loadable
    /\ Go(g, "locked")
    /\ UNCHANGED <<shared, flight, outcome>>

FailToLoad(g) ==
    /\ At(g, "loading")
    /\ ~Loadable
    /\ Go(g, "building")
    /\ UNCHANGED <<shared, flight, outcome>>

\* The builder ran; its frames are in a temporary directory.  An old directory is
\* removed first: rmtree begins ...
Build(g) ==
    /\ At(g, "building")
    /\ Go(g, IF target = "none" THEN "moving" ELSE "clearing")
    /\ target' = IF target = "none" THEN "none" ELSE "part"
    /\ UNCHANGED <<row, memory, flight, outcome>>

\* ... and ends, or meets files that another rmtree took away and raises.
Clear(g) ==
    /\ At(g, "clearing")
    /\ IF target = "none"
       THEN Leave(g, "error") /\ UNCHANGED target
       ELSE Go(g, "moving") /\ target' = "none" /\ UNCHANGED <<flight, outcome>>
    /\ UNCHANGED <<row, memory>>

\* The temporary directory takes the target's name, unless one is there again.
Move(g) ==
    /\ At(g, "moving")
    /\ IF target = "none"
       THEN Go(g, "registering") /\ target' = "whole" /\ UNCHANGED <<flight, outcome>>
       ELSE Leave(g, "error") /\ UNCHANGED target
    /\ UNCHANGED <<row, memory>>

\* The row is written, memory may or may not take the value, and prune follows,
\* which is one of Pruners.
Register(g) ==
    /\ At(g, "registering")
    /\ row' = TRUE
    /\ memory' \in {memory, memory \cup {ProcessOf[g]}}
    /\ Leave(g, "built")
    /\ UNCHANGED target

Forget(p) ==
    /\ p \in memory
    /\ memory' = memory \ {p}
    /\ UNCHANGED <<target, row, flight, pc, outcome>>

\* prune of this row: exists, rmtree in two steps, delete the row.
PruneBegin(t) ==
    /\ t \in Pruners
    /\ At(t, "idle")
    /\ row
    /\ Go(t, IF target = "none" THEN "unlisting" ELSE "removing")
    /\ UNCHANGED <<shared, flight, outcome>>

PruneBreak(t) ==
    /\ At(t, "removing")
    /\ Go(t, IF target = "none" THEN "idle" ELSE "emptying")
    /\ target' = IF target = "none" THEN "none" ELSE "part"
    /\ UNCHANGED <<row, memory, flight, outcome>>

PruneEmpty(t) ==
    /\ At(t, "emptying")
    /\ Go(t, IF target = "none" THEN "idle" ELSE "unlisting")
    /\ target' = "none"
    /\ UNCHANGED <<row, memory, flight, outcome>>

PruneUnlist(t) ==
    /\ At(t, "unlisting")
    /\ row' = FALSE
    /\ Go(t, "idle")
    /\ UNCHANGED <<target, memory, flight, outcome>>

GetterNext(g) ==
    \/ Ask(g) \/ Enter(g) \/ Recheck(g) \/ SelectRow(g) \/ LoadFromDisk(g)
    \/ FailToLoad(g) \/ Build(g) \/ Clear(g) \/ Move(g) \/ Register(g)

Next ==
    \/ \E g \in Getters : GetterNext(g)
    \/ \E t \in Pruners : PruneBegin(t) \/ PruneBreak(t) \/ PruneEmpty(t) \/ PruneUnlist(t)
    \/ \E p \in Processes : Forget(p)

\* A thread inside the with block goes on, and builders return.  Nothing is said
\* about who gets the lock next.
Inside(g) == pc[g] \notin {"idle", "queued"} /\ GetterNext(g)

Fairness == \A g \in Getters : WF_vars(Inside(g))

Spec == Init /\ [][Next]_vars /\ Fairness

-----------------------------------------------------------------------------
FeatureTypeOK ==
    /\ target \in {"none", "part", "whole"}
    /\ row \in BOOLEAN
    /\ memory \subseteq Processes
    /\ flight \in [Processes -> Getters \cup {None}]
    /\ \A g \in Getters : pc[g] \in {"idle", "queued", "locked", "loading", "building",
                                     "clearing", "moving", "registering"}
    /\ \A t \in Pruners : pc[t] \in {"idle", "removing", "emptying", "unlisting"}
    /\ outcome \in [Getters -> {"memory", "disk", "built", "error", None}]

\* Whatever prune and the other process do to the files, with a value or with an
\* exception the flight lock is let go.
FlightsEnd == \A p \in Processes : flight[p] # None ~> flight[p] = None
=============================================================================
