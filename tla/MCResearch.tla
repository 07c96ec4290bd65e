------------------------------ MODULE MCResearch ------------------------------
(***************************************************************************)
(* Instances of the research service's components: its job manager, its    *)
(* memory cache, one derived feature and the builders of snapshots.  They  *)
(* share no variable, so the states of all four together say no more than  *)
(* those of each alone: Init chooses one, and only that one moves.          *)
(*                                                                         *)
(* jobs:      a scan, whose handler asks first, and a backtest, whose       *)
(*            handler does not; two HTTP threads and two pool threads.      *)
(* memory:    values of none to three bytes in a cache of three.            *)
(* features:  two threads of the service, one of a command line, a prune.   *)
(* snapshots: a backtest and two synchronisations that publish and prune.   *)
(***************************************************************************)
EXTENDS JobManager, MemoryLRU

CONSTANTS
    scan, backtest,
    Getters, Pruners, Processes, ProcessOf, None, g1, g2, g3, api, cli,
    Backtests, Syncs, Operators, Keys, KeyOf, Covers, Datasets, Events, Limit,
    b1, y1, y2, minutes, daily, limitup

MCFingerprints == {scan, backtest}
MCTypeOf == [f \in MCFingerprints |-> f]
MCSizes == 0..3
MCProcessOf == [g \in {g1, g2, g3} |-> IF g = g3 THEN cli ELSE api]
MCKeyOf == [b \in {b1, y1, y2} |-> IF b = b1 THEN minutes ELSE daily]
MCDatasets == <<limitup>>

VARIABLES
    which, \* the component that moves
    target, row, memory, flight, featurePc, outcome,
    rows, recency, files, catalog, deps, result, lock, pc, hit, written, sweep

F == INSTANCE FeatureFrames WITH pc <- featurePc
C == INSTANCE SnapshotCache

ResearchInit ==
    /\ which \in {"jobs", "memory", "features", "snapshots"}
    /\ Init /\ MemoryInit /\ F!Init /\ C!Init

featureVars == <<target, row, memory, flight, featurePc, outcome>>
snapshotVars ==
    <<rows, recency, files, catalog, deps, result, lock, pc, hit, written, sweep>>
researchVars == <<which, vars, memoryVars, featureVars, snapshotVars>>

Moves(component) ==
    /\ which = component
    /\ UNCHANGED which
    /\ component # "jobs" => UNCHANGED vars
    /\ component # "memory" => UNCHANGED memoryVars
    /\ component # "features" => UNCHANGED featureVars
    /\ component # "snapshots" => UNCHANGED snapshotVars

ResearchNext ==
    \/ Moves("jobs") /\ Next
    \/ Moves("memory") /\ MemoryNext
    \/ Moves("features") /\ F!Next
    \/ Moves("snapshots") /\ C!Next

\* The fairness of each component, on its own steps.
ResearchFairness ==
    /\ \A w \in Workers : WF_researchVars(Moves("jobs") /\ WorkerNext(w))
    /\ \A c \in Callers : WF_researchVars(Moves("jobs") /\ HandOver(c))
    /\ \A g \in Getters : WF_researchVars(Moves("features") /\ F!Inside(g))
    /\ \A b \in Backtests \cup Syncs : WF_researchVars(Moves("snapshots") /\ C!AtWork(b))

ResearchSpec == ResearchInit /\ [][ResearchNext]_researchVars /\ ResearchFairness

-------------------------------------------------------------------------------
(* The components' properties, stated and explained in their modules.       *)

\* The type invariants of the four components.
ResearchTypeOK ==
    /\ which \in {"jobs", "memory", "features", "snapshots"}
    /\ JobsTypeOK /\ MemoryTypeOK /\ F!FeatureTypeOK /\ C!CacheTypeOK

\* Every flight of a feature ends (FeatureFrames).
FlightsEnd == F!FlightsEnd

\* Every builder of a snapshot ends and lets go of its key (SnapshotCache).
BuildersEnd == C!BuildersEnd
===============================================================================
