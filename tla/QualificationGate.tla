-------------------------- MODULE QualificationGate --------------------------
(***************************************************************************)
(* What the lifecycle gate promises to the rest of the platform, without    *)
(* evidence, event log or ledgers: a release is bound, passes its backtest, *)
(* runs on paper, and is judged once.  From the start of paper on the bound *)
(* release is frozen, and the lineage of releases that monthly decisions    *)
(* are taken from starts at it and only grows by releases that extend its   *)
(* last one.                                                                *)
(***************************************************************************)
EXTENDS Naturals, Sequences

CONSTANTS
    Releases,      \* PIT releases
    Ready,         \* Ready[r]: the data gates of the release hold
    Follows,       \* Follows[r]: the releases that extend the history of r
    None           \* no release is bound

VARIABLES
    stage,         \* how far the bound release has come
    bound,         \* the release under qualification
    lineage        \* the releases decisions were ever taken from, oldest first

gateVars == <<stage, bound, lineage>>

Stages == {"DATA", "BACKTEST", "PAPER", "QUALIFIED", "BLOCKED"}

GateInit ==
    /\ stage = "DATA"
    /\ bound = None
    /\ lineage = <<>>

BindRelease(r) ==
    /\ stage = "DATA"
    /\ bound' = r
    /\ UNCHANGED <<stage, lineage>>

PassBacktest ==
    /\ stage = "DATA"
    /\ bound # None /\ Ready[bound]
    /\ stage' = "BACKTEST"
    /\ UNCHANGED <<bound, lineage>>

StartPaper ==
    /\ stage = "BACKTEST"
    /\ stage' = "PAPER"
    /\ lineage' = <<bound>>
    /\ UNCHANGED bound

Judge(verdict) ==
    /\ \/ stage = "PAPER" /\ verdict \in {"QUALIFIED", "BLOCKED"}
       \/ stage = "BACKTEST" /\ verdict = "BLOCKED"
    /\ stage' = verdict
    /\ UNCHANGED <<bound, lineage>>

\* The lineage may still grow after the verdict: an admission that was verified
\* before it is written after it.
RollForward(r) ==
    /\ lineage # <<>>
    /\ r \in Follows[lineage[Len(lineage)]]
    /\ lineage' = Append(lineage, r)
    /\ UNCHANGED <<stage, bound>>

GateNext ==
    \/ \E r \in Releases : BindRelease(r) \/ RollForward(r)
    \/ PassBacktest \/ StartPaper
    \/ \E verdict \in {"QUALIFIED", "BLOCKED"} : Judge(verdict)

GateSpec == GateInit /\ [][GateNext]_gateVars
=============================================================================
