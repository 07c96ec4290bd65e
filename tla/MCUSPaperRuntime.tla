--------------------------- MODULE MCUSPaperRuntime ---------------------------
(***************************************************************************)
(* Instances of the simulated sleeve, of the collector of its evidence and  *)
(* of the other simulated accounts.  Init chooses what moves:               *)
(*                                                                         *)
(* executor: the calls of the executor in any order.  Two securities over   *)
(*           three sessions: planned at the close of the first, traded in   *)
(*           the second, planned again, and traded in the third.  A price   *)
(*           of 1 is at the stop of a position bought at 2.                 *)
(* worker:   the same executor, called as the 60-second worker does.        *)
(* shadow:   the collector, with two ticks of one worker and one of         *)
(*           another, over a session of four slots.                         *)
(* accounts: the portfolio, with a strategy whose BUYs have one session and *)
(*           one whose signals stand for two days, the same code, and two   *)
(*           operators that decide.                                         *)
(***************************************************************************)
EXTENDS USPaperRuntime, USTdxShadow, PaperPortfolio, TLC

CONSTANTS s1, s2, p1, p2, p3, one, another, short, long

MCSecurities == {s1, s2}
MCMonthEnds  == {1, 2}
MCPrices     == {1, 2}
MCSymmetry   == Permutations(MCSecurities)
MCWorkerOf   == [p \in {p1, p2, p3} |-> IF p = p3 THEN another ELSE one]

MCValidity   == [p \in {short, long} |-> IF p = short THEN 1 ELSE 2]

VARIABLE which \* what moves

paperVars == <<which, vars, runtimeVars, shadowVars, portfolioVars>>

PaperInit ==
    /\ which \in {"executor", "worker", "shadow", "accounts"}
    /\ RuntimeInit
    /\ ShadowInit
    /\ PortfolioInit

Moves(component) ==
    /\ which = component
    /\ UNCHANGED which
    /\ component \notin {"executor", "worker"} => UNCHANGED vars
    /\ component # "worker" => UNCHANGED runtimeVars
    /\ component # "shadow" => UNCHANGED shadowVars
    /\ component # "accounts" => UNCHANGED portfolioVars

PaperNext ==
    \/ Moves("executor") /\ Next
    \/ Moves("worker") /\ RuntimeNext
    \/ Moves("shadow") /\ ShadowNext
    \/ Moves("accounts") /\ PortfolioNext

PaperSpec == PaperInit /\ [][PaperNext]_paperVars

-------------------------------------------------------------------------------
\* The type invariants of the instances.
PaperTypeOK == RuntimeTypeOK /\ ShadowTypeOK /\ PortfolioTypeOK
===============================================================================
