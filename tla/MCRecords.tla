------------------------------ MODULE MCRecords ------------------------------
(***************************************************************************)
(* Instances of the research platform's records that several processes      *)
(* write.  They share no variable; Init chooses one, and only that moves.   *)
(*                                                                         *)
(* snapshots: the market data snapshots of MCSnapshotCache.                 *)
(* observer:  two commands of the V9 and repo observer, four sessions.      *)
(* triangle:  the weekly triangle's ledger of one stock over four weeks,    *)
(*            scans and two refreshes.                                     *)
(* daily:     the daily backtest: two stocks beside a third that another    *)
(*            component holds, and one pair, over four days.               *)
(***************************************************************************)
EXTENDS MCSnapshotCache, V9RepoShadow, WeeklyTriangle, DailyBacktest

CONSTANTS p1, p2, r1, r2, a1, a2, a3, pair

VARIABLE which \* the component that moves

MCLegsOf == [g \in {pair} |-> [long |-> a1, short |-> a2]]
MCOtherTrades ==
    {[day |-> 1, code |-> a3, side |-> "BUY"], [day |-> 3, code |-> a3, side |-> "SELL"]}

recordVars == <<which, vars, shadowBookVars, triangleVars, dailyVars>>

RecordsSymmetry ==
    MCSymmetry \cup Permutations({p1, p2}) \cup Permutations({r1, r2})

RecordsInit ==
    /\ which \in {"snapshots", "observer", "triangle", "daily"}
    /\ Init /\ ObserverInit /\ TriangleInit /\ DailyInit

Moves(component) ==
    /\ which = component
    /\ UNCHANGED which
    /\ component # "snapshots" => UNCHANGED vars
    /\ component # "observer" => UNCHANGED shadowBookVars
    /\ component # "triangle" => UNCHANGED triangleVars
    /\ component # "daily" => UNCHANGED dailyVars

RecordsNext ==
    \/ Moves("snapshots") /\ Next
    \/ Moves("observer") /\ ObserverNext
    \/ Moves("triangle") /\ TriangleNext
    \/ Moves("daily") /\ NextDay

RecordsSpec == RecordsInit /\ [][RecordsNext]_recordVars

===============================================================================
