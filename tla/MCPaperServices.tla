--------------------------- MODULE MCPaperServices ---------------------------
(***************************************************************************)
(* Instances of what surrounds the sleeve's orders: the month-end decision, *)
(* the corporate actions with the money, and the lease with the published   *)
(* status.  They share no variable here; Init chooses one, and only that    *)
(* one moves.                                                               *)
(*                                                                         *)
(* decision: three ticks, one of them scheduled, a day with three slots.    *)
(* actions:  three days, a and b held, orders to buy c; every kind of  *)
(*           action, one into a security already held and one unsound.      *)
(* lease:    two scheduled ticks and one of another worker.                 *)
(***************************************************************************)
EXTENDS USPaperDecision, USPaperLease, USPaperActions

CONSTANTS a, b, c, t1, t2, t3, scheduler, other

Action(id, s, kind, on, ratio, cash, into) ==
    [id |-> id, security |-> s, kind |-> kind, day |-> on, sound |-> TRUE,
     num |-> ratio[1], den |-> ratio[2], cash |-> cash, pay |-> on + 1, other |-> into]

MCActions ==
    {Action(1, a, "SPLIT", 1, <<3, 2>>, 4, a),
     Action(2, b, "CASH_DIVIDEND", 1, <<1, 1>>, 1, b),
     Action(3, b, "SPINOFF", 2, <<1, 3>>, Absent, c),
     Action(4, a, "SPLIT", 2, <<1, 3>>, 3, c),
     Action(5, b, "STOCK_MERGER", 3, <<2, 1>>, Absent, a),
     Action(6, c, "TERMINATION", 3, <<1, 1>>, 2, c),
     [Action(7, c, "TICKER_CHANGE", 3, <<1, 1>>, 0, c) EXCEPT !.sound = FALSE]}

MCPlans == {{}, {c}}
MCWorkerOf == [t \in {t1, t2, t3} |-> IF t = t3 THEN other ELSE scheduler]

VARIABLE which \* the component that moves

serviceVars == <<which, vars, actionVars, leaseVars>>

ServicesInit ==
    /\ which \in {"decision", "actions", "lease"}
    /\ Init /\ ActionsInit /\ LeaseInit
    /\ which # "decision" => ~planned
    /\ which # "actions" => book.buys = {}

Moves(component) ==
    /\ which = component
    /\ UNCHANGED which
    /\ component # "decision" => UNCHANGED vars
    /\ component # "actions" => UNCHANGED actionVars
    /\ component # "lease" => UNCHANGED leaseVars

ServicesNext ==
    \/ Moves("decision") /\ Next
    \/ Moves("actions") /\ ActionsNext
    \/ Moves("lease") /\ LeaseNext

\* The fairness of each component, on its own steps.
ServicesFairness ==
    /\ WF_serviceVars(Moves("decision") /\ AsPlanned)
    /\ \A t \in Ticks : WF_serviceVars(Moves("lease") /\ TickNext(t))

ServicesSpec == ServicesInit /\ [][ServicesNext]_serviceVars /\ ServicesFairness

-------------------------------------------------------------------------------
\* The type invariants of the three components.
ServicesTypeOK ==
    /\ which \in {"decision", "actions", "lease"}
    /\ DecisionTypeOK /\ ActionsTypeOK /\ LeaseTypeOK
===============================================================================
