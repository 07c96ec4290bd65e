---------------------------- MODULE PaperPortfolio ----------------------------
(***************************************************************************)
(* The simulated A-share and US accounts (portfolio.py): people decide the  *)
(* signals of a scan, an approved one becomes an order, and the next scans  *)
(* fill the orders that are pending at the opens of the bars they have      *)
(* fetched.  Scans hold the one TDX channel and so never overlap; people    *)
(* decide while one runs, and each order is a transaction of its own, so a  *)
(* scan can die between any two.                                            *)
(*                                                                         *)
(* A day counts from its open.  Prices, quantities and cash are left out:   *)
(* whether an order can be paid for is any outcome.                         *)
(***************************************************************************)
EXTENDS Integers, FiniteSets, Sequences

CONSTANTS
    Strategies,
    OneSession,     \* those whose BUYs have one session only (course49_*)
    Validity,       \* for how many days the signals of a strategy stand
    Codes,
    Opens,          \* how a day may open: "open", "limit up", "limit down", "no bar"
    MaxStrategyPositions,
    MaxTotalPositions,
    Operators,      \* threads that decide signals
    LastDay,        \* bound on the days
    MaxSignals,     \* bound on the signals
    Unset

\* The BUYs of course49_* stand until the next day: course49.py:621, course49_system.py:908.
ASSUME PortfolioConstants ==
    /\ \A p \in Strategies : Validity[p] \in Nat
    /\ \A p \in OneSession : Validity[p] = 1
    /\ Unset \notin Nat
    /\ Unset \notin {"PENDING", "FILLED", "CANCELED"}

Decisions == {"APPROVED", "REJECTED"}

VARIABLES
    bars,           \* the opens of the days so far, of each code
    signals,        \* with their status; every scan makes new ids
    paperOrders,    \* the status of a signal's order, or Unset
    paperPositions, \* the day each position was bought on, or Unset
    paperFills,
    scan,           \* the orders a running scan has still to look at, and its stage
    deciding        \* the decision an operator has checked but not yet written

portfolioVars == <<bars, signals, paperOrders, paperPositions, paperFills, scan, deciding>>

DayNow == Len(bars)
OwnedBy(strategy) == {c \in Codes : paperPositions[strategy][c] # Unset}

PortfolioInit ==
    /\ bars = <<>>
    /\ signals = <<>> /\ paperOrders = <<>>
    /\ paperPositions = [p \in Strategies |-> [c \in Codes |-> Unset]]
    /\ paperFills = {}
    /\ scan = Unset
    /\ deciding = [h \in Operators |-> Unset]

\* No scan is open over a day's open: the bars it has are those of its start.
Open(opens) ==
    /\ DayNow < LastDay /\ scan = Unset
    /\ bars' = Append(bars, opens)
    /\ UNCHANGED <<signals, paperOrders, paperPositions, paperFills, scan, deciding>>

-------------------------------------------------------------------------------
(* Decisions of people.                                                     *)

\* Mutant: a BUY of one session stands until that session has closed.
DeadlineAtClose(i) == signals[i].born + Validity[signals[i].strategy]

\* valid_until of a strategy with one session is 9:25 of its day, others' the close.
Deadline(i) ==
    signals[i].born + Validity[signals[i].strategy]
        - (IF signals[i].strategy \in OneSession THEN 1 ELSE 0)

\* decide_signal reads the signal before its transaction begins with the first write.
Check(h, i, decision) ==
    /\ deciding[h] = Unset
    /\ signals[i].status = "PROPOSED"
    /\ DayNow <= Deadline(i)
    /\ deciding' = [deciding EXCEPT ![h] = [signal |-> i, decision |-> decision, day |-> DayNow]]
    /\ UNCHANGED <<bars, signals, paperOrders, paperPositions, paperFills, scan>>

\* Mutant: INSERT OR REPLACE.
QueuedAgain(i) == "PENDING"

\* INSERT OR IGNORE of a pending order.
Queued(i) == IF paperOrders[i] = Unset THEN "PENDING" ELSE paperOrders[i]

Decide(h) ==
    /\ deciding[h] # Unset
    /\ LET i == deciding[h].signal
           approved == deciding[h].decision = "APPROVED"
       IN
       /\ signals' = [signals EXCEPT ![i].status = deciding[h].decision,
                                     ![i].approved = IF approved THEN deciding[h].day ELSE @]
       /\ paperOrders' = [paperOrders EXCEPT ![i] = IF approved THEN Queued(i) ELSE @]
    /\ deciding' = [deciding EXCEPT ![h] = Unset]
    /\ UNCHANGED <<bars, paperPositions, paperFills, scan>>

-------------------------------------------------------------------------------
(* A scan: pending orders first, then the signals of its strategies.        *)

BeginScan ==
    /\ scan = Unset
    /\ scan' = [stage |-> "orders", todo |-> {i \in DOMAIN paperOrders : paperOrders[i] = "PENDING"}]
    /\ UNCHANGED <<bars, signals, paperOrders, paperPositions, paperFills, deciding>>

Days(code, first, last) == {d \in first..last : d <= DayNow /\ bars[d][code] # "no bar"}
Earliest(days) == CHOOSE d \in days : \A e \in days : d <= e

\* The bars an order may fill at: after its signal, as long as it stands.
Candidates(i) ==
    LET s == signals[i]
        days == Days(s.code, s.born + 1, s.born + Validity[s.strategy])
    IN IF s.side = "BUY" /\ s.strategy \in OneSession /\ days # {}
       THEN {Earliest(days)}
       ELSE days

Lapsed(i) ==
    LET s == signals[i] IN Days(s.code, s.born + Validity[s.strategy] + 1, DayNow) # {}

SellDays(i) ==
    LET position == paperPositions[signals[i].strategy][signals[i].code] IN
    {d \in Candidates(i) : bars[d][signals[i].code] # "limit down"
        /\ position # Unset /\ d > position}

BuyDays(i) == {d \in Candidates(i) : bars[d][signals[i].code] # "limit up"}

\* A code that another strategy holds takes no further place of the total.
Room(i) ==
    LET all == UNION {OwnedBy(p) : p \in Strategies} IN
    /\ signals[i].code \notin OwnedBy(signals[i].strategy)
    /\ Cardinality(OwnedBy(signals[i].strategy)) < MaxStrategyPositions
    /\ signals[i].code \in all \/ Cardinality(all) < MaxTotalPositions

\* The next order in the order of the signals' times; equal times in any order.
Takes(i) ==
    /\ scan # Unset /\ scan.stage = "orders"
    /\ i \in scan.todo
    /\ \A j \in scan.todo : signals[i].born <= signals[j].born
    /\ scan' = [scan EXCEPT !.todo = @ \ {i}]
    /\ UNCHANGED <<bars, deciding>>

\* Mutant: the order keeps its status.
FilledPending(i) == paperOrders

Filled(i) == [paperOrders EXCEPT ![i] = "FILLED"]

\* _record_fill, in the transaction that moves the position.
RecordFill(i, day, position) ==
    LET s == signals[i] IN
    /\ paperFills' = paperFills \cup {[order |-> i, day |-> day]}
    /\ paperPositions' = [paperPositions EXCEPT ![s.strategy][s.code] = position]
    /\ paperOrders' = Filled(i)
    /\ signals' = [signals EXCEPT ![i].status = "EXECUTED"]

\* An unfilled BUY of one session, or an order whose time has passed without a bar.
Cancels(i) ==
    IF Candidates(i) = {} THEN Lapsed(i)
    ELSE signals[i].side = "BUY" /\ signals[i].strategy \in OneSession

Unfilled(i) ==
    /\ paperOrders' = [paperOrders EXCEPT ![i] = IF Cancels(i) THEN "CANCELED" ELSE @]
    /\ UNCHANGED <<signals, paperPositions, paperFills>>

Sell(i) ==
    /\ signals[i].side = "SELL"
    /\ Takes(i)
    /\ IF SellDays(i) # {} THEN RecordFill(i, Earliest(SellDays(i)), Unset) ELSE Unfilled(i)

\* What the account can pay for differs from open to open.
Buy(i, day) ==
    /\ signals[i].side = "BUY"
    /\ Takes(i)
    /\ IF day \in BuyDays(i) /\ Room(i)
       THEN RecordFill(i, day, day)
       ELSE Unfilled(i)

\* save_signals: exits are approved as they are made, entries are proposed.
Save(strategy, code) ==
    /\ scan # Unset /\ scan.stage = "orders" /\ scan.todo = {}
    /\ Len(signals) < MaxSignals
    /\ LET exit == code \in OwnedBy(strategy)
           signal == [strategy |-> strategy, code |-> code, born |-> DayNow,
                      side |-> IF exit THEN "SELL" ELSE "BUY",
                      status |-> IF exit THEN "APPROVED" ELSE "PROPOSED",
                      approved |-> IF exit THEN DayNow ELSE Unset]
       IN /\ signals' = Append(signals, signal)
          /\ scan' = [stage |-> "signals", todo |-> IF exit THEN {Len(signals) + 1} ELSE {}]
    /\ paperOrders' = Append(paperOrders, Unset)
    /\ UNCHANGED <<bars, paperPositions, paperFills, deciding>>

\* queue_approved is a transaction of its own.
QueueApproved ==
    /\ scan # Unset /\ scan.stage = "signals"
    /\ paperOrders' = [i \in DOMAIN paperOrders |-> IF i \in scan.todo THEN Queued(i) ELSE paperOrders[i]]
    /\ scan' = Unset
    /\ UNCHANGED <<bars, signals, paperPositions, paperFills, deciding>>

\* The scan ends without a signal, or dies wherever it is.
StopScan ==
    /\ scan # Unset
    /\ scan' = Unset
    /\ UNCHANGED <<bars, signals, paperOrders, paperPositions, paperFills, deciding>>

PortfolioNext ==
    \/ \E opens \in [Codes -> Opens] : Open(opens)
    \/ BeginScan \/ QueueApproved \/ StopScan
    \/ \E p \in Strategies, c \in Codes : Save(p, c)
    \/ \E i \in DOMAIN signals :
          \/ Sell(i)
          \/ \E day \in Candidates(i) \cup {0} : Buy(i, day)
          \/ \E h \in Operators, decision \in Decisions : Check(h, i, decision)
    \/ \E h \in Operators : Decide(h)

PortfolioSpec == PortfolioInit /\ [][PortfolioNext]_portfolioVars

-------------------------------------------------------------------------------
(* Properties.                                                              *)

\* The type invariant of the accounts' tables and of a running scan.
PortfolioTypeOK ==
    /\ bars \in Seq([Codes -> Opens])
    /\ signals \in Seq([strategy : Strategies, code : Codes, born : Nat, side : {"BUY", "SELL"},
                        status : Decisions \cup {"PROPOSED", "EXECUTED"}, approved : Nat \cup {Unset}])
    /\ paperOrders \in Seq({"PENDING", "FILLED", "CANCELED", Unset})
    /\ DOMAIN paperOrders = DOMAIN signals
    /\ paperPositions \in [Strategies -> [Codes -> Nat \cup {Unset}]]
    /\ \A f \in paperFills : f.order \in DOMAIN paperOrders
    /\ scan \in [stage : {"orders", "signals"}, todo : SUBSET Nat] \cup {Unset}

TradesOf(p, c, side) ==
    {f \in paperFills : LET s == signals[f.order] IN
                   s.strategy = p /\ s.code = c /\ s.side = side}

\* The fills explain the accounts, whenever a scan dies and whoever decides meanwhile:
\* no order fills twice although scans look at pending orders again and again, an order
\* is FILLED exactly when its fill is there, and a strategy holds what it bought once
\* more often than it sold.
FillsExplainAccounts ==
    /\ \A i \in DOMAIN paperOrders :
          Cardinality({f \in paperFills : f.order = i}) = IF paperOrders[i] = "FILLED" THEN 1 ELSE 0
    /\ \A p \in Strategies, c \in Codes :
          Cardinality(TradesOf(p, c, "BUY")) =
              Cardinality(TradesOf(p, c, "SELL")) + IF c \in OwnedBy(p) THEN 1 ELSE 0

\* "After the approval the simulated portfolio tries to buy on the next trading day
\* only": a BUY of one session is filled at the first open after its signal, and was
\* approved before that open, however late the scan comes that fills it.
OneSessionBuysAreFresh ==
    \A f \in paperFills :
        LET s == signals[f.order] IN
        s.side = "BUY" /\ s.strategy \in OneSession =>
            f.day = s.born + 1 /\ s.approved < f.day

===============================================================================
