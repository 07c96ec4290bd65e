------------------------------- MODULE USPaper -------------------------------
(***************************************************************************)
(* The simulated US sleeve (us_paper.py): monthly periods plan orders for   *)
(* the next session's open, timely quotes fill them, stops close positions, *)
(* and any gap in the data degrades the account, which then stops buying.   *)
(*                                                                          *)
(* Every call is one BEGIN IMMEDIATE transaction of its own, so it is one   *)
(* action; calls may come in any order and any number of times between two  *)
(* moments of the clock, or not at all when the worker is down.  A call the *)
(* code refuses or answers idempotently is a stuttering step.               *)
(*                                                                          *)
(* Abstracted: quantities, cash and weights (whether a BUY is affordable is *)
(* a choice), order and fill hashes, and the session rows' display states.  *)
(* A security keeps its ticker and has no corporate action.                 *)
(***************************************************************************)
EXTENDS Integers, FiniteSets

CONSTANTS
    Securities,    \* stable security identities
    LastSession,   \* bound: XNYS sessions are numbered 1..LastSession
    MonthEnds,     \* sessions at whose close a period is decided
    Prices,        \* quoted prices
    StopDistance,  \* a stop is this far below the entry price
    MaxPositions,  \* config.max_positions
    QuotesAgree,   \* the feed gives a session one open price: its captured quote and
                   \*   its daily bar never disagree on it
    None           \* no position, order or observation

ASSUME PaperAssumption ==
    /\ LastSession \in Nat \ {0}
    /\ MonthEnds \subseteq 1..LastSession
    /\ Prices \subseteq Nat
    /\ StopDistance \in Nat \ {0}
    /\ MaxPositions \in Nat
    /\ QuotesAgree \in BOOLEAN
    /\ IsFiniteSet(Securities)
    /\ None \notin [stop : Int, recovery : Nat]
    /\ None \notin [open : Nat, low : Nat, processed : BOOLEAN]

VARIABLES
    clock,         \* the session and the phase of its trading day
    account,       \* status of the account row
    periods,       \* month-ends whose period was created
    orders,        \* orders[d][s]: the rebalance order of s to execute in session d
    positions,     \* positions[s]: stop price and the session its missed stop was seen in
    opens,         \* opens[s]: the OPEN observation of the current session
    dailies,       \* dailies[s]: the DAILY observation of the current session
    fills,         \* the table us_paper_fills, by idempotency key
    closed         \* sessions whose closed_at is set

vars == <<clock, account, periods, orders, positions, opens, dailies, fills, closed>>

Sessions == 1..LastSession
Phases   == {"before", "capture", "day", "closed"}
Sides    == {"BUY", "SELL"}
Statuses == {"WAITING_OPEN", "FILLED", "EXPIRED", "BLOCKED", "SKIPPED", "CANCELLED"}
Reasons  == {"REBALANCE", "GAP", "RECOVERY", "INTRADAY"}

ASSUME RowAssumption ==
    /\ None \notin [side : Sides, status : Statuses]
    /\ None \notin [price : Nat, status : {"ACCEPTED", "LATE_IGNORED"}, processed : BOOLEAN]

Today == clock.session

\* now > deadline: the capture window is over, which is when signals expire too.
Late == clock.phase \in {"day", "closed"}

Held == {s \in Securities : positions[s] # None}

WaitingOn(d) == {s \in Securities : orders[d][s] # None /\ orders[d][s].status = "WAITING_OPEN"}

Side(s) == orders[Today][s].side

Fill(s, side, reason) == [security |-> s, session |-> Today, side |-> side, reason |-> reason]

\* Mutant: a data gap overwrites the kill switch.
DegradeAlways(status) == "DATA_DEGRADED"

\* A killed account is never degraded.
Degrade(status) == IF status = "KILLED" THEN status ELSE "DATA_DEGRADED"

Init ==
    /\ clock = [session |-> 1, phase |-> "before"]
    /\ account = "RUNNING"
    /\ periods = {}
    /\ orders = [d \in Sessions |-> [s \in Securities |-> None]]
    /\ positions = [s \in Securities |-> None]
    /\ opens = [s \in Securities |-> None]
    /\ dailies = [s \in Securities |-> None]
    /\ fills = {}
    /\ closed = {}

-----------------------------------------------------------------------------
(* The clock.  Observations of a session are looked up by its date only.    *)

Advance ==
    /\ \/ /\ clock.phase # "closed"
          /\ clock' = [clock EXCEPT !.phase =
                          CASE @ = "before"  -> "capture"
                            [] @ = "capture" -> "day"
                            [] @ = "day"     -> "closed"]
          /\ UNCHANGED <<opens, dailies>>
       \/ /\ clock.phase = "closed" /\ Today < LastSession
          /\ clock' = [session |-> Today + 1, phase |-> "before"]
          /\ opens' = [s \in Securities |-> None]
          /\ dailies' = [s \in Securities |-> None]
    /\ UNCHANGED <<account, periods, orders, positions, fills, closed>>

-----------------------------------------------------------------------------
(* Planning.                                                               *)

\* After the close of a month-end: one order per security and period, for the
\* open of the next session.
CreatePeriod(signals) ==
    /\ Today \in MonthEnds \ periods
    /\ clock.phase = "closed" /\ Today < LastSession
    /\ account # "KILLED"
    /\ periods' = periods \cup {Today}
    /\ orders' = [orders EXCEPT ![Today + 1] =
                     [s \in Securities |->
                         IF signals[s] = None THEN None
                         ELSE [side |-> signals[s], status |-> "WAITING_OPEN"]]]
    /\ UNCHANGED <<clock, account, positions, opens, dailies, fills, closed>>

-----------------------------------------------------------------------------
(* Observations: one OPEN and one DAILY per security and session.          *)

OpenStatus == IF Late THEN "LATE_IGNORED" ELSE "ACCEPTED"

RecordOpen(s, price) ==
    /\ clock.phase # "before"
    /\ opens[s] = None
    /\ QuotesAgree /\ dailies[s] # None => dailies[s].open = price
    /\ opens' = [opens EXCEPT ![s] = [price |-> price, status |-> OpenStatus, processed |-> FALSE]]
    /\ account' = IF OpenStatus = "LATE_IGNORED" THEN Degrade(account) ELSE account
    /\ UNCHANGED <<clock, periods, orders, positions, dailies, fills, closed>>

\* The OHLC check of a daily bar ties its low to its own open only.
RecordDaily(s, open, low) ==
    /\ clock.phase = "closed"
    /\ dailies[s] = None
    /\ low <= open
    /\ QuotesAgree /\ opens[s] # None => opens[s].price = open
    /\ dailies' = [dailies EXCEPT ![s] = [open |-> open, low |-> low, processed |-> FALSE]]
    /\ UNCHANGED <<clock, account, periods, orders, positions, opens, fills, closed>>

\* A fresh quote at or below the stop closes the whole position.  The runtime
\* watches for it between the capture window and the close.
ExecuteIntradayStop(s, quote) ==
    /\ clock.phase = "day"
    /\ quote <= positions[s].stop
    /\ positions' = [positions EXCEPT ![s] = None]
    /\ fills' = fills \cup {Fill(s, "SELL", "INTRADAY")}
    /\ UNCHANGED <<clock, account, periods, orders, opens, dailies, closed>>

-----------------------------------------------------------------------------
(* tick: the opening.                                                      *)

Accepted == {s \in Securities : opens[s] # None /\ opens[s].status = "ACCEPTED"}

\* Mutant: only held securities must have an opening quote.
RequiredHeldOnly == Held

Required == Held \cup WaitingOn(Today)

Missing == Required \ Accepted

\* Orders that are still waiting once those without a timely OPEN have expired.
Live == IF Late THEN WaitingOn(Today) \ Missing ELSE WaitingOn(Today)

Buys  == {s \in Live : Side(s) = "BUY"}
Sells == {s \in Live : Side(s) = "SELL"}

\* Mutant: a BUY is processed as soon as its own quote is there.
DueAtOnce == {s \in Accepted : ~opens[s].processed}

\* Opening quotes to process now.  Inside the capture window a security with a
\* BUY waits until every required quote is there.
Due == {s \in Accepted : ~opens[s].processed /\ (s \in Buys /\ Missing # {} => Late)}

RecoveryDue(s) == positions[s].recovery # 0 /\ Today > positions[s].recovery

\* Mutant: a recovery exit is taken only if the open is at the stop again.
RiskExitsAtStopOnly == {s \in Due \cap Held : opens[s].price <= positions[s].stop}

RiskExits == {s \in Due \cap Held : RecoveryDue(s) \/ opens[s].price <= positions[s].stop}

\* Mutant: a SELL is filled even when a risk exit has just closed the position.
SoldIgnoringExits == IF Late THEN {} ELSE Due \cap Sells

Sold == IF Late THEN {} ELSE (Due \cap Sells \cap Held) \ RiskExits

Buyable == IF Late \/ account # "RUNNING" THEN {} ELSE (Due \cap Buys) \ Held

\* Mutant: the limit is compared before the last BUY is counted.
WithinLimitOffByOne(bought) ==
    Cardinality((Held \ (RiskExits \cup Sold)) \cup bought) <= MaxPositions + 1

\* Those bought are some of the buyable: the others are blocked by the position
\* limit or by the cash that is left.
WithinLimit(bought) ==
    bought # {} => Cardinality((Held \ (RiskExits \cup Sold)) \cup bought) <= MaxPositions

\* What becomes of the orders that wait for this open.
Expired == IF Late THEN (WaitingOn(Today) \cap Missing) \cup (Due \ (RiskExits \cap Buys)) ELSE {}

Skipped ==
    IF Late THEN {}
    ELSE ((Due \cap Sells) \ Sold)
             \cup {s \in (Due \cap Buys \cap Held) \ RiskExits : account = "RUNNING"}

Settled(s, bought) ==
    CASE s \in Sold \cup bought -> "FILLED"
      [] s \in Expired          -> "EXPIRED"
      [] s \in Skipped          -> "SKIPPED"
      [] s \in Due \ (Sold \cup bought \cup Expired \cup Skipped) -> "BLOCKED"
      [] s \notin Due \cup Expired -> "WAITING_OPEN"

OpenFills(bought) ==
    {Fill(s, "SELL", IF RecoveryDue(s) THEN "RECOVERY" ELSE "GAP") : s \in RiskExits}
        \cup {Fill(s, "SELL", "REBALANCE") : s \in Sold}
        \cup {Fill(s, "BUY", "REBALANCE") : s \in bought}

AfterOpen(bought) ==
    [s \in Securities |->
        CASE s \in RiskExits \cup Sold -> None
          [] s \in bought -> [stop |-> opens[s].price - StopDistance, recovery |-> 0]
          [] s \notin RiskExits \cup Sold \cup bought -> positions[s]]

-----------------------------------------------------------------------------
(* tick: the closing marks.                                                *)

\* Mutant: a low exactly at the stop does not count.
MissedStrictly(s, book) ==
    /\ book[s] # None /\ dailies[s] # None /\ ~dailies[s].processed
    /\ \/ dailies[s].open <= book[s].stop /\ s \notin Accepted
       \/ dailies[s].open > book[s].stop /\ dailies[s].low < book[s].stop

\* A daily bar proves that a stop was missed.
Missed(s, book) ==
    /\ book[s] # None /\ dailies[s] # None /\ ~dailies[s].processed
    /\ \/ dailies[s].open <= book[s].stop /\ s \notin Accepted
       \/ dailies[s].open > book[s].stop /\ dailies[s].low <= book[s].stop

Unmarked(book) == {s \in Securities : book[s] # None /\ dailies[s] = None}

\* Only the first evidence of a missed stop is kept.
AfterClose(book) ==
    [s \in Securities |->
        IF Missed(s, book) /\ book[s].recovery = 0
        THEN [book[s] EXCEPT !.recovery = Today]
        ELSE book[s]]

\* The data gaps of this tick.
Gaps(book) ==
    \/ Late /\ Missing # {}
    \/ clock.phase = "closed" /\ (Unmarked(book) # {} \/ \E s \in Securities : Missed(s, book))

Tick ==
    \E bought \in SUBSET Buyable :
       LET book == AfterOpen(bought) IN
       /\ clock.phase # "before"
       /\ WithinLimit(bought)
       /\ orders' = [orders EXCEPT ![Today] =
                        [s \in Securities |->
                            IF s \in WaitingOn(Today)
                            THEN [@[s] EXCEPT !.status = Settled(s, bought)]
                            ELSE @[s]]]
       /\ fills' = fills \cup OpenFills(bought)
       /\ opens' = [s \in Securities |->
                       IF s \in Due THEN [opens[s] EXCEPT !.processed = TRUE] ELSE opens[s]]
       /\ account' = IF Gaps(book) THEN Degrade(account) ELSE account
       /\ IF clock.phase = "closed"
          THEN /\ positions' = AfterClose(book)
               /\ dailies' = [s \in Securities |->
                                 IF dailies[s] = None THEN None
                                 ELSE [dailies[s] EXCEPT !.processed = TRUE]]
               /\ closed' = closed \cup {Today}
          ELSE /\ positions' = book
               /\ UNCHANGED <<dailies, closed>>
       /\ UNCHANGED <<clock, periods>>

-----------------------------------------------------------------------------
(* The operator.                                                           *)

\* The kill switch cancels the waiting BUYs of every session and is final.
Kill ==
    /\ account # "KILLED"
    /\ account' = "KILLED"
    /\ orders' = [d \in Sessions |->
                     [s \in Securities |->
                         IF s \in WaitingOn(d) /\ orders[d][s].side = "BUY"
                         THEN [orders[d][s] EXCEPT !.status = "CANCELLED"]
                         ELSE orders[d][s]]]
    /\ UNCHANGED <<clock, periods, positions, opens, dailies, fills, closed>>

\* Mutant: recovery may be acknowledged while a recovery exit is pending.
NothingPendingUnchecked == TRUE

NothingPending == \A s \in Held : positions[s].recovery = 0

AcknowledgeDataRecovery ==
    /\ account # "KILLED"
    /\ NothingPending
    /\ account' = "RUNNING"
    /\ UNCHANGED <<clock, periods, orders, positions, opens, dailies, fills, closed>>

-----------------------------------------------------------------------------
\* The runtime quotes what is held or waits for this open, and marks what is held.
Next ==
    \/ Advance \/ Tick \/ Kill \/ AcknowledgeDataRecovery
    \/ \E signals \in [Securities -> Sides \cup {None}] : CreatePeriod(signals)
    \/ \E s \in Required, price \in Prices : RecordOpen(s, price)
    \/ \E s \in Held : \/ \E quote \in Prices : ExecuteIntradayStop(s, quote)
                       \/ \E open, low \in Prices : RecordDaily(s, open, low)

Spec == Init /\ [][Next]_vars
-----------------------------------------------------------------------------
(* Properties.                                                              *)

Positions == [stop : Int, recovery : Sessions \cup {0}]
Orders    == [side : Sides, status : Statuses]
Fills     == [security : Securities, session : Sessions, side : Sides, reason : Reasons]

\* The type invariant of the paper database.
TypeOK ==
    /\ clock \in [session : Sessions, phase : Phases]
    /\ account \in {"RUNNING", "DATA_DEGRADED", "KILLED"}
    /\ periods \subseteq MonthEnds
    /\ orders \in [Sessions -> [Securities -> Orders \cup {None}]]
    /\ positions \in [Securities -> Positions \cup {None}]
    /\ opens \in [Securities -> [price : Prices, status : {"ACCEPTED", "LATE_IGNORED"},
                                 processed : BOOLEAN] \cup {None}]
    /\ dailies \in [Securities -> [open : Prices, low : Prices, processed : BOOLEAN] \cup {None}]
    /\ fills \subseteq Fills
    /\ closed \subseteq Sessions

FillsOf(s, side) == {f \in fills : f.security = s /\ f.side = side}

\* The fills explain the book: a security is held exactly when it was bought once
\* more often than sold, so no fill is lost to a reused idempotency key (the
\* INSERT OR IGNORE of _fill_order) and no position is sold or bought twice; and
\* an order is FILLED exactly when its own fill is there.
FillsExplainBook ==
    \A s \in Securities :
        /\ Cardinality(FillsOf(s, "BUY")) =
              Cardinality(FillsOf(s, "SELL")) + IF positions[s] # None THEN 1 ELSE 0
        /\ \A d \in Sessions :
              (orders[d][s] # None /\ orders[d][s].status = "FILLED") <=>
                  \E f \in fills : f.security = s /\ f.session = d /\ f.reason = "REBALANCE"

\* The sleeve never holds more than max_positions, however exits, SELLs and BUYs
\* of one opening fall into one or several ticks.
PositionLimit == Cardinality(Held) <= MaxPositions

\* A daily bar at or below the stop is never forgotten: a position that it marked
\* has a recovery exit pending.
BreachIsRemembered ==
    \A s \in Held :
        dailies[s] # None /\ dailies[s].processed /\ dailies[s].low <= positions[s].stop
            => positions[s].recovery # 0

\* A pending recovery exit is taken at the first timely open after its session:
\* a position with one due is never still held once that open was processed.
RecoveryTakesFirstOpen ==
    \A s \in Held :
        positions[s].recovery # 0 /\ Today > positions[s].recovery /\ s \in Accepted
            => ~opens[s].processed

\* While a recovery exit is pending the account does not buy, and no operator note
\* opens it again.
RecoveryBlocksBuys ==
    (\E s \in Held : positions[s].recovery # 0) => account # "RUNNING"

\* Once the closing tick of a session ran, none of its orders is waiting any more:
\* whatever quotes came late, never, or in an unlucky order.
ClosedSessionIsSettled == \A d \in closed : WaitingOn(d) = {}

\* The BUYs of a session are all-or-nothing in their quotes: none is bought while
\* another BUY of the session still waits for its open, and none of them expires once
\* one was bought, in whatever order quotes, ticks and the end of the window come.
BuysShareTheWindow ==
    \A f \in fills :
        f.side = "BUY" =>
            \A s \in Securities :
                orders[f.session][s] # None /\ orders[f.session][s].side = "BUY"
                    => orders[f.session][s].status \notin {"WAITING_OPEN", "EXPIRED"}

\* The kill switch is final, and later sessions hold no position that was not held
\* when it was thrown.
KillIsFinal ==
    [][account = "KILLED" =>
          /\ account' = "KILLED"
          /\ \A s \in Securities : positions[s] = None => positions'[s] = None]_vars

\* "A subsequent verified worker tick owns recovery": the closing tick of a session
\* that was complete (a timely open and a mark for every security it needed, no order
\* expired, no exit left pending) ends the degradation of an earlier one.
VerifiedTickRecovers ==
    [][(/\ Today \notin closed /\ Today \in closed'
        /\ Held # {} /\ Required \cup Held \subseteq Accepted
        /\ \A s \in Securities : orders'[Today][s] # None => orders'[Today][s].status # "EXPIRED"
        /\ \A s \in Held : dailies[s] # None /\ (positions'[s] # None => positions'[s].recovery = 0))
       => account' # "DATA_DEGRADED"]_vars
=============================================================================
