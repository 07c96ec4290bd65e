----------------------------- MODULE USPaperProofs -----------------------------
(***************************************************************************)
(* What the executor of the simulated sleeve guarantees for every set of    *)
(* securities, prices and sessions, every position limit and every order in *)
(* which its calls come.                                                    *)
(***************************************************************************)
EXTENDS USPaperRuntime, FiniteSetTheorems, TLAPS

Opens == [price : Prices, status : {"ACCEPTED", "LATE_IGNORED"}, processed : BOOLEAN]
Dailies == [open : Prices, low : Prices, processed : BOOLEAN]

\* The tick that buys these.
TickBuying(bought) ==
    LET book == AfterOpen(bought) IN
    /\ clock.phase # "before"
    /\ WithinLimit(bought)
    /\ orders' = [orders EXCEPT ![Today] =
                     [s \in Securities |->
                         IF s \in WaitingOn(Today)
                         THEN [@[s] EXCEPT !.status = Settled(s, bought)]
                         ELSE @[s]]]
    /\ fills' = fills \cup OpenFills(bought)
    /\ opens' = [s \in Securities |->
                    IF s \in Due THEN [opens[s] EXCEPT !.processed = TRUE] ELSE opens[s]]
    /\ account' = IF Gaps(book) THEN Degrade(account) ELSE account
    /\ IF clock.phase = "closed"
       THEN /\ positions' = AfterClose(book)
            /\ dailies' = [s \in Securities |->
                              IF dailies[s] = None THEN None
                              ELSE [dailies[s] EXCEPT !.processed = TRUE]]
            /\ closed' = closed \cup {Today}
       ELSE /\ positions' = book
            /\ UNCHANGED <<dailies, closed>>
    /\ UNCHANGED <<clock, periods>>

(* A tick is a tick with the set of securities it buys named. *)
LEMMA TickBuys == Tick <=> \E bought \in SUBSET Buyable : TickBuying(bought)
  BY DEF Tick, TickBuying

-----------------------------------------------------------------------------
(* The sets a tick works with.                                              *)

\* A position is never mistaken for none.
LEMMA PositionIsSomething ==
    /\ None \notin Positions
    /\ \A p \in Positions : p # None
  BY PaperAssumption DEF Positions, Sessions

\* Nor is a mark.
LEMMA MarkIsSomething == None \notin Dailies
  <1>1. Dailies \subseteq [open : Nat, low : Nat, processed : BOOLEAN]
    BY PaperAssumption DEF Dailies
  <1>. QED
    BY <1>1, PaperAssumption

\* A bought position starts at its stop with nothing pending.
LEMMA BoughtPosition ==
    ASSUME TypeOK, NEW s \in Accepted
    PROVE  /\ s \in Securities /\ opens[s] \in Opens /\ opens[s].price \in Nat
           /\ [stop |-> opens[s].price - StopDistance, recovery |-> 0] \in Positions
  <1>1. s \in Securities /\ opens[s] # None /\ opens[s] \in Opens \cup {None}
    BY DEF Accepted, TypeOK, Opens
  <1>2. opens[s].price \in Nat /\ StopDistance \in Nat
    <2>1. opens[s].price \in Prices
      BY <1>1 DEF Opens
    <2>. QED
      BY <2>1, PaperAssumption
  <1>3. opens[s].price - StopDistance \in Int
    BY <1>2
  <1>. QED
    BY <1>1, <1>2, <1>3 DEF Positions

\* Exits are of held securities, and what is bought is neither held nor exited.
LEMMA ExitsAndBuys ==
    ASSUME NEW bought \in SUBSET Buyable
    PROVE  /\ RiskExits \subseteq Due \cap Held /\ Sold \subseteq Due \cap Held
           /\ bought \subseteq Due /\ bought \cap Held = {}
           /\ Due \subseteq Accepted /\ Held \subseteq Securities
           /\ bought # {} => ~Late /\ account = "RUNNING"
  BY DEF RiskExits, Sold, Buyable, Due, Accepted, Held

\* The book after the opening.
LEMMA BookAfterOpen ==
    ASSUME TypeOK, NEW bought \in SUBSET Buyable
    PROVE  /\ AfterOpen(bought) \in [Securities -> Positions \cup {None}]
           /\ \A s \in RiskExits \cup Sold : AfterOpen(bought)[s] = None
           /\ \A s \in bought : AfterOpen(bought)[s] =
                 [stop |-> opens[s].price - StopDistance, recovery |-> 0]
           /\ \A s \in Securities \ (RiskExits \cup Sold \cup bought) :
                 AfterOpen(bought)[s] = positions[s]
  <1>1. \A s \in bought : [stop |-> opens[s].price - StopDistance, recovery |-> 0] \in Positions
    BY BoughtPosition, ExitsAndBuys
  <1>2. positions \in [Securities -> Positions \cup {None}]
    BY DEF TypeOK
  <1>3. (RiskExits \cup Sold) \cap bought = {} /\ RiskExits \cup Sold \cup bought \subseteq Securities
    BY ExitsAndBuys DEF Accepted
  <1>. QED
    BY <1>1, <1>2, <1>3 DEF AfterOpen

\* The closing marks change nothing but the first session a missed stop was seen in.
LEMMA BookAfterClose ==
    ASSUME TypeOK, NEW book \in [Securities -> Positions \cup {None}]
    PROVE  /\ AfterClose(book) \in [Securities -> Positions \cup {None}]
           /\ \A s \in Securities : book[s] = None <=> AfterClose(book)[s] = None
           /\ \A s \in Securities : book[s] # None =>
                 /\ AfterClose(book)[s].stop = book[s].stop
                 /\ AfterClose(book)[s].recovery =
                       IF Missed(s, book) /\ book[s].recovery = 0 THEN Today ELSE book[s].recovery
  <1>. SUFFICES ASSUME NEW s \in Securities
                PROVE  /\ AfterClose(book)[s] \in Positions \cup {None}
                       /\ book[s] = None <=> AfterClose(book)[s] = None
                       /\ book[s] # None =>
                             /\ AfterClose(book)[s].stop = book[s].stop
                             /\ AfterClose(book)[s].recovery =
                                   IF Missed(s, book) /\ book[s].recovery = 0
                                   THEN Today ELSE book[s].recovery
    BY DEF AfterClose
  <1>1. Today \in Sessions
    BY DEF TypeOK, Today
  <1>2. CASE Missed(s, book) /\ book[s].recovery = 0
    <2>1. book[s] \in Positions
      BY <1>2 DEF Missed
    <2>2. AfterClose(book)[s] = [book[s] EXCEPT !.recovery = Today]
      BY <1>2 DEF AfterClose
    <2>3. /\ AfterClose(book)[s] \in Positions
          /\ AfterClose(book)[s].stop = book[s].stop /\ AfterClose(book)[s].recovery = Today
      BY <1>1, <2>1, <2>2 DEF Positions
    <2>. QED
      BY <1>2, <2>1, <2>3, PositionIsSomething
  <1>3. CASE ~(Missed(s, book) /\ book[s].recovery = 0)
    <2>1. AfterClose(book)[s] = book[s]
      BY <1>3 DEF AfterClose
    <2>. QED
      BY <1>3, <2>1
  <1>. QED
    BY <1>2, <1>3

\* What a tick does to the book, and which stops it finds missed.
LEMMA TickBook ==
    ASSUME TypeOK, NEW bought \in SUBSET Buyable, TickBuying(bought)
    PROVE  /\ positions' \in [Securities -> Positions \cup {None}]
           /\ \A s \in RiskExits \cup Sold : positions'[s] = None
           /\ \A s \in bought : /\ positions'[s] # None /\ positions'[s].recovery = 0
                                /\ positions'[s].stop = opens[s].price - StopDistance
           /\ \A s \in Securities \ (RiskExits \cup Sold \cup bought) :
                 /\ positions[s] = None <=> positions'[s] = None
                 /\ positions[s] # None =>
                       /\ positions'[s].stop = positions[s].stop
                       /\ positions'[s].recovery =
                             IF clock.phase = "closed" /\ Missed(s, AfterOpen(bought))
                                   /\ positions[s].recovery = 0
                             THEN Today ELSE positions[s].recovery
  <1>. DEFINE book == AfterOpen(bought)
  <1>1. /\ book \in [Securities -> Positions \cup {None}]
        /\ \A s \in RiskExits \cup Sold : book[s] = None
        /\ \A s \in bought : book[s] = [stop |-> opens[s].price - StopDistance, recovery |-> 0]
        /\ \A s \in Securities \ (RiskExits \cup Sold \cup bought) : book[s] = positions[s]
    BY BookAfterOpen
  <1>2. ASSUME NEW s \in bought
        PROVE  s \in Securities /\ book[s] \in Positions /\ book[s].recovery = 0
               /\ book[s].stop = opens[s].price - StopDistance
    <2>1. s \in Accepted
      BY ExitsAndBuys
    <2>2. book[s] = [stop |-> opens[s].price - StopDistance, recovery |-> 0]
      BY <1>1
    <2>. HIDE DEF book
    <2>. QED
      BY <2>1, <2>2, BoughtPosition
  <1>3. RiskExits \cup Sold \subseteq Securities
    BY ExitsAndBuys
  <1>4. CASE clock.phase = "closed"
    <2>1. positions' = AfterClose(book) /\ bought = {}
      BY <1>4, ExitsAndBuys DEF TickBuying, Late
    <2>. HIDE DEF book
    <2>. QED
      BY <1>1, <1>3, <1>4, <2>1, BookAfterClose DEF book
  <1>5. CASE clock.phase # "closed"
    <2>1. positions' = book
      BY <1>5 DEF TickBuying
    <2>. HIDE DEF book
    <2>. QED
      BY <1>1, <1>2, <1>5, <2>1, PositionIsSomething
  <1>. QED
    BY <1>4, <1>5

\* What becomes of an order is a status; only one that is not due goes on waiting.
LEMMA SettledStatus ==
    ASSUME NEW s \in Securities, NEW bought \in SUBSET Buyable
    PROVE  /\ Settled(s, bought) \in Statuses
           /\ Settled(s, bought) = "WAITING_OPEN" => s \notin Due \cup Expired
  BY DEF Settled, Statuses

\* The orders after a tick.
LEMMA TickOrders ==
    ASSUME TypeOK, NEW bought \in SUBSET Buyable, TickBuying(bought)
    PROVE  /\ orders' \in [Sessions -> [Securities -> Orders \cup {None}]]
           /\ \A d \in Sessions \ {Today} : orders'[d] = orders[d]
           /\ WaitingOn(Today)' \subseteq WaitingOn(Today) \ (Due \cup Expired)
  <1>. DEFINE row == [s \in Securities |->
                         IF s \in WaitingOn(Today)
                         THEN [orders[Today][s] EXCEPT !.status = Settled(s, bought)]
                         ELSE orders[Today][s]]
  <1>1. /\ Today \in Sessions /\ orders \in [Sessions -> [Securities -> Orders \cup {None}]]
        /\ Today' = Today
    BY DEF TypeOK, Today, TickBuying
  <1>2. orders' = [orders EXCEPT ![Today] = row]
    BY <1>1 DEF TickBuying
  <1>3. ASSUME NEW s \in WaitingOn(Today)
        PROVE  /\ s \in Securities /\ row[s] \in Orders
               /\ row[s].status = Settled(s, bought)
    <2>1. s \in Securities /\ orders[Today][s] \in Orders
      BY <1>1 DEF WaitingOn
    <2>2. row[s] = [orders[Today][s] EXCEPT !.status = Settled(s, bought)]
      BY <2>1
    <2>. QED
      BY <2>1, <2>2, SettledStatus DEF Orders
  <1>4. \A s \in Securities \ WaitingOn(Today) : row[s] = orders[Today][s]
    OBVIOUS
  <1>5. row \in [Securities -> Orders \cup {None}]
    BY <1>1, <1>3, <1>4
  <1>. HIDE DEF row
  <1>6. orders' \in [Sessions -> [Securities -> Orders \cup {None}]] /\ orders'[Today] = row
        /\ \A d \in Sessions \ {Today} : orders'[d] = orders[d]
    BY <1>1, <1>2, <1>5
  <1>7. WaitingOn(Today)' = {s \in Securities : row[s] # None /\ row[s].status = "WAITING_OPEN"}
    BY <1>1, <1>6 DEF WaitingOn
  <1>8. ASSUME NEW s \in Securities, row[s] # None, row[s].status = "WAITING_OPEN"
        PROVE  s \in WaitingOn(Today) \ (Due \cup Expired)
    <2>1. s \in WaitingOn(Today)
      BY <1>4, <1>8 DEF WaitingOn
    <2>. QED
      BY <1>3, <1>8, <2>1, SettledStatus
  <1>. QED
    BY <1>6, <1>7, <1>8

\* The observations after a tick: the due ones are processed, none is new.
LEMMA TickOpens ==
    ASSUME TypeOK, NEW bought \in SUBSET Buyable, TickBuying(bought)
    PROVE  /\ opens' \in [Securities -> Opens \cup {None}]
           /\ \A s \in Securities :
                 /\ opens[s] = None => opens'[s] = None
                 /\ opens[s] # None =>
                       /\ opens'[s].price = opens[s].price /\ opens'[s].status = opens[s].status
                       /\ opens'[s].processed = TRUE <=> (opens[s].processed = TRUE \/ s \in Due)
           /\ Accepted' \subseteq Accepted
  <1>1. opens \in [Securities -> Opens \cup {None}]
    BY DEF TypeOK, Opens
  <1>2. \A s \in Due : s \in Securities /\ opens[s] # None
    BY DEF Due, Accepted
  <1>3. /\ opens' \in [Securities -> Opens \cup {None}]
        /\ \A s \in Securities \ Due : opens'[s] = opens[s]
        /\ \A s \in Due : opens'[s] = [opens[s] EXCEPT !.processed = TRUE]
    BY <1>1, <1>2 DEF TickBuying, Opens
  <1>4. \A s \in Due : /\ opens'[s].price = opens[s].price /\ opens'[s].status = opens[s].status
                       /\ opens'[s].processed = TRUE
    BY <1>1, <1>2, <1>3 DEF Opens
  <1>. QED
    BY <1>2, <1>3, <1>4 DEF Accepted

\* The marks after a tick.
LEMMA TickDailies ==
    ASSUME TypeOK, NEW bought \in SUBSET Buyable, TickBuying(bought)
    PROVE  /\ dailies' \in [Securities -> Dailies \cup {None}]
           /\ \A s \in Securities :
                 /\ dailies[s] = None <=> dailies'[s] = None
                 /\ dailies[s] # None =>
                       /\ dailies'[s].open = dailies[s].open /\ dailies'[s].low = dailies[s].low
                       /\ dailies'[s].processed = TRUE
                             <=> (dailies[s].processed = TRUE \/ clock.phase = "closed")
  <1>1. dailies \in [Securities -> Dailies \cup {None}]
    BY DEF TypeOK, Dailies
  <1>2. CASE clock.phase # "closed"
    BY <1>1, <1>2 DEF TickBuying
  <1>3. CASE clock.phase = "closed"
    <2>1. \A s \in Securities : dailies'[s] = IF dailies[s] = None THEN None
                                              ELSE [dailies[s] EXCEPT !.processed = TRUE]
      BY <1>3 DEF TickBuying
    <2>2. ASSUME NEW s \in Securities, dailies[s] # None
          PROVE  /\ dailies'[s] \in Dailies /\ dailies'[s].processed = TRUE
                 /\ dailies'[s].open = dailies[s].open /\ dailies'[s].low = dailies[s].low
      BY <1>1, <2>1, <2>2 DEF Dailies
    <2>3. DOMAIN dailies' = Securities /\ dailies' = [s \in Securities |-> dailies'[s]]
      BY <1>3 DEF TickBuying
    <2>4. None \notin Dailies
      BY MarkIsSomething
    <2>. QED
      BY <1>1, <1>3, <2>1, <2>2, <2>3, <2>4
  <1>. QED
    BY <1>2, <1>3

-----------------------------------------------------------------------------
(* Type correctness.                                                        *)

\* The calls other than the tick.  The executor records an observation of any security:
\* a quote may arrive when the kill switch has just cancelled the order it was for.
Call ==
    \/ Kill \/ AcknowledgeDataRecovery
    \/ \E signals \in [Securities -> Sides \cup {None}] : CreatePeriod(signals)
    \/ \E s \in Securities, price \in Prices : RecordOpen(s, price)
    \/ \E s \in Held, quote \in Prices : ExecuteIntradayStop(s, quote)
    \/ \E s \in Securities, open \in Prices, low \in Prices : RecordDaily(s, open, low)

(* The next-state relation in the three groups the proofs go through. *)
LEMMA NextIsOneOf == Next => Advance \/ Call \/ Tick
  BY DEF Next, Call, Held, Required, WaitingOn

Step == Advance \/ Call \/ Tick \/ UNCHANGED vars

Accounts == {"RUNNING", "DATA_DEGRADED", "KILLED"}

\* Degrading an account gives an account that does not buy.
LEMMA DegradeStops == \A status \in Accounts :
                         Degrade(status) \in Accounts /\ Degrade(status) # "RUNNING"
                         /\ (status = "KILLED" => Degrade(status) = "KILLED")
  BY DEF Degrade, Accounts

\* The kill switch only takes orders off the list.
LEMMA KillOrders ==
    ASSUME TypeOK, Kill
    PROVE  /\ orders' \in [Sessions -> [Securities -> Orders \cup {None}]]
           /\ \A d \in Sessions : WaitingOn(d)' \subseteq WaitingOn(d)
  <1>. DEFINE after(d, s) == IF s \in WaitingOn(d) /\ orders[d][s].side = "BUY"
                             THEN [orders[d][s] EXCEPT !.status = "CANCELLED"]
                             ELSE orders[d][s]
  <1>1. ASSUME NEW d \in Sessions, NEW s \in Securities
        PROVE  /\ after(d, s) \in Orders \cup {None}
               /\ after(d, s) # None /\ after(d, s).status = "WAITING_OPEN" => s \in WaitingOn(d)
    <2>1. orders[d][s] \in Orders \cup {None}
      BY DEF TypeOK
    <2>2. CASE s \in WaitingOn(d) /\ orders[d][s].side = "BUY"
      BY <2>1, <2>2 DEF WaitingOn, Orders, Statuses
    <2>3. CASE ~(s \in WaitingOn(d) /\ orders[d][s].side = "BUY")
      BY <2>1, <2>3 DEF WaitingOn
    <2>. QED
      BY <2>2, <2>3
  <1>2. orders' = [d \in Sessions |-> [s \in Securities |-> after(d, s)]]
    BY DEF Kill
  <1>. HIDE DEF after
  <1>. QED
    BY <1>1, <1>2 DEF WaitingOn

\* The clock moves on within a session, or to the next one and its observations.
LEMMA AdvanceStep ==
    ASSUME TypeOK, Advance
    PROVE  /\ TypeOK'
           /\ \/ /\ Today' = Today /\ clock.phase # "closed" /\ UNCHANGED <<opens, dailies>>
              \/ /\ Today' = Today + 1
                 /\ \A s \in Securities : opens'[s] = None /\ dailies'[s] = None
  <1>1. UNCHANGED <<account, periods, orders, positions, fills, closed>>
    BY DEF Advance
  <1>2. CASE /\ clock.phase # "closed" /\ UNCHANGED <<opens, dailies>>
             /\ clock' = [clock EXCEPT !.phase = CASE @ = "before"  -> "capture"
                                                 [] @ = "capture" -> "day"
                                                 [] @ = "day"     -> "closed"]
    <2>1. clock \in [session : Sessions, phase : Phases]
      BY DEF TypeOK
    <2>2. clock' \in [session : Sessions, phase : Phases] /\ clock'.session = clock.session
      BY <1>2, <2>1 DEF Phases
    <2>. QED
      BY <1>1, <1>2, <2>2 DEF TypeOK, Today
  <1>3. CASE /\ Today < LastSession /\ clock' = [session |-> Today + 1, phase |-> "before"]
             /\ opens' = [s \in Securities |-> None] /\ dailies' = [s \in Securities |-> None]
    <2>1. Today + 1 \in Sessions
      BY <1>3, PaperAssumption DEF TypeOK, Today, Sessions
    <2>. QED
      BY <1>1, <1>3, <2>1 DEF TypeOK, Today, Phases
  <1>. QED
    BY <1>2, <1>3 DEF Advance

\* What no call but the tick can do: buy, mark, process or settle.
LEMMA CallStep ==
    ASSUME TypeOK, Call
    PROVE  /\ TypeOK' /\ UNCHANGED <<clock, closed>>
           /\ \A s \in Securities : positions'[s] \in {positions[s], None}
           /\ account' = "RUNNING" /\ account # "RUNNING" => NothingPending /\ UNCHANGED positions
           /\ account = "KILLED" => account' = "KILLED"
           /\ \A s \in Securities :
                 \/ opens'[s] = opens[s]
                 \/ /\ opens[s] = None /\ opens'[s].processed = FALSE
                    /\ Late => opens'[s].status = "LATE_IGNORED"
                    /\ QuotesAgree /\ dailies[s] # None => dailies[s].open = opens'[s].price
                    /\ UNCHANGED dailies
           /\ \A s \in Securities :
                 \/ dailies'[s] = dailies[s]
                 \/ /\ dailies[s] = None /\ dailies'[s].processed = FALSE
                    /\ clock.phase = "closed" /\ dailies'[s].low <= dailies'[s].open
                    /\ QuotesAgree /\ opens[s] # None => dailies'[s].open = opens[s].price
                    /\ UNCHANGED opens
           /\ \A d \in Sessions : WaitingOn(d)' \subseteq WaitingOn(d) \/ d = Today + 1
  <1>0. /\ Today \in Sessions /\ account \in Accounts /\ Held \subseteq Securities
        /\ Required \subseteq Securities
        /\ positions \in [Securities -> Positions \cup {None}]
        /\ orders \in [Sessions -> [Securities -> Orders \cup {None}]]
        /\ opens \in [Securities -> Opens \cup {None}]
        /\ dailies \in [Securities -> Dailies \cup {None}]
    BY DEF TypeOK, Today, Accounts, Held, Required, WaitingOn, Opens, Dailies
  <1>1. CASE Kill
    <2>1. account' = "KILLED" /\ UNCHANGED <<clock, periods, positions, opens, dailies, fills, closed>>
      BY <1>1 DEF Kill
    <2>. QED
      BY <1>1, <2>1, KillOrders DEF TypeOK
  <1>2. CASE AcknowledgeDataRecovery
    BY <1>2 DEF AcknowledgeDataRecovery, TypeOK, WaitingOn
  <1>3. ASSUME NEW signals \in [Securities -> Sides \cup {None}], CreatePeriod(signals)
        PROVE  /\ TypeOK' /\ UNCHANGED <<clock, closed, account, positions, opens, dailies>>
               /\ \A d \in Sessions : WaitingOn(d)' \subseteq WaitingOn(d) \/ d = Today + 1
    <2>. DEFINE row == [s \in Securities |-> IF signals[s] = None THEN None
                                             ELSE [side |-> signals[s], status |-> "WAITING_OPEN"]]
    <2>1. row \in [Securities -> Orders \cup {None}]
      BY DEF Orders, Statuses
    <2>2. /\ orders' = [orders EXCEPT ![Today + 1] = row] /\ periods' = periods \cup {Today}
          /\ Today \in MonthEnds
          /\ UNCHANGED <<clock, account, positions, opens, dailies, fills, closed>>
      BY <1>3 DEF CreatePeriod
    <2>. HIDE DEF row
    <2>3. /\ orders' \in [Sessions -> [Securities -> Orders \cup {None}]]
          /\ \A d \in Sessions : orders'[d] = orders[d] \/ d = Today + 1
      BY <1>0, <2>1, <2>2
    <2>. QED
      BY <2>2, <2>3 DEF TypeOK, WaitingOn
  <1>4. ASSUME NEW s \in Securities, NEW price \in Prices, RecordOpen(s, price)
        PROVE  /\ TypeOK' /\ UNCHANGED <<clock, closed, positions, orders, dailies>>
               /\ account' # account => account' # "RUNNING"
               /\ account = "KILLED" => account' = "KILLED"
               /\ opens[s] = None /\ opens'[s].processed = FALSE
               /\ Late => opens'[s].status = "LATE_IGNORED"
               /\ QuotesAgree /\ dailies[s] # None => dailies[s].open = opens'[s].price
               /\ \A r \in Securities \ {s} : opens'[r] = opens[r]
    <2>1. /\ opens' = [opens EXCEPT ![s] = [price |-> price, status |-> OpenStatus, processed |-> FALSE]]
          /\ [price |-> price, status |-> OpenStatus, processed |-> FALSE] \in Opens
      BY <1>4 DEF RecordOpen, Opens, OpenStatus
    <2>2. account' \in Accounts /\ (account' # account => account' # "RUNNING")
          /\ (account = "KILLED" => account' = "KILLED")
      BY <1>0, <1>4, DegradeStops DEF RecordOpen
    <2>3. /\ opens' \in [Securities -> Opens \cup {None}]
          /\ opens'[s] = [price |-> price, status |-> OpenStatus, processed |-> FALSE]
          /\ \A r \in Securities \ {s} : opens'[r] = opens[r]
      BY <1>0, <2>1
    <2>4. UNCHANGED <<clock, periods, orders, positions, dailies, fills, closed>>
      BY <1>4 DEF RecordOpen
    <2>5. TypeOK'
      BY <2>2, <2>3, <2>4 DEF TypeOK, Accounts, Opens
    <2>6. /\ opens[s] = None
          /\ QuotesAgree /\ dailies[s] # None => dailies[s].open = price
      BY <1>4 DEF RecordOpen
    <2>. QED
      BY <2>2, <2>3, <2>4, <2>5, <2>6 DEF OpenStatus
  <1>5. ASSUME NEW s \in Held, NEW quote \in Prices, ExecuteIntradayStop(s, quote)
        PROVE  /\ TypeOK' /\ UNCHANGED <<clock, closed, account, orders, opens, dailies>>
               /\ \A r \in Securities : positions'[r] \in {positions[r], None}
    <2>1. Fill(s, "SELL", "INTRADAY") \in Fills
      BY <1>0 DEF Fill, Fills, Sides, Reasons
    <2>2. positions' = [positions EXCEPT ![s] = None]
          /\ fills' = fills \cup {Fill(s, "SELL", "INTRADAY")}
          /\ UNCHANGED <<clock, account, periods, orders, opens, dailies, closed>>
      BY <1>5 DEF ExecuteIntradayStop
    <2>. QED
      BY <1>0, <2>1, <2>2 DEF TypeOK
  <1>6. ASSUME NEW s \in Securities, NEW open \in Prices, NEW low \in Prices, RecordDaily(s, open, low)
        PROVE  /\ TypeOK' /\ UNCHANGED <<clock, closed, account, orders, opens, positions>>
               /\ dailies[s] = None /\ dailies'[s].processed = FALSE
               /\ clock.phase = "closed" /\ dailies'[s].low <= dailies'[s].open
               /\ QuotesAgree /\ opens[s] # None => dailies'[s].open = opens[s].price
               /\ \A r \in Securities \ {s} : dailies'[r] = dailies[r]
    <2>1. /\ dailies' = [dailies EXCEPT ![s] = [open |-> open, low |-> low, processed |-> FALSE]]
          /\ [open |-> open, low |-> low, processed |-> FALSE] \in Dailies
      BY <1>6 DEF RecordDaily, Dailies
    <2>2. /\ dailies' \in [Securities -> Dailies \cup {None}]
          /\ dailies'[s] = [open |-> open, low |-> low, processed |-> FALSE]
          /\ \A r \in Securities \ {s} : dailies'[r] = dailies[r]
      BY <1>0, <2>1
    <2>3. UNCHANGED <<clock, account, periods, orders, positions, opens, fills, closed>>
      BY <1>6 DEF RecordDaily
    <2>4. TypeOK'
      BY <2>2, <2>3 DEF TypeOK, Dailies
    <2>5. /\ dailies[s] = None /\ clock.phase = "closed" /\ low <= open
          /\ QuotesAgree /\ opens[s] # None => opens[s].price = open
      BY <1>6 DEF RecordDaily
    <2>. QED
      BY <2>2, <2>3, <2>4, <2>5
  <1>7. CASE \E signals \in [Securities -> Sides \cup {None}] : CreatePeriod(signals)
    BY <1>3, <1>7
  <1>8. CASE \E s \in Securities, price \in Prices : RecordOpen(s, price)
    BY <1>0, <1>4, <1>8 DEF WaitingOn
  <1>9. CASE \E s \in Held, quote \in Prices : ExecuteIntradayStop(s, quote)
    BY <1>0, <1>5, <1>9 DEF WaitingOn
  <1>10. CASE \E s \in Securities, open \in Prices, low \in Prices : RecordDaily(s, open, low)
    BY <1>0, <1>6, <1>10 DEF WaitingOn
  <1>. QED
    BY <1>1, <1>2, <1>7, <1>8, <1>9, <1>10 DEF Call

\* The fills of an opening are fills.
LEMMA OpenFillsType ==
    ASSUME TypeOK, NEW bought \in SUBSET Buyable
    PROVE  OpenFills(bought) \subseteq Fills
  <1>1. RiskExits \cup Sold \cup bought \subseteq Securities /\ Today \in Sessions
    BY ExitsAndBuys DEF Accepted, TypeOK, Today
  <1>. QED
    BY <1>1 DEF OpenFills, Fill, Fills, Sides, Reasons

\* The tick keeps the types.
LEMMA TickType ==
    ASSUME TypeOK, NEW bought \in SUBSET Buyable, TickBuying(bought)
    PROVE  TypeOK'
  <1>1. account' \in Accounts
    BY DegradeStops DEF TickBuying, TypeOK, Accounts
  <1>2. fills' \subseteq Fills
    BY OpenFillsType DEF TickBuying, TypeOK
  <1>3. closed' \subseteq Sessions /\ UNCHANGED <<clock, periods>>
    BY DEF TickBuying, TypeOK, Today
  <1>4. /\ positions' \in [Securities -> Positions \cup {None}]
        /\ orders' \in [Sessions -> [Securities -> Orders \cup {None}]]
        /\ opens' \in [Securities -> Opens \cup {None}]
        /\ dailies' \in [Securities -> Dailies \cup {None}]
    BY TickBook, TickOrders, TickOpens, TickDailies
  <1>. QED
    BY <1>1, <1>2, <1>3, <1>4 DEF TypeOK, Accounts, Opens, Dailies

-----------------------------------------------------------------------------
(* The invariants.                                                          *)

\* Closed sessions are past, or the session is closed today.
ClosedIsPast == closed \subseteq 1..Today /\ (Today \in closed => clock.phase = "closed")

\* An opening quote that was processed left no order of its security waiting, and no
\* position it should have closed.
ProcessedOnce ==
    /\ \A s \in Securities :
          opens[s] # None /\ opens[s].processed = TRUE => s \notin WaitingOn(Today)
    /\ \A s \in Held \cap Accepted :
          opens[s].processed = TRUE => opens[s].price > positions[s].stop

\* A session's marks come after its close, and agree with its opening quotes.
MarksAgree ==
    \A s \in Securities : dailies[s] # None =>
        /\ clock.phase = "closed"
        /\ dailies[s].low <= dailies[s].open
        /\ QuotesAgree /\ opens[s] # None => dailies[s].open = opens[s].price

SleeveInv ==
    /\ TypeOK /\ ClosedIsPast /\ ProcessedOnce /\ MarksAgree
    /\ PositionLimit /\ RecoveryBlocksBuys /\ RecoveryTakesFirstOpen
    /\ ClosedSessionIsSettled
    /\ (QuotesAgree => BreachIsRemembered)

(* The empty sleeve satisfies the invariant. *)
LEMMA SleeveInvInit == Init => SleeveInv
  <1>. SUFFICES ASSUME Init
                PROVE  SleeveInv
    OBVIOUS
  <1>1. Held = {} /\ Accepted = {} /\ closed = {}
    BY DEF Init, Held, Accepted
  <1>2. TypeOK
    <2>1. 1 \in Sessions
      BY PaperAssumption DEF Sessions
    <2>. QED
      BY <2>1 DEF Init, TypeOK, Phases
  <1>3. PositionLimit
    BY <1>1, FS_EmptySet, PaperAssumption DEF PositionLimit
  <1>. QED
    BY <1>1, <1>2, <1>3 DEF Init, SleeveInv, ClosedIsPast, ProcessedOnce, MarksAgree,
       RecoveryBlocksBuys, RecoveryTakesFirstOpen, ClosedSessionIsSettled, BreachIsRemembered

\* The held securities are never too many to count.
LEMMA FewerHeld ==
    ASSUME PositionLimit, Held' \subseteq Held, Held \subseteq Securities
    PROVE  PositionLimit'
  <1>1. IsFiniteSet(Held)
    BY FS_Subset, PaperAssumption
  <1>2. /\ Cardinality(Held') <= Cardinality(Held) /\ IsFiniteSet(Held')
        /\ Cardinality(Held) \in Nat /\ Cardinality(Held') \in Nat
    BY <1>1, FS_Subset, FS_CardinalityType
  <1>. QED
    BY <1>2, PaperAssumption DEF PositionLimit

\* The clock keeps the invariant.
LEMMA AdvanceKeeps ==
    ASSUME SleeveInv, Advance
    PROVE  SleeveInv'
  <1>. USE DEF SleeveInv
  <1>1. UNCHANGED <<account, periods, orders, positions, fills, closed>> /\ TypeOK'
    BY AdvanceStep DEF Advance
  <1>2. Held' = Held /\ \A d \in Sessions : WaitingOn(d)' = WaitingOn(d)
    BY <1>1 DEF Held, WaitingOn
  <1>3. PositionLimit' /\ RecoveryBlocksBuys' /\ ClosedSessionIsSettled'
    BY <1>1, <1>2 DEF PositionLimit, RecoveryBlocksBuys, ClosedSessionIsSettled, TypeOK
  <1>4. CASE Today' = Today /\ clock.phase # "closed" /\ UNCHANGED <<opens, dailies>>
    <2>1. Accepted' = Accepted
      BY <1>4 DEF Accepted
    <2>. QED
      BY <1>1, <1>2, <1>3, <1>4, <2>1 DEF ClosedIsPast, ProcessedOnce, MarksAgree,
         RecoveryTakesFirstOpen, BreachIsRemembered, TypeOK, Today
  <1>5. CASE Today' = Today + 1 /\ \A s \in Securities : opens'[s] = None /\ dailies'[s] = None
    <2>1. Accepted' = {} /\ Held \subseteq Securities
      BY <1>5 DEF Accepted, Held
    <2>2. closed' \subseteq 1..Today' /\ Today' \notin closed'
      BY <1>1, <1>5 DEF ClosedIsPast, TypeOK, Today, Sessions
    <2>. QED
      BY <1>1, <1>2, <1>3, <1>5, <2>1, <2>2 DEF ClosedIsPast, ProcessedOnce, MarksAgree,
         RecoveryTakesFirstOpen, BreachIsRemembered
  <1>. QED
    BY <1>4, <1>5, AdvanceStep

\* The other calls keep the invariant: they only close positions and add observations
\* that are not processed yet.
LEMMA CallKeeps ==
    ASSUME SleeveInv, Call
    PROVE  SleeveInv'
  <1>. USE DEF SleeveInv
  <1>1. /\ TypeOK' /\ UNCHANGED <<clock, closed>> /\ Today' = Today /\ Today \in Sessions
        /\ \A s \in Securities : positions'[s] \in {positions[s], None}
    BY CallStep DEF Today, TypeOK
  <1>2. /\ \A s \in Held' : s \in Held /\ s \in Securities /\ positions'[s] = positions[s]
        /\ Held \subseteq Securities
    BY <1>1 DEF Held
  <1>3. PositionLimit'
    BY <1>2, FewerHeld
  <1>4. RecoveryBlocksBuys'
    <2>. SUFFICES ASSUME NEW s \in Held', positions'[s].recovery # 0, account' = "RUNNING"
                  PROVE  FALSE
      BY DEF RecoveryBlocksBuys
    <2>1. s \in Held /\ positions[s].recovery # 0 /\ account # "RUNNING"
      BY <1>2 DEF RecoveryBlocksBuys
    <2>2. NothingPending
      BY <2>1, CallStep
    <2>. QED
      BY <2>1, <2>2 DEF NothingPending
  <1>5. \A d \in Sessions : d <= Today => WaitingOn(d)' \subseteq WaitingOn(d)
    <2>1. ASSUME NEW d \in Sessions, d <= Today
          PROVE  d # Today + 1
      BY <1>1, <2>1 DEF Sessions
    <2>. QED
      BY <2>1, CallStep
  <1>6. ClosedSessionIsSettled'
    <2>1. \A d \in closed : d \in Sessions /\ d <= Today
      BY DEF ClosedIsPast, TypeOK
    <2>. QED
      BY <1>1, <1>5, <2>1 DEF ClosedSessionIsSettled
  <1>7. ClosedIsPast'
    BY <1>1 DEF ClosedIsPast
  <1>8. \A s \in Securities : opens'[s].processed = TRUE => opens'[s] = opens[s]
    BY CallStep
  <1>9. ProcessedOnce'
    <2>1. WaitingOn(Today)' \subseteq WaitingOn(Today)
      <3>1. Today <= Today
        BY <1>1 DEF Sessions
      <3>2. \A d \in Sessions : d = Today => WaitingOn(d)' \subseteq WaitingOn(Today)
        BY <1>5, <3>1
      <3>. QED
        BY <1>1, <3>2 DEF WaitingOn
    <2>2. ASSUME NEW s \in Held' \cap Accepted', opens'[s].processed = TRUE
          PROVE  opens'[s].price > positions'[s].stop
      <3>1. s \in Held \cap Accepted /\ opens'[s] = opens[s] /\ positions'[s] = positions[s]
        BY <1>2, <1>8, <2>2 DEF Accepted
      <3>. QED
        BY <2>2, <3>1 DEF ProcessedOnce
    <2>. QED
      BY <1>8, <2>1, <2>2 DEF ProcessedOnce
  <1>10. MarksAgree'
    BY <1>1, CallStep DEF MarksAgree
  <1>11. RecoveryTakesFirstOpen'
    <2>. SUFFICES ASSUME NEW s \in Held', positions'[s].recovery # 0,
                         Today > positions'[s].recovery, s \in Accepted'
                  PROVE  ~opens'[s].processed
      BY <1>1 DEF RecoveryTakesFirstOpen
    <2>1. CASE opens'[s] = opens[s]
      BY <1>2, <2>1 DEF Accepted, RecoveryTakesFirstOpen
    <2>2. CASE opens'[s].processed = FALSE
      BY <2>2
    <2>. QED
      BY <1>2, <2>1, <2>2, CallStep
  <1>12. QuotesAgree => BreachIsRemembered'
    <2>. SUFFICES ASSUME QuotesAgree, NEW s \in Held', dailies'[s] # None, dailies'[s].processed,
                         dailies'[s].low <= positions'[s].stop
                  PROVE  positions'[s].recovery # 0
      BY DEF BreachIsRemembered
    <2>1. dailies'[s] = dailies[s]
      BY <1>2, CallStep
    <2>. QED
      BY <1>2, <2>1 DEF BreachIsRemembered
  <1>. QED
    BY <1>1, <1>3, <1>4, <1>6, <1>7, <1>9, <1>10, <1>11, <1>12

\* What a tick leaves of a session's orders: once the window is over, nothing waits.
LEMMA LateTickSettles ==
    ASSUME SleeveInv, NEW bought \in SUBSET Buyable, TickBuying(bought), Late
    PROVE  WaitingOn(Today)' = {}
  <1>. SUFFICES ASSUME NEW s \in WaitingOn(Today), s \notin Due \cup Expired
                PROVE  FALSE
    BY TickOrders DEF SleeveInv
  <1>1. s \in Required /\ s \in Securities
    BY DEF Required, WaitingOn
  <1>2. s \notin Missing
    BY DEF Expired
  <1>3. s \in Accepted /\ opens[s] # None
    BY <1>1, <1>2 DEF Missing, Accepted
  <1>4. opens[s].processed = TRUE
    <2>1. opens[s].processed \in BOOLEAN
      BY <1>1, <1>3 DEF SleeveInv, TypeOK
    <2>2. opens[s].processed # FALSE
      BY <1>3 DEF Due
    <2>. QED
      BY <2>1, <2>2
  <1>. QED
    BY <1>1, <1>3, <1>4 DEF SleeveInv, ProcessedOnce

\* The tick keeps the invariant.
LEMMA TickKeeps ==
    ASSUME SleeveInv, NEW bought \in SUBSET Buyable, TickBuying(bought)
    PROVE  SleeveInv'
  <1>. USE DEF SleeveInv
  <1>1. /\ TypeOK' /\ UNCHANGED clock /\ Today' = Today /\ Today \in Sessions
        /\ Held \subseteq Securities /\ Held' \subseteq Securities
    BY TickType DEF TickBuying, Today, TypeOK, Held
  <1>2. /\ RiskExits \subseteq Due \cap Held /\ Sold \subseteq Due \cap Held
        /\ bought \subseteq Due /\ bought \cap Held = {} /\ Due \subseteq Accepted
        /\ bought # {} => ~Late /\ account = "RUNNING"
    BY ExitsAndBuys
  <1>3. Held' = (Held \ (RiskExits \cup Sold)) \cup bought
    <2>1. /\ bought \subseteq Securities /\ bought \cap (RiskExits \cup Sold) = {}
      BY <1>2 DEF Accepted
    <2>2. ASSUME NEW s \in Securities
          PROVE  s \in Held' <=> s \in (Held \ (RiskExits \cup Sold)) \cup bought
      BY <2>1, TickBook DEF Held
    <2>. QED
      BY <1>1, <2>1, <2>2
  <1>4. \A s \in Held' \ bought :
           /\ s \in Held \ (RiskExits \cup Sold) /\ s \in Securities
           /\ positions'[s].stop = positions[s].stop
           /\ positions'[s].recovery =
                 IF clock.phase = "closed" /\ Missed(s, AfterOpen(bought)) /\ positions[s].recovery = 0
                 THEN Today ELSE positions[s].recovery
    BY <1>1, <1>3, TickBook DEF Held
  <1>5. \A s \in bought : /\ positions'[s].recovery = 0 /\ opens[s].price \in Nat
                         /\ positions'[s].stop = opens[s].price - StopDistance
    BY <1>2, TickBook, BoughtPosition
  <1>6. PositionLimit'
    <2>1. CASE bought = {}
      BY <1>1, <1>3, <2>1, FewerHeld
    <2>2. CASE bought # {}
      BY <1>3, <2>2 DEF TickBuying, WithinLimit, PositionLimit
    <2>. QED
      BY <2>1, <2>2
  <1>7. RecoveryBlocksBuys'
    <2>. SUFFICES ASSUME NEW s \in Held', positions'[s].recovery # 0
                  PROVE  account' # "RUNNING"
      BY DEF RecoveryBlocksBuys
    <2>1. s \in Held' \ bought /\ s \in Held /\ s \in Securities
      BY <1>4, <1>5
    <2>2. CASE positions[s].recovery # 0
      <3>1. account \in Accounts /\ account # "RUNNING"
        BY <2>1, <2>2 DEF RecoveryBlocksBuys, TypeOK, Accounts
      <3>. QED
        BY <3>1, DegradeStops DEF TickBuying
    <2>3. CASE positions[s].recovery = 0
      <3>1. clock.phase = "closed" /\ Missed(s, AfterOpen(bought))
        BY <1>4, <2>1, <2>3
      <3>2. Gaps(AfterOpen(bought))
        BY <2>1, <3>1 DEF Gaps
      <3>. QED
        BY <3>2, DegradeStops DEF TickBuying, TypeOK, Accounts
    <2>. QED
      BY <2>2, <2>3
  <1>8. ClosedIsPast' /\ ClosedSessionIsSettled'
    <2>1. CASE clock.phase = "closed"
      <3>1. closed' = closed \cup {Today} /\ WaitingOn(Today)' = {}
        BY <2>1, LateTickSettles DEF TickBuying, Late
      <3>2. \A d \in closed \ {Today} : d \in Sessions /\ WaitingOn(d)' = WaitingOn(d)
        BY TickOrders DEF WaitingOn, TypeOK
      <3>3. 1 <= Today /\ Today \in Nat
        BY <1>1 DEF Sessions
      <3>4. \A d \in closed' : WaitingOn(d)' = {}
        BY <1>1, <3>1, <3>2 DEF ClosedSessionIsSettled, WaitingOn
      <3>. QED
        BY <1>1, <2>1, <3>1, <3>3, <3>4 DEF ClosedIsPast, ClosedSessionIsSettled
    <2>2. CASE clock.phase # "closed"
      <3>1. closed' = closed /\ Today \notin closed
        BY <2>2 DEF TickBuying, ClosedIsPast
      <3>2. \A d \in closed : d \in Sessions /\ WaitingOn(d)' = WaitingOn(d)
        BY <3>1, TickOrders DEF WaitingOn, TypeOK
      <3>. QED
        BY <1>1, <3>1, <3>2 DEF ClosedIsPast, ClosedSessionIsSettled
    <2>. QED
      BY <2>1, <2>2
  <1>9. ProcessedOnce'
    <2>1. ASSUME NEW s \in Securities, opens'[s] # None, opens'[s].processed = TRUE
          PROVE  s \notin WaitingOn(Today)'
      <3>1. opens[s] # None /\ (opens[s].processed = TRUE \/ s \in Due)
        BY <2>1, TickOpens
      <3>2. WaitingOn(Today)' \subseteq WaitingOn(Today) \ Due
        BY TickOrders
      <3>. QED
        BY <3>1, <3>2 DEF ProcessedOnce
    <2>2. ASSUME NEW s \in Held' \cap Accepted', opens'[s].processed = TRUE
          PROVE  opens'[s].price > positions'[s].stop
      <3>1. /\ s \in Accepted /\ s \in Securities /\ opens'[s].price = opens[s].price
            /\ opens[s].processed = TRUE \/ s \in Due
        BY <1>1, <2>2, TickOpens DEF Accepted
      <3>2. CASE s \in bought
        <4>1. StopDistance \in Nat /\ StopDistance > 0
          BY PaperAssumption
        <4>. QED
          BY <1>5, <3>1, <3>2, <4>1
      <3>3. CASE s \notin bought
        <4>1. s \in Held \ RiskExits /\ positions'[s].stop = positions[s].stop
          BY <1>4, <3>3
        <4>2. opens[s].price \in Int /\ positions[s].stop \in Int
          <5>1. positions[s] \in Positions
            BY <4>1 DEF Held, TypeOK
          <5>. QED
            BY <3>1, <5>1, BoughtPosition DEF Positions
        <4>3. CASE opens[s].processed = TRUE
          BY <3>1, <4>1, <4>3 DEF ProcessedOnce
        <4>4. CASE s \in Due
          BY <3>1, <4>1, <4>2, <4>4 DEF RiskExits
        <4>. QED
          BY <3>1, <4>3, <4>4
      <3>. QED
        BY <3>2, <3>3
    <2>. QED
      BY <1>1, <2>1, <2>2 DEF ProcessedOnce, WaitingOn
  <1>10. MarksAgree'
    <2>1. ASSUME NEW s \in Securities, dailies'[s] # None
          PROVE  /\ clock.phase = "closed"
                 /\ dailies'[s].low <= dailies'[s].open
                 /\ QuotesAgree /\ opens'[s] # None => dailies'[s].open = opens'[s].price
      BY <2>1, TickDailies, TickOpens DEF MarksAgree
    <2>. QED
      BY <1>1, <2>1 DEF MarksAgree
  <1>11. RecoveryTakesFirstOpen'
    <2>. SUFFICES ASSUME NEW s \in Held', positions'[s].recovery # 0,
                         Today > positions'[s].recovery, s \in Accepted',
                         opens'[s].processed = TRUE
                  PROVE  FALSE
      <3>1. \A s \in Accepted' : opens'[s].processed \in BOOLEAN
        BY <1>1 DEF TypeOK, Accepted
      <3>. QED
        BY <1>1, <3>1 DEF RecoveryTakesFirstOpen
    <2>1. s \in Held \ RiskExits /\ s \in Securities /\ s \in Accepted
      BY <1>4, <1>5, TickOpens
    <2>2. positions[s].recovery = positions'[s].recovery
      <3>1. ~(Today > Today)
        BY <1>1 DEF Sessions
      <3>. QED
        BY <1>4, <1>5, <3>1
    <2>3. opens[s].processed = TRUE \/ s \in Due
      BY <2>1, TickOpens DEF Accepted
    <2>4. s \notin Due
      BY <2>1, <2>2 DEF RiskExits, RecoveryDue
    <2>. QED
      BY <2>1, <2>2, <2>3, <2>4 DEF RecoveryTakesFirstOpen
  <1>12. QuotesAgree => BreachIsRemembered'
    <2>. SUFFICES ASSUME QuotesAgree, NEW s \in Held', dailies'[s] # None,
                         dailies'[s].processed = TRUE,
                         dailies'[s].low <= positions'[s].stop
                  PROVE  positions'[s].recovery # 0
      BY <1>1 DEF BreachIsRemembered
    <2>1. /\ dailies[s] # None /\ dailies'[s].low = dailies[s].low
          /\ clock.phase = "closed" /\ dailies[s].low <= dailies[s].open
          /\ opens[s] # None => dailies[s].open = opens[s].price
      BY <1>1, TickDailies DEF MarksAgree
    <2>2. bought = {} /\ Late /\ Today # 0
      BY <1>1, <1>2, <2>1 DEF Late, Sessions
    <2>3. /\ s \in Held \ (RiskExits \cup Sold) /\ s \in Securities
          /\ dailies[s].low <= positions[s].stop
      BY <1>4, <2>1, <2>2
    <2>4. CASE positions[s].recovery # 0
      BY <1>4, <2>2, <2>3, <2>4
    <2>5. CASE positions[s].recovery = 0
      <3>1. dailies[s].processed = FALSE
        <4>1. dailies[s].processed \in BOOLEAN
          BY <2>1, <2>3 DEF TypeOK
        <4>. QED
          BY <2>1, <2>3, <2>5, <4>1 DEF BreachIsRemembered
      <3>2. AfterOpen(bought)[s] = positions[s] /\ positions[s] # None
        BY <2>2, <2>3, BookAfterOpen DEF Held
      <3>3. /\ dailies[s].open \in Int /\ positions[s].stop \in Int
        <4>1. dailies[s] \in Dailies /\ positions[s] \in Positions
          BY <2>1, <2>3, <3>2 DEF TypeOK, Dailies
        <4>2. dailies[s].open \in Nat
          <5>1. dailies[s].open \in Prices
            BY <4>1 DEF Dailies
          <5>. QED
            BY <5>1, PaperAssumption
        <4>. QED
          BY <4>1, <4>2 DEF Positions
      <3>4. s \in Accepted => dailies[s].open > positions[s].stop
        <4>. SUFFICES ASSUME s \in Accepted, dailies[s].open <= positions[s].stop
                      PROVE  FALSE
          BY <3>3
        <4>1. opens[s] # None /\ opens[s].price <= positions[s].stop /\ opens[s].price \in Int
          BY <2>1, <3>3 DEF Accepted
        <4>2. opens[s].processed # TRUE
          <5>1. ~(opens[s].price > positions[s].stop)
            BY <3>3, <4>1
          <5>. QED
            BY <2>3, <5>1 DEF ProcessedOnce
        <4>3. opens[s].processed = FALSE
          BY <2>3, <4>1, <4>2 DEF TypeOK
        <4>4. s \in Due
          BY <2>2, <4>3 DEF Due
        <4>. QED
          BY <2>3, <4>1, <4>4 DEF RiskExits
      <3>5. Missed(s, AfterOpen(bought))
        BY <2>1, <2>3, <3>1, <3>2, <3>3, <3>4 DEF Missed
      <3>. QED
        BY <1>4, <2>1, <2>2, <2>5, <3>5
    <2>. QED
      BY <2>4, <2>5
  <1>. QED
    BY <1>1, <1>6, <1>7, <1>8, <1>9, <1>10, <1>11, <1>12

(* Every call of the executor and the clock keep the invariant. *)
LEMMA SleeveInvStep == SleeveInv /\ Step => SleeveInv'
  <1>1. ASSUME SleeveInv, Tick
        PROVE  SleeveInv'
    BY <1>1, TickBuys, TickKeeps
  <1>2. ASSUME SleeveInv, UNCHANGED vars
        PROVE  SleeveInv'
    <2>1. /\ Held' = Held /\ Accepted' = Accepted /\ Today' = Today
          /\ \A d : WaitingOn(d)' = WaitingOn(d)
      BY <1>2 DEF vars, Held, Accepted, Today, WaitingOn
    <2>. QED
      BY <1>2, <2>1 DEF vars, SleeveInv, TypeOK, ClosedIsPast, ProcessedOnce, MarksAgree,
         PositionLimit, RecoveryBlocksBuys, RecoveryTakesFirstOpen, ClosedSessionIsSettled,
         BreachIsRemembered
  <1>. QED
    BY <1>1, <1>2, AdvanceKeeps, CallKeeps DEF Step

-----------------------------------------------------------------------------
(* The fills.                                                               *)

\* No fill is of a later session.  One of today from an opening is of a security whose
\* quote has been processed; one of an intraday stop is of a security that is gone and
\* cannot be bought back before the next session.
FillsAreDated ==
    \A f \in fills :
        /\ f.session <= Today
        /\ f.session = Today /\ f.reason # "INTRADAY" =>
              opens[f.security] # None /\ opens[f.security].processed = TRUE
        /\ f.session = Today /\ f.reason = "INTRADAY" => Late /\ positions[f.security] = None

FillsAreFinite == \A s \in Securities, side \in Sides : IsFiniteSet(FillsOf(s, side))

FillsInv == SleeveInv /\ FillsAreDated /\ FillsAreFinite /\ FillsExplainBook

IsFilled(d, s) == orders[d][s] # None /\ orders[d][s].status = "FILLED"

RebalanceFill(d, s) ==
    \E f \in fills : f.security = s /\ f.session = d /\ f.reason = "REBALANCE"

Balanced(s) ==
    Cardinality(FillsOf(s, "BUY")) =
        Cardinality(FillsOf(s, "SELL")) + IF positions[s] # None THEN 1 ELSE 0

(* FillsExplainBook in its two parts. *)
LEMMA ExplainedInParts ==
    FillsExplainBook <=> /\ \A s \in Securities : Balanced(s)
                         /\ \A s \in Securities, d \in Sessions : IsFilled(d, s) <=> RebalanceFill(d, s)
  BY DEF FillsExplainBook, Balanced, IsFilled, RebalanceFill

\* An observation or an order is never mistaken for none.
LEMMA RowIsSomething == (\A o \in Opens : o # None) /\ (\A o \in Orders : o # None)
  <1>1. Opens \subseteq [price : Nat, status : {"ACCEPTED", "LATE_IGNORED"}, processed : BOOLEAN]
    BY PaperAssumption DEF Opens
  <1>. QED
    BY <1>1, RowAssumption DEF Orders

\* One more SELL of what was held, and it is balanced still.
LEMMA OneMoreSell ==
    ASSUME NEW s \in Securities, Balanced(s), positions[s] # None, positions'[s] = None,
           IsFiniteSet(FillsOf(s, "SELL")), NEW f, f \notin FillsOf(s, "SELL"),
           FillsOf(s, "SELL")' = FillsOf(s, "SELL") \cup {f},
           FillsOf(s, "BUY")' = FillsOf(s, "BUY")
    PROVE  IsFiniteSet(FillsOf(s, "SELL")') /\ Balanced(s)'
  <1>1. /\ IsFiniteSet(FillsOf(s, "SELL") \cup {f})
        /\ Cardinality(FillsOf(s, "SELL") \cup {f}) = Cardinality(FillsOf(s, "SELL")) + 1
    BY FS_AddElement
  <1>2. Cardinality(FillsOf(s, "SELL")) \in Nat
    BY FS_CardinalityType
  <1>. QED
    BY <1>1, <1>2 DEF Balanced

\* One more BUY of what was not.
LEMMA OneMoreBuy ==
    ASSUME NEW s \in Securities, Balanced(s), positions[s] = None, positions'[s] # None,
           IsFiniteSet(FillsOf(s, "BUY")), NEW f, f \notin FillsOf(s, "BUY"),
           IsFiniteSet(FillsOf(s, "SELL")),
           FillsOf(s, "BUY")' = FillsOf(s, "BUY") \cup {f},
           FillsOf(s, "SELL")' = FillsOf(s, "SELL")
    PROVE  IsFiniteSet(FillsOf(s, "BUY")') /\ Balanced(s)'
  <1>1. /\ IsFiniteSet(FillsOf(s, "BUY") \cup {f})
        /\ Cardinality(FillsOf(s, "BUY") \cup {f}) = Cardinality(FillsOf(s, "BUY")) + 1
    BY FS_AddElement
  <1>2. Cardinality(FillsOf(s, "SELL")) \in Nat
    BY FS_CardinalityType
  <1>3. Cardinality(FillsOf(s, "BUY")) = Cardinality(FillsOf(s, "SELL"))
    BY <1>2 DEF Balanced
  <1>. QED
    BY <1>1, <1>2, <1>3 DEF Balanced

\* What a tick fills of each security: one exit or SELL of what it held, one BUY of what
\* it did not hold, or nothing.
LEMMA TickFills ==
    ASSUME SleeveInv, FillsAreDated, NEW bought \in SUBSET Buyable, TickBuying(bought),
           NEW s \in Securities
    PROVE  \/ /\ s \in RiskExits \cup Sold
              /\ positions[s] # None /\ positions'[s] = None
              /\ \E f : /\ f \notin FillsOf(s, "SELL")
                        /\ FillsOf(s, "SELL")' = FillsOf(s, "SELL") \cup {f}
              /\ FillsOf(s, "BUY")' = FillsOf(s, "BUY")
           \/ /\ s \in bought
              /\ positions[s] = None /\ positions'[s] # None
              /\ \E f : /\ f \notin FillsOf(s, "BUY")
                        /\ FillsOf(s, "BUY")' = FillsOf(s, "BUY") \cup {f}
              /\ FillsOf(s, "SELL")' = FillsOf(s, "SELL")
           \/ /\ s \notin RiskExits \cup Sold \cup bought
              /\ positions[s] = None <=> positions'[s] = None
              /\ \A side \in Sides : FillsOf(s, side)' = FillsOf(s, side)
  <1>. DEFINE exit == Fill(s, "SELL", IF RecoveryDue(s) THEN "RECOVERY" ELSE "GAP")
              sale == Fill(s, "SELL", "REBALANCE")
              buy == Fill(s, "BUY", "REBALANCE")
  <1>1. /\ RiskExits \subseteq Due \cap Held /\ Sold \subseteq Due \cap Held
        /\ bought \subseteq Due /\ bought \cap Held = {}
    BY ExitsAndBuys
  <1>2. RiskExits \cap Sold = {}
    BY DEF Sold
  <1>3. fills' = fills \cup OpenFills(bought)
    BY DEF TickBuying
  <1>4. s \in Due => \A f \in fills : ~(f.security = s /\ f.session = Today /\ f.reason # "INTRADAY")
    BY DEF FillsAreDated, Due
  <1>5. exit \notin fills \/ s \notin Due
    BY <1>4 DEF Fill
  <1>6. (sale \notin fills /\ buy \notin fills) \/ s \notin Due
    BY <1>4 DEF Fill
  <1>7. \A f \in OpenFills(bought) : f.security = s =>
           \/ f = exit /\ s \in RiskExits
           \/ f = sale /\ s \in Sold
           \/ f = buy /\ s \in bought
    BY DEF OpenFills, Fill
  <1>8. /\ s \in RiskExits => exit \in OpenFills(bought)
        /\ s \in Sold => sale \in OpenFills(bought)
        /\ s \in bought => buy \in OpenFills(bought)
    BY DEF OpenFills
  <1>9. /\ exit.security = s /\ exit.side = "SELL"
        /\ sale.security = s /\ sale.side = "SELL"
        /\ buy.security = s /\ buy.side = "BUY"
    BY DEF Fill
  <1>. HIDE DEF exit, sale, buy
  <1>10. CASE s \in RiskExits
    <2>1. /\ FillsOf(s, "SELL")' = FillsOf(s, "SELL") \cup {exit}
          /\ FillsOf(s, "BUY")' = FillsOf(s, "BUY")
      BY <1>1, <1>2, <1>3, <1>7, <1>8, <1>9, <1>10 DEF FillsOf
    <2>2. exit \notin FillsOf(s, "SELL")
      BY <1>1, <1>5, <1>10 DEF FillsOf
    <2>3. positions[s] # None /\ positions'[s] = None
      BY <1>1, <1>10, TickBook DEF Held, SleeveInv
    <2>. QED
      BY <1>10, <2>1, <2>2, <2>3
  <1>11. CASE s \in Sold
    <2>1. /\ FillsOf(s, "SELL")' = FillsOf(s, "SELL") \cup {sale}
          /\ FillsOf(s, "BUY")' = FillsOf(s, "BUY")
      BY <1>1, <1>2, <1>3, <1>7, <1>8, <1>9, <1>11 DEF FillsOf
    <2>2. sale \notin FillsOf(s, "SELL")
      BY <1>1, <1>6, <1>11 DEF FillsOf
    <2>3. positions[s] # None /\ positions'[s] = None
      BY <1>1, <1>11, TickBook DEF Held, SleeveInv
    <2>. QED
      BY <1>11, <2>1, <2>2, <2>3
  <1>12. CASE s \in bought
    <2>1. /\ FillsOf(s, "BUY")' = FillsOf(s, "BUY") \cup {buy}
          /\ FillsOf(s, "SELL")' = FillsOf(s, "SELL")
      BY <1>1, <1>2, <1>3, <1>7, <1>8, <1>9, <1>12 DEF FillsOf
    <2>2. buy \notin FillsOf(s, "BUY")
      BY <1>1, <1>6, <1>12 DEF FillsOf
    <2>3. positions[s] = None /\ positions'[s] # None
      BY <1>1, <1>12, TickBook DEF Held, SleeveInv
    <2>. QED
      BY <1>12, <2>1, <2>2, <2>3
  <1>13. CASE s \notin RiskExits \cup Sold \cup bought
    <2>1. \A side \in Sides : FillsOf(s, side)' = FillsOf(s, side)
      BY <1>3, <1>7, <1>13 DEF FillsOf
    <2>2. positions[s] = None <=> positions'[s] = None
      BY <1>13, TickBook DEF SleeveInv
    <2>. QED
      BY <1>13, <2>1, <2>2
  <1>. QED
    BY <1>10, <1>11, <1>12, <1>13

\* The orders a tick fills are those it sells or buys for.
LEMMA TickFilled ==
    ASSUME TypeOK, NEW bought \in SUBSET Buyable, TickBuying(bought),
           NEW s \in Securities, NEW d \in Sessions
    PROVE  IsFilled(d, s)' <=> IsFilled(d, s) \/ (d = Today /\ s \in Sold \cup bought)
  <1>1. Sold \cup bought \subseteq WaitingOn(Today)
    BY DEF Sold, Buyable, Sells, Buys, Live
  <1>2. /\ Today \in Sessions /\ orders \in [Sessions -> [Securities -> Orders \cup {None}]]
    BY DEF TypeOK, Today
  <1>3. orders' = [orders EXCEPT ![Today] =
                      [r \in Securities |->
                          IF r \in WaitingOn(Today)
                          THEN [orders[Today][r] EXCEPT !.status = Settled(r, bought)]
                          ELSE orders[Today][r]]]
    BY <1>2 DEF TickBuying
  <1>4. CASE d # Today
    BY <1>2, <1>3, <1>4 DEF IsFilled
  <1>5. CASE d = Today /\ s \notin WaitingOn(Today)
    <2>1. orders'[d][s] = orders[d][s]
      BY <1>2, <1>3, <1>5
    <2>. QED
      BY <1>1, <1>5, <2>1 DEF IsFilled
  <1>6. CASE d = Today /\ s \in WaitingOn(Today)
    <2>1. orders[d][s] \in Orders /\ orders[d][s].status = "WAITING_OPEN"
      BY <1>2, <1>6 DEF WaitingOn
    <2>2. orders'[d][s] = [orders[d][s] EXCEPT !.status = Settled(s, bought)]
      BY <1>2, <1>3, <1>6
    <2>3. orders'[d][s] # None /\ orders'[d][s].status = Settled(s, bought)
      <3>1. orders'[d][s] \in Orders /\ orders'[d][s].status = Settled(s, bought)
        BY <2>1, <2>2, SettledStatus DEF Orders
      <3>. QED
        BY <3>1, RowIsSomething
    <2>4. Settled(s, bought) = "FILLED" <=> s \in Sold \cup bought
      <3>1. Sold \cup bought \subseteq Due
        BY ExitsAndBuys
      <3>2. (Sold \cup bought) \cap Expired = {}
        BY DEF Sold, Buyable, Expired
      <3>3. (Sold \cup bought) \cap Skipped = {}
        BY DEF Sold, Buyable, Skipped, Sells, Buys
      <3>. QED
        BY <3>1, <3>2, <3>3 DEF Settled
    <2>. QED
      BY <1>6, <2>1, <2>3, <2>4 DEF IsFilled
  <1>. QED
    BY <1>4, <1>5, <1>6

(* No call but the tick fills an order. *)
LEMMA CallFilled ==
    ASSUME TypeOK, Call, FillsAreDated, NEW s \in Securities, NEW d \in Sessions
    PROVE  /\ IsFilled(d, s)' => IsFilled(d, s)
           /\ IsFilled(d, s) /\ ~IsFilled(d, s)' => d = Today + 1
  <1>1. /\ Today \in Sessions /\ orders \in [Sessions -> [Securities -> Orders \cup {None}]]
    BY DEF TypeOK, Today
  <1>2. CASE Kill
    <2>1. orders'[d][s] = IF s \in WaitingOn(d) /\ orders[d][s].side = "BUY"
                          THEN [orders[d][s] EXCEPT !.status = "CANCELLED"] ELSE orders[d][s]
      BY <1>2 DEF Kill
    <2>2. CASE s \in WaitingOn(d) /\ orders[d][s].side = "BUY"
      BY <1>1, <2>1, <2>2 DEF WaitingOn, IsFilled, Orders
    <2>3. CASE ~(s \in WaitingOn(d) /\ orders[d][s].side = "BUY")
      BY <2>1, <2>3 DEF IsFilled
    <2>. QED
      BY <2>2, <2>3
  <1>3. CASE \E signals \in [Securities -> Sides \cup {None}] : CreatePeriod(signals)
    <2>1. PICK signals \in [Securities -> Sides \cup {None}] : CreatePeriod(signals)
      BY <1>3
    <2>2. orders' = [orders EXCEPT ![Today + 1] =
                        [r \in Securities |-> IF signals[r] = None THEN None
                                              ELSE [side |-> signals[r], status |-> "WAITING_OPEN"]]]
      BY <2>1 DEF CreatePeriod
    <2>3. CASE d # Today + 1
      BY <1>1, <2>2, <2>3 DEF IsFilled
    <2>4. CASE d = Today + 1
      <3>1. orders'[d][s] = IF signals[s] = None THEN None
                            ELSE [side |-> signals[s], status |-> "WAITING_OPEN"]
        BY <1>1, <2>2, <2>4
      <3>. QED
        BY <2>4, <3>1 DEF IsFilled
    <2>. QED
      BY <2>3, <2>4
  <1>4. CASE UNCHANGED orders
    BY <1>4 DEF IsFilled
  <1>. QED
    BY <1>2, <1>3, <1>4 DEF Call, AcknowledgeDataRecovery, RecordOpen, ExecuteIntradayStop, RecordDaily

\* No call but the tick fills anything, but for an intraday stop, which sells what is held.
LEMMA CallFills ==
    ASSUME TypeOK, Call, FillsAreDated
    PROVE  \/ UNCHANGED <<fills, positions>>
           \/ \E s \in Held :
                 /\ fills' = fills \cup {Fill(s, "SELL", "INTRADAY")}
                 /\ Fill(s, "SELL", "INTRADAY") \notin fills
                 /\ positions' = [positions EXCEPT ![s] = None]
                 /\ Late /\ UNCHANGED <<clock, orders, opens>>
  <1>1. ASSUME NEW s \in Held, NEW quote \in Prices, ExecuteIntradayStop(s, quote)
        PROVE  /\ fills' = fills \cup {Fill(s, "SELL", "INTRADAY")}
               /\ Fill(s, "SELL", "INTRADAY") \notin fills
               /\ positions' = [positions EXCEPT ![s] = None]
               /\ Late /\ UNCHANGED <<clock, orders, opens>>
    <2>1. positions[s] # None
      BY DEF Held
    <2>2. Fill(s, "SELL", "INTRADAY") \notin fills
      BY <2>1 DEF FillsAreDated, Fill
    <2>. QED
      BY <1>1, <2>2 DEF ExecuteIntradayStop, Late
  <1>. QED
    BY <1>1 DEF Call, Kill, AcknowledgeDataRecovery, CreatePeriod, RecordOpen, RecordDaily

(* The empty sleeve has no fills. *)
LEMMA FillsInvInit == Init => FillsInv
  <1>. SUFFICES ASSUME Init
                PROVE  FillsInv
    OBVIOUS
  <1>1. \A s \in Securities, side \in Sides :
           FillsOf(s, side) = {} /\ IsFiniteSet(FillsOf(s, side)) /\ Cardinality(FillsOf(s, side)) = 0
    BY FS_EmptySet DEF Init, FillsOf
  <1>2. FillsExplainBook
    BY <1>1 DEF Init, FillsExplainBook, Sides
  <1>3. FillsAreDated /\ FillsAreFinite
    BY <1>1 DEF Init, FillsAreDated, FillsAreFinite
  <1>. QED
    BY <1>2, <1>3, SleeveInvInit DEF FillsInv

\* The clock keeps the fills dated.
LEMMA AdvanceKeepsFills ==
    ASSUME FillsInv, Advance
    PROVE  FillsInv'
  <1>1. SleeveInv' /\ TypeOK
    BY AdvanceKeeps DEF FillsInv, SleeveInv
  <1>2. UNCHANGED <<orders, positions, fills>>
    BY DEF Advance
  <1>3. FillsAreFinite' /\ FillsExplainBook'
    BY <1>2 DEF FillsInv, FillsAreFinite, FillsExplainBook, FillsOf
  <1>4. FillsAreDated'
    <2>1. Today \in Nat /\ \A f \in fills : f.session \in Nat
      BY <1>1 DEF TypeOK, Today, Sessions, Fills
    <2>2. CASE Today' = Today /\ clock.phase # "closed" /\ UNCHANGED opens
      <3>1. Late => Late'
        BY <1>1, <2>2 DEF Advance, Late, TypeOK, Phases
      <3>. QED
        BY <1>2, <2>2, <3>1 DEF FillsInv, FillsAreDated
    <2>3. CASE Today' = Today + 1
      BY <1>2, <2>1, <2>3 DEF FillsInv, FillsAreDated
    <2>. QED
      BY <1>1, <2>2, <2>3, AdvanceStep
  <1>. QED
    BY <1>1, <1>3, <1>4 DEF FillsInv

\* The other calls keep the fills and the book in step.
LEMMA CallKeepsFills ==
    ASSUME FillsInv, Call
    PROVE  FillsInv'
  <1>. USE DEF FillsInv
  <1>1. SleeveInv' /\ TypeOK /\ Today' = Today /\ UNCHANGED clock /\ Late' = Late
    BY CallKeeps, CallStep DEF SleeveInv, Today, Late
  <1>2. \A s \in Securities : opens[s] # None => opens'[s] = opens[s]
    BY <1>1, CallStep
  <1>3. fills \subseteq Fills
    BY <1>1 DEF TypeOK
  <1>4. Today \in Nat /\ \A f \in fills : f.security \in Securities
    BY <1>1, <1>3 DEF TypeOK, Today, Sessions, Fills
  <1>5. \A f \in fills : f.session # Today + 1
    <2>1. \A f \in fills : f.session \in Nat
      BY <1>3 DEF Fills, Sessions
    <2>. QED
      BY <1>4, <2>1 DEF FillsAreDated
  <1>6. CASE UNCHANGED <<fills, positions>>
    <2>1. FillsAreDated'
      BY <1>1, <1>2, <1>4, <1>6 DEF FillsAreDated
    <2>2. FillsAreFinite' /\ \A s \in Securities : Balanced(s)'
      BY <1>6, ExplainedInParts DEF FillsAreFinite, FillsOf, Balanced
    <2>3. ASSUME NEW s \in Securities, NEW d \in Sessions
          PROVE  IsFilled(d, s)' <=> RebalanceFill(d, s)'
      <3>1. RebalanceFill(d, s)' <=> RebalanceFill(d, s)
        BY <1>6 DEF RebalanceFill
      <3>2. IsFilled(d, s) <=> RebalanceFill(d, s)
        BY ExplainedInParts
      <3>3. RebalanceFill(d, s) => d # Today + 1
        BY <1>5 DEF RebalanceFill
      <3>. QED
        BY <1>1, <3>1, <3>2, <3>3, CallFilled
    <2>4. FillsExplainBook'
      BY <2>2, <2>3 DEF FillsExplainBook, Balanced, IsFilled, RebalanceFill
    <2>. QED
      BY <1>1, <2>1, <2>2, <2>4
  <1>7. ASSUME NEW s \in Held,
               fills' = fills \cup {Fill(s, "SELL", "INTRADAY")},
               Fill(s, "SELL", "INTRADAY") \notin fills,
               positions' = [positions EXCEPT ![s] = None],
               Late, UNCHANGED <<clock, orders, opens>>
        PROVE  FillsInv'
    <2>. DEFINE f == Fill(s, "SELL", "INTRADAY")
    <2>1. /\ s \in Securities /\ positions[s] # None /\ positions'[s] = None
          /\ \A r \in Securities \ {s} : positions'[r] = positions[r]
          /\ DOMAIN positions = Securities
      BY <1>1, <1>7 DEF Held, TypeOK
    <2>2. /\ f.security = s /\ f.session = Today /\ f.side = "SELL" /\ f.reason = "INTRADAY"
      BY DEF Fill
    <2>3. fills' = fills \cup {f} /\ f \notin fills
      BY <1>7
    <2>. HIDE DEF f
    <2>4. FillsAreDated'
      <3>1. \A r \in Securities : positions[r] = None => positions'[r] = None
        BY <2>1
      <3>. QED
        BY <1>1, <1>4, <1>7, <2>1, <2>2, <2>3, <3>1 DEF FillsAreDated
    <2>5. /\ FillsOf(s, "SELL")' = FillsOf(s, "SELL") \cup {f}
          /\ FillsOf(s, "BUY")' = FillsOf(s, "BUY") /\ f \notin FillsOf(s, "SELL")
          /\ \A r \in Securities \ {s}, side \in Sides : FillsOf(r, side)' = FillsOf(r, side)
      BY <2>2, <2>3 DEF FillsOf
    <2>6. IsFiniteSet(FillsOf(s, "SELL")') /\ Balanced(s)'
      BY <2>1, <2>5, OneMoreSell, ExplainedInParts DEF FillsAreFinite, Sides
    <2>7. FillsAreFinite'
      BY <2>5, <2>6 DEF FillsAreFinite, Sides
    <2>8. \A r \in Securities : Balanced(r)'
      BY <2>1, <2>5, <2>6, ExplainedInParts DEF Balanced, Sides
    <2>9. \A r \in Securities, d \in Sessions : IsFilled(d, r)' <=> RebalanceFill(d, r)'
      BY <1>7, <2>2, <2>3, ExplainedInParts DEF IsFilled, RebalanceFill
    <2>10. FillsExplainBook'
      BY <2>8, <2>9 DEF FillsExplainBook, Balanced, IsFilled, RebalanceFill
    <2>. QED
      BY <1>1, <2>4, <2>7, <2>10
  <1>. QED
    BY <1>1, <1>6, <1>7, CallFills

\* So does the tick.
LEMMA TickKeepsFills ==
    ASSUME FillsInv, NEW bought \in SUBSET Buyable, TickBuying(bought)
    PROVE  FillsInv'
  <1>. USE DEF FillsInv
  <1>1. SleeveInv' /\ SleeveInv /\ TypeOK /\ Today' = Today /\ Late' = Late /\ Today \in Nat
    BY TickKeeps DEF TickBuying, SleeveInv, Today, Late, TypeOK, Sessions
  <1>2. /\ RiskExits \subseteq Due \cap Held /\ Sold \subseteq Due \cap Held
        /\ bought \subseteq Due /\ Due \subseteq Accepted /\ (bought # {} => ~Late)
    BY ExitsAndBuys
  <1>3. fills' = fills \cup OpenFills(bought)
    BY DEF TickBuying
  <1>4. \A f \in OpenFills(bought) :
           /\ f.security \in Due /\ f.session = Today /\ f.reason # "INTRADAY"
           /\ f.reason = "REBALANCE" => f.security \in Sold \cup bought
    BY <1>2 DEF OpenFills, Fill
  <1>5. FillsAreDated'
    <2>1. ASSUME NEW r \in Securities, opens[r] # None, opens[r].processed = TRUE \/ r \in Due
          PROVE  opens'[r] # None /\ opens'[r].processed = TRUE
      <3>1. opens'[r].processed = TRUE
        BY <1>1, <2>1, TickOpens
      <3>2. opens'[r] # None
        <4>1. CASE r \in Due
          <5>1. opens'[r] = [opens[r] EXCEPT !.processed = TRUE] /\ opens[r] \in Opens
            BY <1>1, <2>1, <4>1 DEF TickBuying, TypeOK, Opens
          <5>2. opens'[r] \in Opens
            BY <5>1 DEF Opens
          <5>. QED
            BY <5>2, RowIsSomething
        <4>2. CASE r \notin Due
          BY <2>1, <4>2 DEF TickBuying
        <4>. QED
          BY <4>1, <4>2
      <3>. QED
        BY <3>1, <3>2
    <2>2. ASSUME NEW r \in Securities, positions[r] = None, Late
          PROVE  positions'[r] = None
      <3>1. r \notin RiskExits \cup Sold \cup bought
        BY <1>2, <2>2 DEF Held
      <3>. QED
        BY <1>1, <2>2, <3>1, TickBook
    <2>3. \A f \in fills : f.security \in Securities
      BY <1>1 DEF TypeOK, Fills
    <2>4. \A r \in Due : r \in Securities /\ opens[r] # None
      BY DEF Due, Accepted
    <2>5. ASSUME NEW f \in fills
          PROVE  /\ f.session <= Today
                 /\ f.session = Today /\ f.reason # "INTRADAY" =>
                       opens'[f.security] # None /\ opens'[f.security].processed = TRUE
                 /\ f.session = Today /\ f.reason = "INTRADAY" => Late /\ positions'[f.security] = None
      BY <2>1, <2>2, <2>3 DEF FillsAreDated
    <2>6. ASSUME NEW f \in OpenFills(bought)
          PROVE  /\ f.session <= Today /\ f.reason # "INTRADAY"
                 /\ opens'[f.security] # None /\ opens'[f.security].processed = TRUE
      <3>1. f.security \in Due /\ f.session = Today /\ f.reason # "INTRADAY"
        BY <1>4
      <3>2. f.security \in Securities /\ opens[f.security] # None
        BY <2>4, <3>1
      <3>3. opens'[f.security] # None /\ opens'[f.security].processed = TRUE
        BY <2>1, <3>1, <3>2
      <3>4. f.session <= Today
        BY <1>1, <3>1
      <3>. QED
        BY <3>1, <3>3, <3>4
    <2>. QED
      BY <1>1, <1>3, <2>5, <2>6 DEF FillsAreDated
  <1>6. \A s \in Securities : Balanced(s)' /\ \A side \in Sides : IsFiniteSet(FillsOf(s, side))'
    <2>. SUFFICES ASSUME NEW s \in Securities
                  PROVE  Balanced(s)' /\ \A side \in Sides : IsFiniteSet(FillsOf(s, side)')
      OBVIOUS
    <2>1. /\ Balanced(s) /\ IsFiniteSet(FillsOf(s, "BUY")) /\ IsFiniteSet(FillsOf(s, "SELL"))
      BY ExplainedInParts DEF FillsAreFinite, Sides
    <2>2. CASE /\ positions[s] # None /\ positions'[s] = None
               /\ \E f : /\ f \notin FillsOf(s, "SELL")
                         /\ FillsOf(s, "SELL")' = FillsOf(s, "SELL") \cup {f}
               /\ FillsOf(s, "BUY")' = FillsOf(s, "BUY")
      BY <2>1, <2>2, OneMoreSell DEF Sides
    <2>3. CASE /\ positions[s] = None /\ positions'[s] # None
               /\ \E f : /\ f \notin FillsOf(s, "BUY")
                         /\ FillsOf(s, "BUY")' = FillsOf(s, "BUY") \cup {f}
               /\ FillsOf(s, "SELL")' = FillsOf(s, "SELL")
      BY <2>1, <2>3, OneMoreBuy DEF Sides
    <2>4. CASE /\ positions[s] = None <=> positions'[s] = None
               /\ \A side \in Sides : FillsOf(s, side)' = FillsOf(s, side)
      BY <2>1, <2>4 DEF Balanced, Sides
    <2>. QED
      BY <1>1, <2>2, <2>3, <2>4, TickFills
  <1>7. \A s \in Securities, d \in Sessions : IsFilled(d, s)' <=> RebalanceFill(d, s)'
    <2>. SUFFICES ASSUME NEW s \in Securities, NEW d \in Sessions
                  PROVE  IsFilled(d, s)' <=> RebalanceFill(d, s)'
      OBVIOUS
    <2>1. /\ IsFilled(d, s)' <=> IsFilled(d, s) \/ (d = Today /\ s \in Sold \cup bought)
          /\ IsFilled(d, s) <=> RebalanceFill(d, s)
      BY <1>1, TickFilled, ExplainedInParts
    <2>2. d = Today /\ s \in Sold \cup bought => RebalanceFill(d, s)'
      <3>. SUFFICES ASSUME d = Today, s \in Sold \cup bought
                    PROVE  RebalanceFill(d, s)'
        OBVIOUS
      <3>1. \E side \in Sides : Fill(s, side, "REBALANCE") \in OpenFills(bought)
        BY DEF OpenFills, Sides
      <3>2. \A side : /\ Fill(s, side, "REBALANCE").security = s
                      /\ Fill(s, side, "REBALANCE").session = Today
                      /\ Fill(s, side, "REBALANCE").reason = "REBALANCE"
        BY DEF Fill
      <3>. QED
        BY <1>3, <3>1, <3>2 DEF RebalanceFill
    <2>3. RebalanceFill(d, s)' => RebalanceFill(d, s) \/ (d = Today /\ s \in Sold \cup bought)
      BY <1>3, <1>4 DEF RebalanceFill
    <2>4. RebalanceFill(d, s) => RebalanceFill(d, s)'
      BY <1>3 DEF RebalanceFill
    <2>. QED
      BY <2>1, <2>2, <2>3, <2>4
  <1>8. FillsExplainBook' /\ FillsAreFinite'
    BY <1>6, <1>7 DEF FillsAreFinite, FillsExplainBook, Balanced, IsFilled, RebalanceFill
  <1>. QED
    BY <1>1, <1>5, <1>8

(* Every call of the executor and the clock keep the fills and the book in step. *)
LEMMA FillsInvStep == FillsInv /\ Step => FillsInv'
  <1>1. ASSUME FillsInv, Tick
        PROVE  FillsInv'
    BY <1>1, TickBuys, TickKeepsFills
  <1>2. ASSUME FillsInv, UNCHANGED vars
        PROVE  FillsInv'
    <2>1. SleeveInv'
      BY <1>2, SleeveInvStep DEF FillsInv, Step
    <2>. QED
      BY <1>2, <2>1 DEF vars, FillsInv, FillsAreDated, FillsAreFinite, FillsExplainBook, FillsOf,
         Today, Late
  <1>. QED
    BY <1>1, <1>2, AdvanceKeepsFills, CallKeepsFills DEF Step

-----------------------------------------------------------------------------
(* The BUYs of a session.                                                   *)

\* No order expires before the window of its session is over.
NoneExpiresEarly ==
    \A d \in Sessions, s \in Securities :
        d > Today \/ (d = Today /\ ~Late) =>
            ~(orders[d][s] # None /\ orders[d][s].status = "EXPIRED")

TogetherInv == FillsInv /\ NoneExpiresEarly /\ BuysShareTheWindow

\* A tick changes the status of the orders that wait for its session, and nothing else.
LEMMA TickRows ==
    ASSUME TypeOK, NEW bought \in SUBSET Buyable, TickBuying(bought),
           NEW s \in Securities, NEW d \in Sessions, orders'[d][s] # None
    PROVE  /\ orders[d][s] # None /\ orders'[d][s].side = orders[d][s].side
           /\ orders'[d][s].status = IF d = Today /\ s \in WaitingOn(Today)
                                     THEN Settled(s, bought) ELSE orders[d][s].status
  <1>1. /\ Today \in Sessions /\ orders \in [Sessions -> [Securities -> Orders \cup {None}]]
    BY DEF TypeOK, Today
  <1>2. orders' = [orders EXCEPT ![Today] =
                      [r \in Securities |->
                          IF r \in WaitingOn(Today)
                          THEN [orders[Today][r] EXCEPT !.status = Settled(r, bought)]
                          ELSE orders[Today][r]]]
    BY <1>1 DEF TickBuying
  <1>3. CASE d = Today /\ s \in WaitingOn(Today)
    <2>1. orders[d][s] \in Orders /\ orders[d][s] # None
      BY <1>1, <1>3 DEF WaitingOn
    <2>2. orders'[d][s] = [orders[d][s] EXCEPT !.status = Settled(s, bought)]
      BY <1>1, <1>2, <1>3
    <2>. QED
      BY <1>3, <2>1, <2>2 DEF Orders
  <1>4. CASE ~(d = Today /\ s \in WaitingOn(Today))
    <2>1. orders'[d][s] = orders[d][s]
      BY <1>1, <1>2, <1>4
    <2>. QED
      BY <1>4, <2>1
  <1>. QED
    BY <1>3, <1>4

\* The other calls cancel orders and plan new ones for the next session.
LEMMA CallRows ==
    ASSUME TypeOK, Call, NEW s \in Securities, NEW d \in Sessions, orders'[d][s] # None
    PROVE  \/ orders'[d][s] = orders[d][s]
           \/ orders'[d][s].status = "CANCELLED"
           \/ d = Today + 1 /\ orders'[d][s].status = "WAITING_OPEN"
  <1>1. /\ Today \in Sessions /\ orders \in [Sessions -> [Securities -> Orders \cup {None}]]
    BY DEF TypeOK, Today
  <1>2. CASE Kill
    <2>1. orders'[d][s] = IF s \in WaitingOn(d) /\ orders[d][s].side = "BUY"
                          THEN [orders[d][s] EXCEPT !.status = "CANCELLED"] ELSE orders[d][s]
      BY <1>2 DEF Kill
    <2>2. s \in WaitingOn(d) => orders[d][s] \in Orders
      BY <1>1 DEF WaitingOn
    <2>. QED
      BY <2>1, <2>2 DEF Orders
  <1>3. CASE \E signals \in [Securities -> Sides \cup {None}] : CreatePeriod(signals)
    <2>1. PICK signals \in [Securities -> Sides \cup {None}] : CreatePeriod(signals)
      BY <1>3
    <2>2. orders' = [orders EXCEPT ![Today + 1] =
                        [r \in Securities |-> IF signals[r] = None THEN None
                                              ELSE [side |-> signals[r], status |-> "WAITING_OPEN"]]]
      BY <2>1 DEF CreatePeriod
    <2>3. d = Today + 1 => orders'[d][s] = IF signals[s] = None THEN None
                                           ELSE [side |-> signals[s], status |-> "WAITING_OPEN"]
      BY <1>1, <2>2
    <2>4. d # Today + 1 => orders'[d][s] = orders[d][s]
      BY <1>1, <2>2
    <2>. QED
      BY <2>3, <2>4
  <1>4. CASE UNCHANGED orders
    BY <1>4
  <1>. QED
    BY <1>2, <1>3, <1>4 DEF Call, AcknowledgeDataRecovery, RecordOpen, ExecuteIntradayStop, RecordDaily

\* A tick that buys settles every order of its session, and none of them as expired.
LEMMA BuyingSettlesAll ==
    ASSUME SleeveInv, NEW bought \in SUBSET Buyable, TickBuying(bought), bought # {},
           NEW s \in WaitingOn(Today)
    PROVE  Settled(s, bought) \notin {"WAITING_OPEN", "EXPIRED"}
  <1>1. ~Late /\ Missing = {}
    BY DEF Buyable, Due
  <1>2. s \in Accepted /\ s \in Securities /\ opens[s] # None
    BY <1>1 DEF Missing, Required, Accepted, WaitingOn
  <1>3. opens[s].processed = FALSE
    BY <1>2 DEF SleeveInv, TypeOK, ProcessedOnce
  <1>4. s \in Due /\ Expired = {}
    BY <1>1, <1>2, <1>3 DEF Due, Expired
  <1>. QED
    BY <1>2, <1>4, SettledStatus DEF Settled

(* Without fills the BUYs agree. *)
LEMMA TogetherInvInit == Init => TogetherInv
  <1>1. Init => NoneExpiresEarly /\ BuysShareTheWindow
    BY DEF Init, NoneExpiresEarly, BuysShareTheWindow
  <1>. QED
    BY <1>1, FillsInvInit DEF TogetherInv

\* The clock does not expire orders.
LEMMA AdvanceKeepsTogether ==
    ASSUME TogetherInv, Advance
    PROVE  TogetherInv'
  <1>. USE DEF TogetherInv
  <1>1. FillsInv' /\ TypeOK /\ UNCHANGED <<orders, fills>>
    BY AdvanceKeepsFills DEF FillsInv, SleeveInv, Advance
  <1>2. BuysShareTheWindow'
    BY <1>1 DEF BuysShareTheWindow
  <1>3. Today \in Nat /\ \A d \in Sessions : d \in Nat
    BY <1>1 DEF TypeOK, Today, Sessions
  <1>4. CASE Today' = Today /\ clock.phase # "closed" /\ UNCHANGED opens
    <2>1. Late => Late'
      BY <1>1, <1>4 DEF Advance, Late, TypeOK, Phases
    <2>. QED
      BY <1>1, <1>2, <1>4, <2>1 DEF NoneExpiresEarly
  <1>5. CASE Today' = Today + 1
    <2>1. \A d \in Sessions : d > Today' \/ d = Today' => d > Today
      BY <1>3, <1>5
    <2>. QED
      BY <1>1, <1>2, <2>1 DEF NoneExpiresEarly
  <1>. QED
    BY <1>1, <1>4, <1>5, AdvanceStep

\* Nor do the other calls, and what they plan is for a session without fills.
LEMMA CallKeepsTogether ==
    ASSUME TogetherInv, Call
    PROVE  TogetherInv'
  <1>. USE DEF TogetherInv
  <1>1. FillsInv' /\ TypeOK /\ Today' = Today /\ Late' = Late
    BY CallKeepsFills, CallStep DEF FillsInv, SleeveInv, Today, Late
  <1>2. NoneExpiresEarly'
    BY <1>1, CallRows DEF NoneExpiresEarly
  <1>3. BuysShareTheWindow'
    <2>. SUFFICES ASSUME NEW f \in fills', f.side = "BUY", NEW s \in Securities,
                         orders'[f.session][s] # None, orders'[f.session][s].side = "BUY"
                  PROVE  orders'[f.session][s].status \notin {"WAITING_OPEN", "EXPIRED"}
      BY DEF BuysShareTheWindow
    <2>1. f \in fills
      <3>1. \A r : Fill(r, "SELL", "INTRADAY").side = "SELL"
        BY DEF Fill
      <3>2. FillsAreDated
        BY DEF FillsInv
      <3>3. fills' = fills \/ \E r \in Held : fills' = fills \cup {Fill(r, "SELL", "INTRADAY")}
        BY <1>1, <3>2, CallFills
      <3>. QED
        BY <3>1, <3>3
    <2>2. f.session \in Sessions /\ f.session <= Today /\ Today \in Nat
      BY <1>1, <2>1 DEF TypeOK, Fills, FillsInv, FillsAreDated, Today, Sessions
    <2>3. f.session # Today + 1
      BY <2>2 DEF Sessions
    <2>4. CASE orders'[f.session][s] = orders[f.session][s]
      BY <2>1, <2>4 DEF BuysShareTheWindow
    <2>. QED
      BY <1>1, <2>2, <2>3, <2>4, CallRows
  <1>. QED
    BY <1>1, <1>2, <1>3

\* A tick that buys leaves no BUY of the session waiting; one after it has none to expire.
LEMMA TickKeepsTogether ==
    ASSUME TogetherInv, NEW bought \in SUBSET Buyable, TickBuying(bought)
    PROVE  TogetherInv'
  <1>. USE DEF TogetherInv
  <1>1. FillsInv' /\ SleeveInv /\ TypeOK /\ Today' = Today /\ Late' = Late
    BY TickKeepsFills DEF TickBuying, FillsInv, SleeveInv, Today, Late
  <1>2. NoneExpiresEarly'
    <2>. SUFFICES ASSUME NEW d \in Sessions, NEW s \in Securities, d > Today \/ (d = Today /\ ~Late),
                         orders'[d][s] # None, orders'[d][s].status = "EXPIRED"
                  PROVE  FALSE
      BY <1>1 DEF NoneExpiresEarly
    <2>1. CASE d = Today /\ s \in WaitingOn(Today)
      <3>1. Settled(s, bought) = "EXPIRED"
        BY <1>1, <2>1, TickRows
      <3>2. ~Late
        BY <1>1, <2>1 DEF TypeOK, Today, Sessions
      <3>3. Expired = {}
        BY <3>2 DEF Expired
      <3>. QED
        BY <3>1, <3>3 DEF Settled
    <2>2. CASE ~(d = Today /\ s \in WaitingOn(Today))
      BY <1>1, <2>2, TickRows DEF NoneExpiresEarly
    <2>. QED
      BY <2>1, <2>2
  <1>3. BuysShareTheWindow'
    <2>. SUFFICES ASSUME NEW f \in fills', f.side = "BUY", NEW s \in Securities,
                         orders'[f.session][s] # None, orders'[f.session][s].side = "BUY"
                  PROVE  orders'[f.session][s].status \notin {"WAITING_OPEN", "EXPIRED"}
      BY DEF BuysShareTheWindow
    <2>1. CASE f \in fills
      <3>1. f.session \in Sessions
        BY <1>1, <2>1 DEF TypeOK, Fills
      <3>2. /\ orders[f.session][s] # None /\ orders[f.session][s].side = "BUY"
            /\ orders[f.session][s].status \notin {"WAITING_OPEN", "EXPIRED"}
        BY <1>1, <2>1, <3>1, TickRows DEF BuysShareTheWindow
      <3>3. ~(f.session = Today /\ s \in WaitingOn(Today))
        BY <3>2 DEF WaitingOn
      <3>. QED
        BY <1>1, <3>1, <3>2, <3>3, TickRows
    <2>2. CASE f \notin fills
      <3>1. f \in OpenFills(bought)
        BY <2>2 DEF TickBuying
      <3>2. f.session = Today /\ bought # {} /\ ~Late
        BY <3>1, ExitsAndBuys DEF OpenFills, Fill
      <3>3. Today \in Sessions
        BY <1>1 DEF TypeOK, Today
      <3>4. /\ orders[Today][s] # None
            /\ orders'[Today][s].status = IF s \in WaitingOn(Today) THEN Settled(s, bought)
                                          ELSE orders[Today][s].status
        BY <1>1, <3>2, <3>3, TickRows
      <3>5. CASE s \in WaitingOn(Today)
        BY <1>1, <3>2, <3>4, <3>5, BuyingSettlesAll
      <3>6. CASE s \notin WaitingOn(Today)
        BY <3>2, <3>3, <3>4, <3>6 DEF WaitingOn, NoneExpiresEarly
      <3>. QED
        BY <3>5, <3>6
    <2>. QED
      BY <2>1, <2>2
  <1>. QED
    BY <1>1, <1>2, <1>3

(* Every call of the executor and the clock keep the BUYs of a session together. *)
LEMMA TogetherInvStep == TogetherInv /\ Step => TogetherInv'
  <1>1. ASSUME TogetherInv, Tick
        PROVE  TogetherInv'
    BY <1>1, TickBuys, TickKeepsTogether
  <1>2. ASSUME TogetherInv, UNCHANGED vars
        PROVE  TogetherInv'
    <2>1. FillsInv'
      BY <1>2, FillsInvStep DEF TogetherInv, Step
    <2>. QED
      BY <1>2, <2>1 DEF vars, TogetherInv, NoneExpiresEarly, BuysShareTheWindow, Today, Late
  <1>. QED
    BY <1>1, <1>2, AdvanceKeepsTogether, CallKeepsTogether DEF Step

-----------------------------------------------------------------------------
(* The worker.                                                              *)

(* What the executor does by itself. *)
LEMMA NextIsStep == [Next]_vars => Step
  BY NextIsOneOf DEF Step

WorkerTyped == worker \in (SUBSET Securities) \cup {None}

WorkerInv == TogetherInv /\ WorkerTyped

\* Every transaction of the worker is a call, a tick or nothing for the executor.
LEMMA WorkerSteps ==
    ASSUME WorkerTyped, RuntimeNext
    PROVE  Step
  <1>1. CASE Outside
    BY <1>1 DEF Outside, Call, Step
  <1>2. CASE \E s \in Securities, price \in Prices : ObserveOpen(s, price) \/ StopHeld(s, price)
    BY <1>2 DEF ObserveOpen, StopHeld, Call, Step
  <1>3. CASE \E s \in Securities, open \in Prices, low \in Prices : ObserveDaily(s, open, low)
    BY <1>3 DEF ObserveDaily, Call, Step
  <1>4. CASE FinishTick
    BY <1>4 DEF FinishTick, Step
  <1>5. CASE UNCHANGED vars
    BY <1>5 DEF Step
  <1>. QED
    BY <1>1, <1>2, <1>3, <1>4, <1>5 DEF RuntimeNext, Stage, BeginMonitorTick, Crash, BeginOpenTick,
       BeginCloseTick, Conflict

\* The worker only ever has securities to observe.
LEMMA WorkerTypeStep == WorkerTyped /\ [RuntimeNext]_<<vars, runtimeVars>> => WorkerTyped'
  <1>. SUFFICES ASSUME WorkerTyped, [RuntimeNext]_<<vars, runtimeVars>>
                PROVE  WorkerTyped'
    OBVIOUS
  <1>1. \A quoted \in SUBSET Securities : Observed(quoted) \subseteq Securities
    BY DEF Observed, ObservedBuys, Quotable, WaitingOn
  <1>2. CASE \E quoted \in SUBSET Securities : BeginOpenTick(quoted) \/ BeginCloseTick(quoted)
    BY <1>1, <1>2 DEF BeginOpenTick, BeginCloseTick, WorkerTyped
  <1>3. CASE \/ \E s \in Securities, price \in Prices : ObserveOpen(s, price)
             \/ \E s \in Securities, open \in Prices, low \in Prices : ObserveDaily(s, open, low)
    BY <1>3 DEF ObserveOpen, ObserveDaily, WorkerTyped
  <1>4. CASE worker' = worker \/ worker' = None \/ worker' = {}
    BY <1>4 DEF WorkerTyped
  <1>. QED
    BY <1>2, <1>3, <1>4 DEF RuntimeNext, Outside, Stage, BeginMonitorTick, FinishTick, Crash, Conflict,
       StopHeld, runtimeVars

-----------------------------------------------------------------------------
(* The theorems.                                                            *)

\* The tables of the paper database keep their columns' types.
THEOREM PaperTypeCorrect == Spec => []TypeOK
  <1>1. SleeveInv => TypeOK
    BY DEF SleeveInv
  <1>. QED
    BY <1>1, SleeveInvInit, SleeveInvStep, NextIsStep, PTL DEF Spec

\* However exits, SELLs and BUYs of an opening fall into ticks, the sleeve never holds
\* more than max_positions.
THEOREM LimitHolds == Spec => []PositionLimit
  <1>1. SleeveInv => PositionLimit
    BY DEF SleeveInv
  <1>. QED
    BY <1>1, SleeveInvInit, SleeveInvStep, NextIsStep, PTL DEF Spec

\* No order of calls opens the account to BUYs while a recovery exit is pending.
THEOREM RecoveryStopsBuying == Spec => []RecoveryBlocksBuys
  <1>1. SleeveInv => RecoveryBlocksBuys
    BY DEF SleeveInv
  <1>. QED
    BY <1>1, SleeveInvInit, SleeveInvStep, NextIsStep, PTL DEF Spec

\* A recovery exit is never carried past a timely open that was processed.
THEOREM RecoveryIsNotPutOff == Spec => []RecoveryTakesFirstOpen
  <1>1. SleeveInv => RecoveryTakesFirstOpen
    BY DEF SleeveInv
  <1>. QED
    BY <1>1, SleeveInvInit, SleeveInvStep, NextIsStep, PTL DEF Spec

\* The closing tick leaves no order of its session waiting, and none comes later.
THEOREM SessionsAreSettled == Spec => []ClosedSessionIsSettled
  <1>1. SleeveInv => ClosedSessionIsSettled
    BY DEF SleeveInv
  <1>. QED
    BY <1>1, SleeveInvInit, SleeveInvStep, NextIsStep, PTL DEF Spec

\* With a feed that agrees with itself on the open, no daily bar at or below a stop is
\* ever forgotten.
THEOREM BreachesAreKept ==
    ASSUME QuotesAgree
    PROVE  Spec => []BreachIsRemembered
  <1>1. SleeveInv => BreachIsRemembered
    BY DEF SleeveInv
  <1>. QED
    BY <1>1, SleeveInvInit, SleeveInvStep, NextIsStep, PTL DEF Spec

\* The fills explain the book: no fill is lost to a reused key or written twice, and
\* an order is FILLED exactly when its own fill is there.
THEOREM FillsAreTheBook == Spec => []FillsExplainBook
  <1>1. FillsInv => FillsExplainBook
    BY DEF FillsInv
  <1>. QED
    BY <1>1, FillsInvInit, FillsInvStep, NextIsStep, PTL DEF Spec

\* Whoever calls the executor and when, the BUYs of a session are bought from one
\* complete set of timely quotes or not at all.
THEOREM BuysComeTogether == Spec => []BuysShareTheWindow
  <1>1. TogetherInv => BuysShareTheWindow
    BY DEF TogetherInv
  <1>. QED
    BY <1>1, TogetherInvInit, TogetherInvStep, NextIsStep, PTL DEF Spec

-----------------------------------------------------------------------------
(* What the worker inherits.                                                *)

LEMMA WorkerInvInit == RuntimeInit => WorkerInv
  BY TogetherInvInit DEF RuntimeInit, WorkerInv, WorkerTyped

LEMMA WorkerIsStep ==
    WorkerTyped /\ [RuntimeNext]_<<vars, runtimeVars>> => Step
  BY WorkerSteps DEF Step

LEMMA WorkerInvStep ==
    WorkerInv /\ [RuntimeNext]_<<vars, runtimeVars>> => WorkerInv'
  BY WorkerIsStep, WorkerTypeStep, TogetherInvStep DEF WorkerInv

\* The worker, with a crash or a kill between any two of its transactions, keeps all
\* that the executor promises of its book and of its fills.
THEOREM WorkerKeepsTheBook ==
    RuntimeSpec => [](/\ FillsExplainBook /\ BuysShareTheWindow
                      /\ PositionLimit /\ ClosedSessionIsSettled
                      /\ RecoveryBlocksBuys /\ RecoveryTakesFirstOpen)
  <1>1. WorkerInv => /\ FillsExplainBook /\ BuysShareTheWindow
                     /\ PositionLimit /\ ClosedSessionIsSettled
                     /\ RecoveryBlocksBuys /\ RecoveryTakesFirstOpen
    BY DEF WorkerInv, TogetherInv, FillsInv, SleeveInv
  <1>. QED
    BY <1>1, WorkerInvInit, WorkerInvStep, PTL DEF RuntimeSpec

\* The runtime's own tables keep their types: only planned sessions of the calendar are
\* staged, and a tick records observations of the sleeve's securities.
THEOREM WorkerTypeCorrect == RuntimeSpec => []RuntimeTypeOK
  <1>. DEFINE Own == staged \subseteq Sessions /\ refused \in BOOLEAN
  <1>1. RuntimeInit => Own
    BY DEF RuntimeInit
  <1>2. ASSUME WorkerInv, Own, [RuntimeNext]_<<vars, runtimeVars>>
        PROVE  Own'
    <2>1. clock.session \in Sessions
      BY <1>2 DEF WorkerInv, TogetherInv, FillsInv, SleeveInv, TypeOK
    <2>2. staged' \in {staged, staged \cup {clock.session}} /\ refused' \in {refused, TRUE, FALSE}
      BY <1>2 DEF RuntimeNext, Outside, Stage, BeginMonitorTick, FinishTick, Crash, BeginOpenTick,
         BeginCloseTick, Conflict, ObserveOpen, StopHeld, ObserveDaily, runtimeVars, Today
    <2>. QED
      BY <1>2, <2>1, <2>2
  <1>3. WorkerInv /\ Own => RuntimeTypeOK
    BY DEF WorkerInv, WorkerTyped, TogetherInv, FillsInv, SleeveInv, RuntimeTypeOK
  <1>. QED
    BY <1>1, <1>2, <1>3, WorkerInvInit, WorkerInvStep, PTL DEF RuntimeSpec

-----------------------------------------------------------------------------
(* The kill switch.                                                         *)

KilledForGood ==
    account = "KILLED" =>
        /\ account' = "KILLED"
        /\ \A s \in Securities : positions[s] = None => positions'[s] = None

LEMMA KillLasts ==
    ASSUME TypeOK, Step
    PROVE  KilledForGood
  <1>. SUFFICES ASSUME account = "KILLED"
                PROVE  /\ account' = "KILLED"
                       /\ \A s \in Securities : positions[s] = None => positions'[s] = None
    BY DEF KilledForGood
  <1>1. CASE Call
    BY <1>1, CallStep
  <1>2. CASE Advance \/ UNCHANGED vars
    BY <1>2 DEF Advance, vars
  <1>3. ASSUME NEW bought \in SUBSET Buyable, TickBuying(bought)
        PROVE  /\ account' = "KILLED"
               /\ \A s \in Securities : positions[s] = None => positions'[s] = None
    <2>1. bought = {}
      BY DEF Buyable
    <2>2. account' = "KILLED"
      BY <1>3 DEF TickBuying, Degrade
    <2>. QED
      BY <1>3, <2>1, <2>2, TickBook
  <1>. QED
    BY <1>1, <1>2, <1>3, TickBuys DEF Step

\* Nothing revives a killed sleeve, and nothing buys for it.
THEOREM KillStays == Spec => KillIsFinal
  <1>1. TypeOK /\ [Next]_vars => [KilledForGood]_vars
    BY NextIsStep, KillLasts
  <1>. QED
    BY <1>1, PaperTypeCorrect, PTL DEF Spec, KillIsFinal, KilledForGood

\* Nor does the worker, whatever it had staged, asked for or begun when the switch was
\* thrown.
THEOREM WorkerCannotRevive == RuntimeSpec => KillIsFinal
  <1>1. WorkerInv /\ [RuntimeNext]_<<vars, runtimeVars>> => [KilledForGood]_vars
    BY WorkerIsStep, KillLasts DEF WorkerInv, TogetherInv, FillsInv, SleeveInv
  <1>. QED
    BY <1>1, WorkerInvInit, WorkerInvStep, PTL DEF RuntimeSpec, KillIsFinal, KilledForGood
===============================================================================
