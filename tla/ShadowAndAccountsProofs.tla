----------------------- MODULE ShadowAndAccountsProofs -----------------------
(***************************************************************************)
(* What the collector's lease and its write-once tables guarantee for every *)
(* number of processes, workers, symbols and slots, as long as the lease    *)
(* lasts more than twice as long as a tick may wait for it; and what the    *)
(* simulated accounts guarantee for every number of strategies, securities, *)
(* operators and scans.  The two share nothing.                             *)
(***************************************************************************)
EXTENDS USTdxShadow, PaperPortfolio, FiniteSetTheorems, WellFoundedInduction, TLAPS

-------------------------------------------------------------------------------
(* Type correctness.                                                        *)

\* The tables and the running ticks have their types to begin with.
LEMMA ShadowTypeInit == ShadowInit => ShadowTypeOK
  BY ShadowConstants DEF ShadowInit, ShadowTypeOK, Resting, Slots

\* A tick that rests has the type of a tick.
LEMMA RestTyped ==
    ASSUME ShadowTypeOK, NEW p \in Processes, Rest(p)
    PROVE  tick' \in [Processes -> [pc : {"rest", "leased", "asking"}, slot : Slots,
                                    asked : SUBSET Symbols]]
  BY ShadowConstants DEF ShadowTypeOK, Rest, Resting, Slots

\* Every step keeps the types.
LEMMA ShadowTypeStep == ShadowTypeOK /\ [ShadowNext]_shadowVars => ShadowTypeOK'
  <1>. SUFFICES ASSUME ShadowTypeOK, [ShadowNext]_shadowVars
                PROVE  ShadowTypeOK'
    OBVIOUS
  <1>. USE DEF ShadowTypeOK
  <1>1. ASSUME NEW p \in Processes, NEW now \in Slots, TakeLease(p, now)
        PROVE  ShadowTypeOK'
    <2>1. now \in Nat /\ now + LeaseSlots \in Nat /\ WorkerOf[p] \in Ids
      BY <1>1, ShadowConstants DEF Slots, Ids
    <2>2. lease' \in [owner : Ids, expires : Nat]
      BY <1>1, <2>1 DEF TakeLease
    <2>3. tick' \in [Processes -> [pc : {"rest", "leased", "asking"}, slot : Slots,
                                   asked : SUBSET Symbols]]
      BY <1>1, <2>1 DEF TakeLease
    <2>. QED
      BY <1>1, <2>2, <2>3 DEF TakeLease
  <1>2. ASSUME NEW p \in Processes, Look(p)
        PROVE  ShadowTypeOK'
    <2>1. tick' \in [Processes -> [pc : {"rest", "leased", "asking"}, slot : Slots,
                                   asked : SUBSET Symbols]]
      <3>1. CASE raw # Absent
        BY <1>2, <3>1, RestTyped DEF Look
      <3>2. CASE raw = Absent
        BY <1>2, <3>2 DEF Look
      <3>. QED
        BY <3>1, <3>2
    <2>. QED
      BY <1>2, <2>1 DEF Look
  <1>3. ASSUME NEW p \in Processes, NEW quotes \in [tick[p].asked -> Possible(p)],
               Record(p, quotes)
        PROVE  ShadowTypeOK'
    <2>1. tick[p].asked \subseteq Symbols
      OBVIOUS
    <2>2. \A s \in tick[p].asked : quotes[s] \in Outcomes
      BY DEF Possible
    <2>3. slots' \in [Symbols -> [Slots -> Outcomes \cup {Absent}]]
      BY <1>3, <2>1, <2>2 DEF Record, First
    <2>4. openings' \in [Symbols -> Slots \cup {Absent}]
      BY <1>3, <2>1 DEF Record, First
    <2>5. tick' \in [Processes -> [pc : {"rest", "leased", "asking"}, slot : Slots,
                                   asked : SUBSET Symbols]]
      BY <1>3, RestTyped DEF Record
    <2>. QED
      BY <1>3, <2>3, <2>4, <2>5 DEF Record
  <1>4. ASSUME NEW p \in Processes, TickDies(p)
        PROVE  ShadowTypeOK'
    BY <1>4, RestTyped DEF TickDies
  <1>5. ASSUME NEW source \in Sources, ReconcileRawOpens(source)
        PROVE  ShadowTypeOK'
    BY <1>5 DEF ReconcileRawOpens, First
  <1>6. CASE Pass
    BY <1>6 DEF Pass
  <1>7. CASE UNCHANGED shadowVars
    BY <1>7 DEF shadowVars
  <1>. QED
    BY <1>1, <1>2, <1>3, <1>4, <1>5, <1>6, <1>7 DEF ShadowNext, TickNext

\* The shadow database keeps the types of its columns.
THEOREM ShadowTypeCorrect == ShadowSpec => []ShadowTypeOK
  BY ShadowTypeInit, ShadowTypeStep, PTL DEF ShadowSpec

-------------------------------------------------------------------------------
(* One worker per slot.                                                     *)

\* What a tick in flight knows of the lease: while it is still its worker's, it lasts
\* to within the lag of the tick's own lease; when it is another's, the tick's own has
\* run out by now.
LeaseCovers(p) ==
    InFlight(p) =>
        LET soonest == tick[p].slot + LeaseSlots - Lag IN
        /\ tick[p].slot <= time
        /\ lease # Absent
        /\ lease.owner = WorkerOf[p] => soonest <= lease.expires
        /\ lease.owner # WorkerOf[p] => soonest <= time

LeaseInv ==
    /\ ShadowTypeOK
    /\ \A p \in Processes : LeaseCovers(p)
    /\ OneWorkerPerSlot

\* A tick may get the lease only if no other worker's tick in flight has its slot.
LEMMA SlotIsFree ==
    ASSUME LeaseInv, NEW p \in Processes, NEW now \in Slots, TakeLease(p, now),
           NEW q \in Processes, InFlight(q), tick[q].slot = now
    PROVE  WorkerOf[q] = WorkerOf[p]
  <1>. SUFFICES ASSUME WorkerOf[q] # WorkerOf[p]
                PROVE  FALSE
    OBVIOUS
  <1>1. /\ now \in Int /\ time \in Int /\ LeaseSlots \in Int /\ Lag \in Int
        /\ 2 * Lag < LeaseSlots /\ 0 <= Lag
    BY ShadowConstants DEF Slots, LeaseInv, ShadowTypeOK
  <1>2. /\ lease # Absent
        /\ lease.owner = WorkerOf[q] => now + LeaseSlots - Lag <= lease.expires
        /\ lease.owner # WorkerOf[q] => now + LeaseSlots - Lag <= time
    BY DEF LeaseInv, LeaseCovers
  <1>3. lease.expires \in Int
    BY <1>2 DEF LeaseInv, ShadowTypeOK
  <1>4. time <= now + Lag /\ (lease.owner = WorkerOf[p] \/ lease.expires <= now)
    BY <1>2 DEF TakeLease, Free
  <1>5. CASE lease.owner = WorkerOf[q]
    <2>1. lease.expires <= now /\ now + LeaseSlots - Lag <= lease.expires
      BY <1>2, <1>4, <1>5
    <2>. QED
      BY <1>1, <1>3, <2>1
  <1>6. CASE lease.owner # WorkerOf[q]
    BY <1>1, <1>2, <1>4, <1>6
  <1>. QED
    BY <1>5, <1>6

\* The lease covers every tick in flight after a step, too.
LEMMA LeaseCoversStep ==
    ASSUME LeaseInv, [ShadowNext]_shadowVars, NEW q \in Processes
    PROVE  LeaseCovers(q)'
  <1>0. ShadowTypeOK /\ ShadowTypeOK' /\ LeaseCovers(q)
    BY ShadowTypeStep DEF LeaseInv
  <1>1. ASSUME NEW p \in Processes, NEW now \in Slots, TakeLease(p, now)
        PROVE  LeaseCovers(q)'
    <2>1. /\ now \in Int /\ time \in Int /\ LeaseSlots \in Int /\ Lag \in Int
          /\ 0 <= Lag /\ now <= time /\ time <= now + Lag
      BY <1>0, <1>1, ShadowConstants DEF Slots, ShadowTypeOK, TakeLease
    <2>2. /\ lease' = [owner |-> WorkerOf[p], expires |-> now + LeaseSlots]
          /\ lease' # Absent /\ time' = time
      <3>1. lease' = [owner |-> WorkerOf[p], expires |-> now + LeaseSlots] /\ time' = time
        BY <1>1 DEF TakeLease
      <3>2. WorkerOf[p] \in Ids /\ now + LeaseSlots \in Nat
        BY ShadowConstants DEF Ids, Slots
      <3>3. lease' # Absent
        BY <3>1, <3>2, ShadowConstants
      <3>. QED
        BY <3>1, <3>3
    <2>3. CASE q = p
      <3>1. tick'[q].slot = now
        BY <1>0, <1>1, <2>3 DEF TakeLease, ShadowTypeOK
      <3>2. LeaseSlots - Lag <= LeaseSlots
        BY <2>1
      <3>. QED
        BY <2>1, <2>2, <2>3, <3>1, <3>2 DEF LeaseCovers
    <2>4. CASE q # p
      <3>1. tick'[q] = tick[q]
        BY <1>0, <1>1, <2>4 DEF TakeLease, ShadowTypeOK
      <3>2. CASE InFlight(q)
        <4>1. /\ tick[q].slot \in Int /\ tick[q].slot <= time /\ lease # Absent
              /\ lease.owner = WorkerOf[q] => tick[q].slot + LeaseSlots - Lag <= lease.expires
              /\ lease.owner # WorkerOf[q] => tick[q].slot + LeaseSlots - Lag <= time
          BY <1>0, <3>2 DEF LeaseCovers, ShadowTypeOK, Slots
        <4>2. lease.expires \in Int
          BY <1>0, <4>1 DEF ShadowTypeOK
        <4>3. ASSUME WorkerOf[p] = WorkerOf[q]
              PROVE  tick[q].slot + LeaseSlots - Lag <= now + LeaseSlots
          BY <2>1, <4>1
        <4>4. ASSUME WorkerOf[p] # WorkerOf[q]
              PROVE  tick[q].slot + LeaseSlots - Lag <= time
          <5>1. lease.owner = WorkerOf[q] => lease.expires <= now
            BY <1>1, <4>1, <4>4 DEF TakeLease, Free
          <5>. QED
            BY <2>1, <4>1, <4>2, <5>1
        <4>. QED
          BY <2>2, <3>1, <4>1, <4>3, <4>4 DEF LeaseCovers
      <3>3. CASE ~InFlight(q)
        BY <3>1, <3>3 DEF LeaseCovers, InFlight, At
      <3>. QED
        BY <3>2, <3>3
    <2>. QED
      BY <2>3, <2>4
  <1>2. ASSUME NEW p \in Processes, Rest(p), UNCHANGED <<time, lease>>
        PROVE  LeaseCovers(q)'
    BY <1>0, <1>2 DEF LeaseCovers, InFlight, At, Rest, Resting, ShadowTypeOK
  <1>3. ASSUME NEW p \in Processes, Look(p)
        PROVE  LeaseCovers(q)'
    <2>1. CASE raw # Absent
      BY <1>2, <1>3, <2>1 DEF Look
    <2>2. CASE raw = Absent
      <3>1. /\ InFlight(p) /\ UNCHANGED <<time, lease>>
            /\ tick'[q].slot = tick[q].slot
            /\ q # p => tick'[q] = tick[q]
        BY <1>0, <1>3, <2>2 DEF Look, At, InFlight, ShadowTypeOK
      <3>. QED
        BY <1>0, <3>1 DEF LeaseCovers, InFlight, At
    <2>. QED
      BY <2>1, <2>2
  <1>4. ASSUME NEW p \in Processes, NEW quotes \in [tick[p].asked -> Possible(p)],
               Record(p, quotes)
        PROVE  LeaseCovers(q)'
    BY <1>2, <1>4 DEF Record
  <1>5. ASSUME NEW p \in Processes, TickDies(p)
        PROVE  LeaseCovers(q)'
    BY <1>2, <1>5 DEF TickDies
  <1>6. ASSUME NEW source \in Sources, ReconcileRawOpens(source)
        PROVE  LeaseCovers(q)'
    BY <1>0, <1>6 DEF ReconcileRawOpens, LeaseCovers, InFlight, At
  <1>7. CASE Pass
    <2>1. time \in Int /\ time' = time + 1 /\ UNCHANGED <<lease, tick>>
      BY <1>0, <1>7 DEF Pass, ShadowTypeOK
    <2>2. tick[q].slot \in Int /\ LeaseSlots \in Int /\ Lag \in Int
      BY <1>0, ShadowConstants DEF ShadowTypeOK, Slots
    <2>. QED
      BY <1>0, <2>1, <2>2 DEF LeaseCovers, InFlight, At
  <1>8. CASE UNCHANGED shadowVars
    BY <1>0, <1>8 DEF shadowVars, LeaseCovers, InFlight, At
  <1>. QED
    BY <1>1, <1>3, <1>4, <1>5, <1>6, <1>7, <1>8 DEF ShadowNext, TickNext

\* No step brings two workers into one slot.
LEMMA OneWorkerStep == LeaseInv /\ [ShadowNext]_shadowVars => OneWorkerPerSlot'
  <1>. SUFFICES ASSUME LeaseInv, [ShadowNext]_shadowVars,
                       NEW p \in Processes, NEW q \in Processes,
                       InFlight(p)', InFlight(q)', tick'[p].slot = tick'[q].slot
                PROVE  WorkerOf[p] = WorkerOf[q]
    BY DEF OneWorkerPerSlot
  <1>0. ShadowTypeOK /\ OneWorkerPerSlot
    BY DEF LeaseInv
  <1>1. ASSUME NEW r \in Processes, NEW now \in Slots, TakeLease(r, now)
        PROVE  WorkerOf[p] = WorkerOf[q]
    <2>1. \A s \in Processes : s # r => tick'[s] = tick[s]
      BY <1>0, <1>1 DEF TakeLease, ShadowTypeOK
    <2>2. tick'[r].slot = now
      BY <1>0, <1>1 DEF TakeLease, ShadowTypeOK
    <2>3. CASE p = r /\ q # r
      <3>1. InFlight(q) /\ tick[q].slot = now
        BY <2>1, <2>2, <2>3 DEF InFlight, At
      <3>. QED
        BY <1>1, <2>3, <3>1, SlotIsFree
    <2>4. CASE q = r /\ p # r
      <3>1. InFlight(p) /\ tick[p].slot = now
        BY <2>1, <2>2, <2>4 DEF InFlight, At
      <3>. QED
        BY <1>1, <2>4, <3>1, SlotIsFree
    <2>5. CASE p # r /\ q # r
      BY <1>0, <2>1, <2>5 DEF OneWorkerPerSlot, InFlight, At
    <2>. QED
      BY <2>3, <2>4, <2>5
  <1>2. ASSUME \A s \in Processes : InFlight(s)' => InFlight(s) /\ tick'[s].slot = tick[s].slot
        PROVE  WorkerOf[p] = WorkerOf[q]
    BY <1>0, <1>2 DEF OneWorkerPerSlot
  <1>3. ASSUME NEW r \in Processes, Rest(r)
        PROVE  WorkerOf[p] = WorkerOf[q]
    BY <1>0, <1>2, <1>3 DEF InFlight, At, Rest, Resting, ShadowTypeOK
  <1>4. ASSUME NEW r \in Processes, Look(r)
        PROVE  WorkerOf[p] = WorkerOf[q]
    <2>1. CASE raw # Absent
      BY <1>3, <1>4, <2>1 DEF Look
    <2>2. CASE raw = Absent
      BY <1>0, <1>2, <1>4, <2>2 DEF Look, InFlight, At, ShadowTypeOK
    <2>. QED
      BY <2>1, <2>2
  <1>5. ASSUME NEW r \in Processes, NEW quotes \in [tick[r].asked -> Possible(r)],
               Record(r, quotes)
        PROVE  WorkerOf[p] = WorkerOf[q]
    BY <1>3, <1>5 DEF Record
  <1>6. ASSUME NEW r \in Processes, TickDies(r)
        PROVE  WorkerOf[p] = WorkerOf[q]
    BY <1>3, <1>6 DEF TickDies
  <1>7. ASSUME UNCHANGED tick
        PROVE  WorkerOf[p] = WorkerOf[q]
    BY <1>2, <1>7 DEF InFlight, At
  <1>. QED
    BY <1>1, <1>4, <1>5, <1>6, <1>7
       DEF ShadowNext, TickNext, ReconcileRawOpens, Pass, shadowVars

\* "A second worker is rejected by a SQLite lease": whatever the lag of the ticks, no
\* two workers ever ask for the same slot, because a lease outlives twice the lag.
THEOREM OneWorkerForEverySlot == ShadowSpec => []OneWorkerPerSlot
  <1>1. ShadowInit => LeaseInv
    BY ShadowTypeInit DEF ShadowInit, LeaseInv, LeaseCovers, OneWorkerPerSlot, InFlight, At, Resting
  <1>2. LeaseInv /\ [ShadowNext]_shadowVars => LeaseInv'
    BY ShadowTypeStep, LeaseCoversStep, OneWorkerStep DEF LeaseInv
  <1>3. LeaseInv => OneWorkerPerSlot
    BY DEF LeaseInv
  <1>. QED
    BY <1>1, <1>2, <1>3, PTL DEF ShadowSpec

-------------------------------------------------------------------------------
(* Written once.                                                            *)

\* "Each symbol/60-second slot is write-once": no tick that repeats a slot, and no
\* second reconciliation, replaces a row, an opening or the final opens.
THEOREM EvidenceStands == ShadowSpec => EvidenceIsWrittenOnce
  <1>. DEFINE Once ==
         /\ \A s \in Symbols :
               /\ \A i \in Slots : slots[s][i] # Absent => slots'[s][i] = slots[s][i]
               /\ openings[s] # Absent => openings'[s] = openings[s]
         /\ raw # Absent => raw' = raw
  <1>1. ShadowTypeOK /\ [ShadowNext]_shadowVars => [Once]_shadowVars
    <2>. SUFFICES ASSUME ShadowTypeOK, ShadowNext
                  PROVE  Once
      OBVIOUS
    <2>1. ASSUME NEW p \in Processes, NEW quotes \in [tick[p].asked -> Possible(p)],
                 Record(p, quotes)
          PROVE  Once
      BY <2>1 DEF Record, First, ShadowTypeOK
    <2>2. ASSUME NEW source \in Sources, ReconcileRawOpens(source)
          PROVE  Once
      BY <2>2 DEF ReconcileRawOpens, First
    <2>3. ASSUME UNCHANGED <<slots, openings, raw>>
          PROVE  Once
      BY <2>3
    <2>. QED
      BY <2>1, <2>2, <2>3 DEF ShadowNext, TickNext, TakeLease, Look, TickDies, Pass
  <1>. QED
    BY <1>1, ShadowTypeCorrect, PTL DEF ShadowSpec, EvidenceIsWrittenOnce

-------------------------------------------------------------------------------
(* The accounts: types, and what the tables know of one another.            *)

\* A BUY that has one session.
Hasty(i) == signals[i].side = "BUY" /\ signals[i].strategy \in OneSession

\* An approval on a day is in time for a signal.
InTime(i, approval) == approval \in Nat /\ (Hasty(i) => approval <= signals[i].born)

DecisionsInTime ==
    /\ deciding \in [Operators -> [signal : Nat, decision : Decisions, day : Nat] \cup {Unset}]
    /\ \A h \in Operators : deciding[h] # Unset =>
          /\ deciding[h].signal \in DOMAIN signals
          /\ InTime(deciding[h].signal, deciding[h].day)

OrdersInTime ==
    /\ \A i \in DOMAIN signals : paperOrders[i] # Unset => InTime(i, signals[i].approved)
    /\ \A f \in paperFills : Hasty(f.order) => f.day = signals[f.order].born + 1

ScanKnows ==
    scan # Unset =>
        /\ scan.todo \subseteq DOMAIN signals
        /\ scan.stage = "orders" => \A i \in scan.todo : paperOrders[i] = "PENDING"
        /\ scan.stage = "signals" => \A i \in scan.todo : InTime(i, signals[i].approved)

FillsOnce ==
    /\ \A f, g \in paperFills : f.order = g.order => f = g
    /\ \A i \in DOMAIN signals : paperOrders[i] = "FILLED" <=> \E f \in paperFills : f.order = i

PositionsBalance ==
    /\ IsFiniteSet(paperFills)
    /\ \A p \in Strategies, c \in Codes :
          Cardinality(TradesOf(p, c, "BUY")) =
              Cardinality(TradesOf(p, c, "SELL")) + IF c \in OwnedBy(p) THEN 1 ELSE 0

AccountInv ==
    /\ PortfolioTypeOK
    /\ DecisionsInTime
    /\ OrdersInTime
    /\ ScanKnows
    /\ FillsOnce
    /\ PositionsBalance

LEMMA AccountInvHolds ==
    PortfolioInit => AccountInv
<1> SUFFICES ASSUME PortfolioInit  PROVE AccountInv
  OBVIOUS
<1> USE DEF PortfolioInit
<1>1. signals = <<>> /\ paperOrders = <<>> /\ DOMAIN signals = {} /\ paperFills = {} /\ bars = <<>>
  OBVIOUS
<1>2. PortfolioTypeOK
  BY <1>1 DEF PortfolioTypeOK
<1>3. DecisionsInTime /\ OrdersInTime /\ ScanKnows /\ FillsOnce
  BY <1>1 DEF DecisionsInTime, OrdersInTime, ScanKnows, FillsOnce
<1>4. PositionsBalance
  <2>1. Cardinality({}) = 0 /\ IsFiniteSet({})
    BY FS_EmptySet
  <2>2. ASSUME NEW p \in Strategies, NEW c \in Codes
        PROVE  Cardinality(TradesOf(p, c, "BUY")) =
                 Cardinality(TradesOf(p, c, "SELL")) + IF c \in OwnedBy(p) THEN 1 ELSE 0
    <3>1. TradesOf(p, c, "BUY") = {} /\ TradesOf(p, c, "SELL") = {}
      BY <1>1 DEF TradesOf
    <3>2. c \notin OwnedBy(p)
      BY <1>1, <2>2 DEF OwnedBy
    <3>3. (IF c \in OwnedBy(p) THEN 1 ELSE 0) = 0
      BY <3>2
    <3>4. Cardinality(TradesOf(p, c, "BUY")) = 0 /\ Cardinality(TradesOf(p, c, "SELL")) = 0
      BY <2>1, <3>1
    <3>. QED  BY <3>3, <3>4
  <2>. QED  BY <1>1, <2>1, <2>2 DEF PositionsBalance
<1>. QED  BY <1>2, <1>3, <1>4 DEF AccountInv

SignalRow ==
    [strategy : Strategies, code : Codes, born : Nat, side : {"BUY", "SELL"},
     status : Decisions \cup {"PROPOSED", "EXECUTED"}, approved : Nat \cup {Unset}]

LEMMA RowsTyped ==
    ASSUME PortfolioTypeOK
    PROVE  /\ signals \in Seq(SignalRow)
           /\ DOMAIN signals = 1..Len(signals) /\ Len(signals) \in Nat
           /\ \A i \in DOMAIN signals : signals[i] \in SignalRow
           /\ paperOrders \in [DOMAIN signals -> {"PENDING", "FILLED", "CANCELED", Unset}]
<1>1. signals \in Seq(SignalRow)
  BY DEF PortfolioTypeOK, SignalRow
<1> HIDE DEF SignalRow
<1>2. /\ DOMAIN signals = 1..Len(signals) /\ Len(signals) \in Nat
      /\ \A i \in DOMAIN signals : signals[i] \in SignalRow
  BY <1>1
<1>3. paperOrders \in [DOMAIN signals -> {"PENDING", "FILLED", "CANCELED", Unset}]
  BY DEF PortfolioTypeOK
<1>. QED  BY <1>1, <1>2, <1>3

\* The signals that are there keep what they are.
SignalsKept ==
    /\ DOMAIN signals \subseteq DOMAIN signals'
    /\ \A i \in DOMAIN signals :
          /\ signals'[i].strategy = signals[i].strategy /\ signals'[i].code = signals[i].code
          /\ signals'[i].side = signals[i].side /\ signals'[i].born = signals[i].born

\* Without a new fill or a moved position the balance and the fills' days stand.
LEMMA KeptWithoutFills ==
    ASSUME AccountInv, SignalsKept, UNCHANGED <<paperFills, paperPositions>>
    PROVE  /\ PositionsBalance'
           /\ \A f \in paperFills' : f.order \in DOMAIN signals
           /\ \A f \in paperFills' : Hasty(f.order)' => f.day = signals'[f.order].born + 1
<1>1. \A f \in paperFills : f.order \in DOMAIN signals
  BY DEF AccountInv, PortfolioTypeOK
<1>2. ASSUME NEW p, NEW c, NEW side  PROVE TradesOf(p, c, side)' = TradesOf(p, c, side)
  BY <1>1 DEF TradesOf, SignalsKept
<1>3. \A p : OwnedBy(p)' = OwnedBy(p)
  BY DEF OwnedBy
<1>4. PositionsBalance'
  BY <1>2, <1>3 DEF AccountInv, PositionsBalance
<1>5. ASSUME NEW f \in paperFills', Hasty(f.order)'
      PROVE  f.day = signals'[f.order].born + 1
  <2>1. f \in paperFills /\ f.order \in DOMAIN signals
    BY <1>1
  <2>2. Hasty(f.order) /\ signals'[f.order].born = signals[f.order].born
    BY <1>5, <2>1 DEF Hasty, SignalsKept
  <2>. QED  BY <2>1, <2>2 DEF AccountInv, OrdersInTime
<1>. QED  BY <1>1, <1>4, <1>5

\* Steps that leave the tables alone.
LEMMA TablesAlone ==
    ASSUME AccountInv, UNCHANGED <<signals, paperOrders, paperPositions, paperFills>>,
           bars' \in Seq([Codes -> Opens]),
           scan' \in [stage : {"orders", "signals"}, todo : SUBSET Nat] \cup {Unset},
           ScanKnows', DecisionsInTime'
    PROVE  AccountInv'
<1>1. SignalsKept
  BY DEF SignalsKept
<1>2. PositionsBalance'
  BY <1>1, KeptWithoutFills
<1>3. PortfolioTypeOK'
  BY DEF AccountInv, PortfolioTypeOK
<1>4. OrdersInTime' /\ FillsOnce'
  BY DEF AccountInv, OrdersInTime, FillsOnce, InTime, Hasty
<1>. QED  BY <1>2, <1>3, <1>4 DEF AccountInv

-------------------------------------------------------------------------------
(* A fill.                                                                  *)

LEMMA LeastDay ==
    ASSUME NEW days, days # {}, \A d \in days : d \in Nat
    PROVE  \E d \in days : \A e \in days : d <= e
<1> DEFINE below == OpToRel(<, Nat)
<1>1. IsWellFoundedOn(below, Nat)
  BY NatLessThanWellFounded, Zenon
<1>2. \A d, e \in Nat : e < d => <<e, d>> \in below
  BY SMT DEF OpToRel
<1> HIDE DEF below
<1>3. PICK d \in days : \A e \in days : ~ (<<e, d>> \in below)
  <2>1. days \subseteq Nat
    OBVIOUS
  <2>. QED  BY <1>1, <2>1, WFMin
<1>4. ASSUME NEW e \in days  PROVE d <= e
  <2>1. d \in Nat /\ e \in Nat
    OBVIOUS
  <2>2. ~(e < d)
    BY <1>2, <1>3, <2>1
  <2>. QED  BY <2>1, <2>2
<1>. QED  BY <1>4

LEMMA FillKeepsAccounts ==
    ASSUME AccountInv, NEW i \in DOMAIN signals, Takes(i), NEW day \in Nat, NEW position,
           RecordFill(i, day, position),
           signals[i].side = "BUY" =>
               position = day /\ signals[i].code \notin OwnedBy(signals[i].strategy),
           signals[i].side = "SELL" =>
               position = Unset /\ signals[i].code \in OwnedBy(signals[i].strategy),
           Hasty(i) => day = signals[i].born + 1
    PROVE  AccountInv'
<1> DEFINE s == signals[i]
           fill == [order |-> i, day |-> day]
<1>1. /\ paperFills' = paperFills \cup {fill}
      /\ paperPositions' = [paperPositions EXCEPT ![s.strategy][s.code] = position]
      /\ paperOrders' = [paperOrders EXCEPT ![i] = "FILLED"]
      /\ signals' = [signals EXCEPT ![i].status = "EXECUTED"]
      /\ scan # Unset /\ scan.stage = "orders" /\ i \in scan.todo
      /\ scan' = [scan EXCEPT !.todo = @ \ {i}]
      /\ UNCHANGED <<bars, deciding>>
  BY DEF RecordFill, Takes, Filled
<1>2. PortfolioTypeOK /\ signals \in Seq(SignalRow) /\ DOMAIN signals = 1..Len(signals)
      /\ Len(signals) \in Nat
      /\ \A j \in DOMAIN signals : signals[j] \in SignalRow
      /\ paperOrders \in [DOMAIN signals -> {"PENDING", "FILLED", "CANCELED", Unset}]
  BY RowsTyped DEF AccountInv
<1>3. s \in SignalRow
  BY <1>2
<1>4. /\ s.strategy \in Strategies /\ s.code \in Codes /\ s.side \in {"BUY", "SELL"}
      /\ s.born \in Nat /\ position \in Nat \cup {Unset}
  BY <1>3 DEF SignalRow
<1>5. signals' \in Seq(SignalRow) /\ DOMAIN signals' = DOMAIN signals
  <2>1. [s EXCEPT !.status = "EXECUTED"] \in SignalRow
    BY <1>3 DEF SignalRow
  <2> HIDE DEF SignalRow
  <2>2. signals' = [signals EXCEPT ![i] = [s EXCEPT !.status = "EXECUTED"]]
    BY <1>1
  <2> HIDE DEF s
  <2>. QED  BY <1>2, <2>1, <2>2
<1>6. SignalsKept /\ \A j \in DOMAIN signals : signals'[j].approved = signals[j].approved
  <2>1. \A j \in DOMAIN signals : j # i => signals'[j] = signals[j]
    BY <1>1, <1>2
  <2>2. signals'[i] = [s EXCEPT !.status = "EXECUTED"]
    BY <1>1, <1>2
  <2>3. /\ signals'[i].strategy = s.strategy /\ signals'[i].code = s.code
        /\ signals'[i].side = s.side /\ signals'[i].born = s.born
        /\ signals'[i].approved = s.approved
    BY <1>3, <2>2 DEF SignalRow
  <2>. QED  BY <1>5, <2>1, <2>3 DEF SignalsKept
<1>7. scan' \in [stage : {"orders", "signals"}, todo : SUBSET Nat]
      /\ scan'.stage = "orders" /\ scan'.todo = scan.todo \ {i}
  BY <1>1, <1>2 DEF PortfolioTypeOK
<1>8. \A j \in DOMAIN signals : paperOrders'[j] = IF j = i THEN "FILLED" ELSE paperOrders[j]
  BY <1>1, <1>2
<1>9. PortfolioTypeOK'
  <2>1. paperPositions' \in [Strategies -> [Codes -> Nat \cup {Unset}]]
    BY <1>1, <1>2, <1>4 DEF PortfolioTypeOK
  <2>2. paperOrders' \in Seq({"PENDING", "FILLED", "CANCELED", Unset})
        /\ DOMAIN paperOrders' = DOMAIN signals'
    BY <1>1, <1>2, <1>5 DEF PortfolioTypeOK
  <2>3. \A f \in paperFills' : f.order \in DOMAIN paperOrders'
    BY <1>1, <1>2, <1>5, <2>2 DEF PortfolioTypeOK
  <2>4. bars' \in Seq([Codes -> Opens])
    BY <1>1, <1>2 DEF PortfolioTypeOK
  <2>. QED  BY <1>5, <1>7, <2>1, <2>2, <2>3, <2>4 DEF PortfolioTypeOK, SignalRow
<1>10. DecisionsInTime'
  BY <1>1, <1>5, <1>6 DEF AccountInv, DecisionsInTime, InTime, Hasty, SignalsKept
<1>11. paperOrders[i] = "PENDING" /\ ~ \E f \in paperFills : f.order = i
  BY <1>1, <1>2 DEF AccountInv, ScanKnows, FillsOnce
<1>12. ScanKnows'
  <2>1. \A j \in scan'.todo : j \in DOMAIN signals /\ j # i /\ paperOrders[j] = "PENDING"
    BY <1>1, <1>7 DEF AccountInv, ScanKnows
  <2>. QED  BY <1>5, <1>7, <1>8, <2>1 DEF ScanKnows
<1>13. FillsOnce'
  <2>1. fill.order = i
    OBVIOUS
  <2> HIDE DEF fill
  <2>2. \A f, g \in paperFills' : f.order = g.order => f = g
    BY <1>1, <1>11, <2>1 DEF AccountInv, FillsOnce
  <2>3. ASSUME NEW j \in DOMAIN signals
        PROVE  paperOrders'[j] = "FILLED" <=> \E f \in paperFills' : f.order = j
    BY <1>1, <1>8, <2>1 DEF AccountInv, FillsOnce
  <2>. QED  BY <1>5, <2>2, <2>3 DEF FillsOnce
<1>14. OrdersInTime'
  <2>1. InTime(i, s.approved)
    <3>1. paperOrders[i] # Unset
      BY <1>11, PortfolioConstants
    <3>. QED  BY <3>1 DEF AccountInv, OrdersInTime
  <2>2. ASSUME NEW j \in DOMAIN signals, paperOrders'[j] # Unset
        PROVE  InTime(j, signals'[j].approved) /\ (Hasty(j)' <=> Hasty(j))
               /\ signals'[j].born = signals[j].born
    <3>1. InTime(j, signals[j].approved)
      BY <1>8, <2>1, <2>2 DEF AccountInv, OrdersInTime
    <3>. QED  BY <1>6, <3>1 DEF SignalsKept, Hasty
  <2>3. \A j \in DOMAIN signals' : paperOrders'[j] # Unset => InTime(j, signals[j].approved)'
    BY <1>5, <2>2 DEF InTime
  <2>4. ASSUME NEW f \in paperFills', Hasty(f.order)'
        PROVE  f.day = signals'[f.order].born + 1
    <3>1. CASE f \in paperFills
      <4>1. f.order \in DOMAIN signals
        BY <3>1, <1>2 DEF PortfolioTypeOK
      <4>2. Hasty(f.order) /\ signals'[f.order].born = signals[f.order].born
        BY <1>6, <2>4, <4>1 DEF SignalsKept, Hasty
      <4>. QED  BY <3>1, <4>2 DEF AccountInv, OrdersInTime
    <3>2. CASE f = fill
      <4>1. Hasty(i) /\ signals'[i].born = s.born
        BY <1>6, <2>4, <3>2 DEF SignalsKept, Hasty
      <4>. QED  BY <3>2, <4>1
    <3>. QED  BY <1>1, <3>1, <3>2
  <2>. QED  BY <2>3, <2>4 DEF OrdersInTime
<1>15. PositionsBalance'
  <2> DEFINE here == s.strategy
             it == s.code
  <2>1. IsFiniteSet(paperFills) /\ fill \notin paperFills
    BY <1>11 DEF AccountInv, PositionsBalance
  <2>2. IsFiniteSet(paperFills')
    BY <1>1, <2>1, FS_AddElement
  <2>3. ASSUME NEW p \in Strategies, NEW c \in Codes, NEW side \in {"BUY", "SELL"}
        PROVE  TradesOf(p, c, side)' =
                 IF p = here /\ c = it /\ side = s.side
                 THEN TradesOf(p, c, side) \cup {fill} ELSE TradesOf(p, c, side)
    <3>1. \A f \in paperFills : f.order \in DOMAIN signals
      BY <1>2 DEF PortfolioTypeOK
    <3>2. /\ signals'[i].strategy = here /\ signals'[i].code = it /\ signals'[i].side = s.side
          /\ fill.order = i
      BY <1>6 DEF SignalsKept
    <3>3. \A f \in paperFills :
             /\ signals'[f.order].strategy = signals[f.order].strategy
             /\ signals'[f.order].code = signals[f.order].code
             /\ signals'[f.order].side = signals[f.order].side
      BY <1>6, <3>1 DEF SignalsKept
    <3>4. TradesOf(p, c, side)' =
            {f \in paperFills' : /\ signals'[f.order].strategy = p
                                 /\ signals'[f.order].code = c
                                 /\ signals'[f.order].side = side}
      BY DEF TradesOf
    <3>5. TradesOf(p, c, side) =
            {f \in paperFills : /\ signals[f.order].strategy = p
                                /\ signals[f.order].code = c
                                /\ signals[f.order].side = side}
      BY DEF TradesOf
    <3> DEFINE more == p = here /\ c = it /\ side = s.side
    <3>6. more <=> (p = signals'[i].strategy /\ c = signals'[i].code /\ side = signals'[i].side)
      BY <3>2
    <3> HIDE DEF fill, more
    <3>7. ASSUME NEW f
          PROVE  f \in TradesOf(p, c, side)' <=>
                   f \in TradesOf(p, c, side) \/ (more /\ f = fill)
      <4>1. CASE f \in paperFills
        <5>1. f \in TradesOf(p, c, side)' <=> f \in TradesOf(p, c, side)
          BY <1>1, <3>3, <3>4, <3>5, <4>1
        <5>. QED  BY <2>1, <4>1, <5>1
      <4>2. CASE f = fill
        <5>1. f \in TradesOf(p, c, side)' <=> more
          BY <1>1, <3>2, <3>4, <3>6, <4>2
        <5>2. f \notin TradesOf(p, c, side)
          BY <2>1, <3>5, <4>2
        <5>. QED  BY <4>2, <5>1, <5>2
      <4>3. CASE f \notin paperFills /\ f # fill
        BY <1>1, <3>4, <3>5, <4>3
      <4>. QED  BY <4>1, <4>2, <4>3
    <3>8. TradesOf(p, c, side)' =
            IF more THEN TradesOf(p, c, side) \cup {fill} ELSE TradesOf(p, c, side)
      BY <3>7
    <3>. QED  BY <3>8 DEF more
  <2>4. ASSUME NEW p \in Strategies, NEW c \in Codes
        PROVE  c \in OwnedBy(p)' <=>
                 IF p = here /\ c = it THEN position # Unset ELSE c \in OwnedBy(p)
    BY <1>1, <1>2, <1>4 DEF OwnedBy, PortfolioTypeOK
  <2>5. ASSUME NEW p \in Strategies, NEW c \in Codes, NEW side \in {"BUY", "SELL"}
        PROVE  /\ Cardinality(TradesOf(p, c, side)) \in Nat
               /\ Cardinality(TradesOf(p, c, side) \cup {fill}) =
                    Cardinality(TradesOf(p, c, side)) + 1
    <3>1. TradesOf(p, c, side) \subseteq paperFills
      BY DEF TradesOf
    <3>2. IsFiniteSet(TradesOf(p, c, side)) /\ fill \notin TradesOf(p, c, side)
      BY <2>1, <3>1, FS_Subset
    <3> HIDE DEF fill
    <3>. QED  BY <3>2, FS_AddElement, FS_CardinalityType
  <2>6. ASSUME NEW p \in Strategies, NEW c \in Codes
        PROVE  Cardinality(TradesOf(p, c, "BUY")') =
                 Cardinality(TradesOf(p, c, "SELL")') + IF c \in OwnedBy(p)' THEN 1 ELSE 0
    <3>1. Cardinality(TradesOf(p, c, "BUY")) =
            Cardinality(TradesOf(p, c, "SELL")) + IF c \in OwnedBy(p) THEN 1 ELSE 0
      BY DEF AccountInv, PositionsBalance
    <3> DEFINE bought == Cardinality(TradesOf(p, c, "BUY"))
               sold == Cardinality(TradesOf(p, c, "SELL"))
    <3>2. bought \in Nat /\ sold \in Nat
      BY <2>5
    <3>3. CASE p = here /\ c = it /\ s.side = "BUY"
      <4>1. c \notin OwnedBy(p) /\ c \in OwnedBy(p)'
        BY <2>4, <3>3, PortfolioConstants
      <4>2. TradesOf(p, c, "BUY")' = TradesOf(p, c, "BUY") \cup {fill}
            /\ TradesOf(p, c, "SELL")' = TradesOf(p, c, "SELL")
        BY <2>3, <3>3
      <4>3. (IF c \in OwnedBy(p) THEN 1 ELSE 0) = 0 /\ (IF c \in OwnedBy(p)' THEN 1 ELSE 0) = 1
        BY <4>1
      <4>4. bought = sold
        <5>1. bought = sold + 0
          BY <3>1, <4>3
        <5> HIDE DEF bought, sold
        <5>. QED  BY <3>2, <5>1
      <4>5. Cardinality(TradesOf(p, c, "BUY")') = Cardinality(TradesOf(p, c, "SELL")') + 1
        BY <2>5, <4>2, <4>4
      <4>. QED  BY <4>3, <4>5
    <3>4. CASE p = here /\ c = it /\ s.side = "SELL"
      <4>1. c \in OwnedBy(p) /\ c \notin OwnedBy(p)'
        BY <2>4, <3>4
      <4>2. TradesOf(p, c, "SELL")' = TradesOf(p, c, "SELL") \cup {fill}
            /\ TradesOf(p, c, "BUY")' = TradesOf(p, c, "BUY")
        BY <2>3, <3>4
      <4>3. (IF c \in OwnedBy(p) THEN 1 ELSE 0) = 1 /\ (IF c \in OwnedBy(p)' THEN 1 ELSE 0) = 0
        BY <4>1
      <4>4. Cardinality(TradesOf(p, c, "BUY")) = Cardinality(TradesOf(p, c, "SELL")) + 1
        BY <3>1, <4>3
      <4>5. Cardinality(TradesOf(p, c, "BUY")') = Cardinality(TradesOf(p, c, "SELL")')
            /\ Cardinality(TradesOf(p, c, "SELL")') \in Nat
        BY <2>5, <4>2, <4>4
      <4>. QED  BY <4>3, <4>5
    <3>5. CASE ~(p = here /\ c = it)
      <4>1. TradesOf(p, c, "SELL")' = TradesOf(p, c, "SELL")
            /\ TradesOf(p, c, "BUY")' = TradesOf(p, c, "BUY")
        BY <2>3, <3>5
      <4>2. c \in OwnedBy(p)' <=> c \in OwnedBy(p)
        BY <2>4, <3>5
      <4>. QED  BY <3>1, <4>1, <4>2
    <3>. QED  BY <1>4, <3>3, <3>4, <3>5
  <2>. QED  BY <2>2, <2>6 DEF PositionsBalance
<1>. QED  BY <1>9, <1>10, <1>12, <1>13, <1>14, <1>15 DEF AccountInv

\* An order that finds no fill stays pending or is cancelled.
LEMMA UnfilledKeepsAccounts ==
    ASSUME AccountInv, NEW i \in DOMAIN signals, Takes(i), Unfilled(i)
    PROVE  AccountInv'
<1>1. /\ paperOrders' = [paperOrders EXCEPT ![i] = IF Cancels(i) THEN "CANCELED" ELSE @]
      /\ UNCHANGED <<signals, paperPositions, paperFills, bars, deciding>>
      /\ scan # Unset /\ scan.stage = "orders" /\ i \in scan.todo
      /\ scan' = [scan EXCEPT !.todo = @ \ {i}]
  BY DEF Unfilled, Takes
<1>2. PortfolioTypeOK /\ DOMAIN signals = 1..Len(signals) /\ Len(signals) \in Nat
      /\ paperOrders \in [DOMAIN signals -> {"PENDING", "FILLED", "CANCELED", Unset}]
  BY RowsTyped DEF AccountInv
<1>3. paperOrders[i] = "PENDING"
  BY <1>1 DEF AccountInv, ScanKnows
<1>4. \A j \in DOMAIN signals : /\ j # i => paperOrders'[j] = paperOrders[j]
                                /\ paperOrders'[i] \in {"PENDING", "CANCELED"}
  BY <1>1, <1>2, <1>3
<1>5. scan' \in [stage : {"orders", "signals"}, todo : SUBSET Nat]
      /\ scan'.stage = "orders" /\ scan'.todo = scan.todo \ {i}
  BY <1>1, <1>2 DEF PortfolioTypeOK
<1>6. SignalsKept
  BY <1>1 DEF SignalsKept
<1>7. PositionsBalance'
  BY <1>1, <1>6, KeptWithoutFills
<1>8. PortfolioTypeOK'
  <2>1. paperOrders' \in Seq({"PENDING", "FILLED", "CANCELED", Unset})
        /\ DOMAIN paperOrders' = DOMAIN signals'
    BY <1>1, <1>2 DEF PortfolioTypeOK
  <2>. QED  BY <1>1, <1>2, <1>5, <2>1 DEF PortfolioTypeOK
<1>9. DecisionsInTime'
  BY <1>1 DEF AccountInv, DecisionsInTime, InTime, Hasty
<1>10. ScanKnows'
  <2>1. \A j \in scan'.todo : j \in DOMAIN signals /\ j # i /\ paperOrders[j] = "PENDING"
    BY <1>1, <1>5 DEF AccountInv, ScanKnows
  <2>. QED  BY <1>1, <1>4, <1>5, <2>1 DEF ScanKnows
<1>11. FillsOnce'
  BY <1>1, <1>3, <1>4 DEF AccountInv, FillsOnce
<1>12. OrdersInTime'
  <2>1. paperOrders[i] # Unset
    BY <1>3, PortfolioConstants
  <2>2. \A j \in DOMAIN signals' : paperOrders'[j] # Unset => paperOrders[j] # Unset
    BY <1>1, <1>4, <2>1
  <2>. QED  BY <1>1, <2>2 DEF AccountInv, OrdersInTime, InTime, Hasty
<1>. QED  BY <1>7, <1>8, <1>9, <1>10, <1>11, <1>12 DEF AccountInv

\* A SELL fills on a day after the position was bought.
LEMMA SellKeepsAccounts ==
    ASSUME AccountInv, NEW i \in DOMAIN signals, Sell(i)
    PROVE  AccountInv'
<1>1. CASE SellDays(i) = {}
  BY <1>1, UnfilledKeepsAccounts DEF Sell
<1>2. CASE SellDays(i) # {}
  <2>1. signals[i].side = "SELL" /\ Takes(i) /\ RecordFill(i, Earliest(SellDays(i)), Unset)
    BY <1>2 DEF Sell
  <2>2. signals[i] \in SignalRow
    BY RowsTyped DEF AccountInv
  <2>3. /\ signals[i].strategy \in Strategies /\ signals[i].code \in Codes
        /\ signals[i].born \in Nat /\ Validity[signals[i].strategy] \in Nat
    BY <2>2, PortfolioConstants DEF SignalRow
  <2>4. \A d \in SellDays(i) : d \in Nat
    <3>1. \A d \in SellDays(i) : d \in Candidates(i)
      BY DEF SellDays
    <3>2. Candidates(i) = Days(signals[i].code, signals[i].born + 1,
                               signals[i].born + Validity[signals[i].strategy])
      BY <2>1 DEF Candidates
    <3>3. \A d \in Candidates(i) :
             d \in (signals[i].born + 1)..(signals[i].born + Validity[signals[i].strategy])
      BY <3>2 DEF Days
    <3>. QED  BY <2>3, <3>1, <3>3
  <2>5. Earliest(SellDays(i)) \in SellDays(i)
    <3>1. PICK d \in SellDays(i) : \A e \in SellDays(i) : d <= e
      BY <1>2, <2>4, LeastDay
    <3>. QED  BY <3>1 DEF Earliest
  <2>6. signals[i].code \in OwnedBy(signals[i].strategy)
    BY <1>2, <2>3 DEF SellDays, OwnedBy
  <2>. QED  BY <2>1, <2>4, <2>5, <2>6, FillKeepsAccounts DEF Hasty
<1>. QED  BY <1>1, <1>2

\* A BUY of one session has only the first open after its signal.
LEMMA BuyKeepsAccounts ==
    ASSUME AccountInv, NEW i \in DOMAIN signals, NEW day, Buy(i, day)
    PROVE  AccountInv'
<1>1. CASE ~(day \in BuyDays(i) /\ Room(i))
  BY <1>1, UnfilledKeepsAccounts DEF Buy
<1>2. CASE day \in BuyDays(i) /\ Room(i)
  <2>1. signals[i].side = "BUY" /\ Takes(i) /\ RecordFill(i, day, day)
    BY <1>2 DEF Buy
  <2>2. signals[i] \in SignalRow
    BY RowsTyped DEF AccountInv
  <2>3. /\ signals[i].strategy \in Strategies /\ signals[i].code \in Codes
        /\ signals[i].born \in Nat /\ Validity[signals[i].strategy] \in Nat
    BY <2>2, PortfolioConstants DEF SignalRow
  <2> DEFINE first == signals[i].born + 1
             last == signals[i].born + Validity[signals[i].strategy]
             days == Days(signals[i].code, first, last)
  <2>4. \A d \in days : d \in first..last
    BY DEF Days
  <2>5. day \in Candidates(i)
    BY <1>2 DEF BuyDays
  <2>6. day \in days
    <3>1. CASE Candidates(i) = days
      BY <2>5, <3>1
    <3>2. CASE days # {} /\ Candidates(i) = {Earliest(days)}
      <4>1. \A d \in days : d \in Nat
        BY <2>3, <2>4
      <4> HIDE DEF days
      <4>2. PICK d \in days : \A e \in days : d <= e
        BY <3>2, <4>1, LeastDay
      <4>3. Earliest(days) \in days
        BY <4>2 DEF Earliest
      <4>. QED  BY <2>5, <3>2, <4>3
    <3>. QED  BY <3>1, <3>2 DEF Candidates
  <2>7. day \in Nat
    BY <2>3, <2>4, <2>6
  <2>8. Hasty(i) => day = first
    BY <2>3, <2>4, <2>6, PortfolioConstants DEF Hasty
  <2>9. signals[i].code \notin OwnedBy(signals[i].strategy)
    BY <1>2 DEF Room
  <2>. QED  BY <2>1, <2>7, <2>8, <2>9, FillKeepsAccounts
<1>. QED  BY <1>1, <1>2

-------------------------------------------------------------------------------
(* Decisions and the other steps of a scan.                                 *)

\* Two operators may both have found the signal proposed: the second writes its status
\* again, and the order that is there stays.
LEMMA DecideKeepsAccounts ==
    ASSUME AccountInv, NEW h \in Operators, Decide(h)
    PROVE  AccountInv'
<1> DEFINE i == deciding[h].signal
           approved == deciding[h].decision = "APPROVED"
<1>1. /\ deciding[h] # Unset
      /\ signals' = [signals EXCEPT ![i].status = deciding[h].decision,
                                    ![i].approved = IF approved THEN deciding[h].day ELSE @]
      /\ paperOrders' = [paperOrders EXCEPT ![i] = IF approved THEN Queued(i) ELSE @]
      /\ deciding' = [deciding EXCEPT ![h] = Unset]
      /\ UNCHANGED <<bars, paperPositions, paperFills, scan>>
  BY DEF Decide
<1>2. PortfolioTypeOK /\ signals \in Seq(SignalRow)
      /\ DOMAIN signals = 1..Len(signals) /\ Len(signals) \in Nat
      /\ \A j \in DOMAIN signals : signals[j] \in SignalRow
      /\ paperOrders \in [DOMAIN signals -> {"PENDING", "FILLED", "CANCELED", Unset}]
  BY RowsTyped DEF AccountInv
<1>3. i \in DOMAIN signals /\ InTime(i, deciding[h].day) /\ deciding[h].decision \in Decisions
  BY <1>1 DEF AccountInv, DecisionsInTime
<1>4. deciding[h].day \in Nat
  BY <1>3 DEF InTime
<1> DEFINE row == [signals[i] EXCEPT !.status = deciding[h].decision,
                                     !.approved = IF approved THEN deciding[h].day ELSE @]
<1>5. signals[i] \in SignalRow
  BY <1>2, <1>3
<1>6. row \in SignalRow
  BY <1>3, <1>4, <1>5 DEF SignalRow
<1>7. /\ row.strategy = signals[i].strategy /\ row.code = signals[i].code
      /\ row.side = signals[i].side /\ row.born = signals[i].born
      /\ row.approved = IF approved THEN deciding[h].day ELSE signals[i].approved
  BY <1>5 DEF SignalRow
<1>8. signals' = [signals EXCEPT ![i] = row]
  BY <1>1
<1>9. /\ signals' \in Seq(SignalRow) /\ DOMAIN signals' = DOMAIN signals /\ signals'[i] = row
      /\ \A j \in DOMAIN signals : j # i => signals'[j] = signals[j]
  <2> HIDE DEF row, i, SignalRow
  <2>. QED  BY <1>2, <1>3, <1>6, <1>8
<1>10. SignalsKept
  BY <1>7, <1>9 DEF SignalsKept
<1>11. \A j \in DOMAIN signals :
          paperOrders'[j] = IF j = i /\ approved THEN Queued(i) ELSE paperOrders[j]
  BY <1>1, <1>2, <1>3
<1>12. /\ Queued(i) \in {"PENDING", "FILLED", "CANCELED"}
       /\ Queued(i) = "FILLED" <=> paperOrders[i] = "FILLED"
       /\ paperOrders[i] = "PENDING" => Queued(i) = "PENDING"
  BY <1>2, <1>3, PortfolioConstants DEF Queued
<1>13. PositionsBalance' /\ \A f \in paperFills' : f.order \in DOMAIN signals
       /\ \A g \in paperFills' : Hasty(g.order)' => g.day = signals'[g.order].born + 1
  BY <1>1, <1>10, KeptWithoutFills
<1> HIDE DEF row
<1>14. PortfolioTypeOK'
  <2>1. paperOrders' \in Seq({"PENDING", "FILLED", "CANCELED", Unset})
        /\ DOMAIN paperOrders' = DOMAIN signals'
    <3> HIDE DEF i, approved
    <3>1. paperOrders' \in [DOMAIN signals -> {"PENDING", "FILLED", "CANCELED", Unset}]
      BY <1>1, <1>2, <1>3, <1>11, <1>12
    <3>. QED  BY <1>2, <1>9, <3>1
  <2>. QED  BY <1>1, <1>2, <1>9, <2>1 DEF PortfolioTypeOK, SignalRow
<1>15. DecisionsInTime'
  <2>1. deciding' \in [Operators -> [signal : Nat, decision : Decisions, day : Nat] \cup {Unset}]
        /\ \A g \in Operators : deciding'[g] # Unset => deciding[g] # Unset /\ deciding'[g] = deciding[g]
    BY <1>1 DEF AccountInv, DecisionsInTime
  <2>. QED  BY <1>9, <1>10, <2>1 DEF AccountInv, DecisionsInTime, InTime, Hasty, SignalsKept
<1>16. ASSUME NEW j \in DOMAIN signals, InTime(j, signals[j].approved)
       PROVE  InTime(j, signals[j].approved)'
  <2>1. CASE j = i /\ approved
    <3>1. signals'[j].approved = deciding[h].day
      BY <1>7, <1>9, <2>1
    <3>2. InTime(j, deciding[h].day)
      BY <1>3, <2>1
    <3>. QED  BY <1>10, <3>1, <3>2 DEF InTime, Hasty, SignalsKept
  <2>2. CASE ~(j = i /\ approved)
    <3>1. signals'[j].approved = signals[j].approved
      BY <1>7, <1>9, <2>2
    <3>. QED  BY <1>10, <1>16, <3>1 DEF InTime, Hasty, SignalsKept
  <2>. QED  BY <2>1, <2>2
<1>17. OrdersInTime'
  <2>1. ASSUME NEW j \in DOMAIN signals, paperOrders'[j] # Unset
        PROVE  InTime(j, signals[j].approved)'
    <3>1. CASE j = i /\ approved
      <4>1. signals'[j].approved = deciding[h].day
        BY <1>7, <1>9, <3>1
      <4>2. InTime(j, deciding[h].day)
        BY <1>3, <3>1
      <4>. QED  BY <1>10, <4>1, <4>2 DEF InTime, Hasty, SignalsKept
    <3>2. CASE ~(j = i /\ approved)
      <4>1. paperOrders[j] # Unset
        BY <1>11, <2>1, <3>2
      <4>. QED  BY <1>16, <4>1 DEF AccountInv, OrdersInTime
    <3>. QED  BY <3>1, <3>2
  <2>. QED  BY <1>9, <1>13, <2>1 DEF OrdersInTime
<1>18. ScanKnows'
  <2>1. ASSUME scan # Unset  PROVE scan.todo \subseteq DOMAIN signals
    BY <2>1 DEF AccountInv, ScanKnows
  <2>2. ASSUME scan # Unset, scan.stage = "orders", NEW j \in scan.todo
        PROVE  paperOrders'[j] = "PENDING"
    BY <1>11, <1>12, <2>1, <2>2 DEF AccountInv, ScanKnows
  <2>3. ASSUME scan # Unset, scan.stage = "signals", NEW j \in scan.todo
        PROVE  InTime(j, signals[j].approved)'
    <3>1. j \in DOMAIN signals /\ InTime(j, signals[j].approved)
      BY <2>3 DEF AccountInv, ScanKnows
    <3>. QED  BY <1>16, <3>1
  <2>. QED  BY <1>1, <1>9, <2>1, <2>2, <2>3 DEF ScanKnows
<1>19. FillsOnce'
  BY <1>1, <1>9, <1>11, <1>12 DEF AccountInv, FillsOnce
<1>. QED  BY <1>13, <1>14, <1>15, <1>17, <1>18, <1>19 DEF AccountInv

\* An exit is approved on the day it is made.
LEMMA SaveKeepsAccounts ==
    ASSUME AccountInv, NEW p \in Strategies, NEW c \in Codes, Save(p, c)
    PROVE  AccountInv'
<1> DEFINE exit == c \in OwnedBy(p)
           signal == [strategy |-> p, code |-> c, born |-> DayNow,
                      side |-> IF exit THEN "SELL" ELSE "BUY",
                      status |-> IF exit THEN "APPROVED" ELSE "PROPOSED",
                      approved |-> IF exit THEN DayNow ELSE Unset]
           new == Len(signals) + 1
<1>1. /\ signals' = Append(signals, signal)
      /\ scan' = [stage |-> "signals", todo |-> IF exit THEN {new} ELSE {}]
      /\ paperOrders' = Append(paperOrders, Unset)
      /\ UNCHANGED <<bars, paperPositions, paperFills, deciding>>
  BY DEF Save
<1>2. PortfolioTypeOK /\ signals \in Seq(SignalRow)
      /\ DOMAIN signals = 1..Len(signals) /\ Len(signals) \in Nat
      /\ \A j \in DOMAIN signals : signals[j] \in SignalRow
      /\ paperOrders \in [DOMAIN signals -> {"PENDING", "FILLED", "CANCELED", Unset}]
  BY RowsTyped DEF AccountInv
<1>3. DayNow \in Nat
  BY <1>2 DEF PortfolioTypeOK, DayNow
<1>4. signal \in SignalRow
  BY <1>3 DEF SignalRow, Decisions
<1>5. /\ signals' \in Seq(SignalRow)
      /\ DOMAIN signals' = DOMAIN signals \cup {new} /\ new \notin DOMAIN signals
      /\ signals'[new] = signal
      /\ \A j \in DOMAIN signals : signals'[j] = signals[j]
  <2> HIDE DEF signal, SignalRow
  <2>. QED  BY <1>1, <1>2, <1>4
<1>6. /\ paperOrders' \in Seq({"PENDING", "FILLED", "CANCELED", Unset})
      /\ DOMAIN paperOrders' = DOMAIN signals'
      /\ paperOrders'[new] = Unset
      /\ \A j \in DOMAIN signals : paperOrders'[j] = paperOrders[j]
  <2>1. paperOrders \in Seq({"PENDING", "FILLED", "CANCELED", Unset})
        /\ DOMAIN paperOrders = DOMAIN signals
    BY <1>2 DEF PortfolioTypeOK
  <2>2. Len(paperOrders) = Len(signals)
    BY <1>2, <2>1
  <2> HIDE DEF signal
  <2>. QED  BY <1>1, <1>2, <1>5, <2>1, <2>2
<1>7. SignalsKept
  BY <1>5 DEF SignalsKept
<1>8. PositionsBalance' /\ \A f \in paperFills' : f.order \in DOMAIN signals
      /\ \A g \in paperFills' : Hasty(g.order)' => g.day = signals'[g.order].born + 1
  BY <1>1, <1>7, KeptWithoutFills
<1>9. scan' \in [stage : {"orders", "signals"}, todo : SUBSET Nat]
      /\ scan'.stage = "signals" /\ scan'.todo = IF exit THEN {new} ELSE {}
  BY <1>1, <1>2
<1>10. exit => signals'[new].approved \in Nat /\ signals'[new].side = "SELL"
  BY <1>3, <1>5
<1> HIDE DEF signal, exit, new
<1>11. PortfolioTypeOK'
  BY <1>1, <1>2, <1>5, <1>6, <1>8, <1>9 DEF PortfolioTypeOK, SignalRow
<1>12. DecisionsInTime'
  BY <1>1, <1>5 DEF AccountInv, DecisionsInTime, InTime, Hasty
<1>13. OrdersInTime'
  <2>1. ASSUME NEW j \in DOMAIN signals', paperOrders'[j] # Unset
        PROVE  InTime(j, signals[j].approved)'
    <3>1. j \in DOMAIN signals /\ paperOrders[j] # Unset
      BY <1>5, <1>6, <2>1
    <3>. QED  BY <1>5, <3>1 DEF AccountInv, OrdersInTime, InTime, Hasty
  <2>. QED  BY <1>8, <2>1 DEF OrdersInTime
<1>14. ScanKnows'
  BY <1>5, <1>9, <1>10 DEF ScanKnows, InTime, Hasty
<1>15. FillsOnce'
  <2>1. paperOrders'[new] # "FILLED"
    BY <1>6, PortfolioConstants
  <2>. QED  BY <1>1, <1>5, <1>6, <1>8, <2>1 DEF AccountInv, FillsOnce
<1>. QED  BY <1>8, <1>11, <1>12, <1>13, <1>14, <1>15 DEF AccountInv

LEMMA QueueKeepsAccounts ==
    ASSUME AccountInv, QueueApproved
    PROVE  AccountInv'
<1>1. /\ paperOrders' = [i \in DOMAIN paperOrders |-> IF i \in scan.todo THEN Queued(i) ELSE paperOrders[i]]
      /\ scan # Unset /\ scan.stage = "signals" /\ scan' = Unset
      /\ UNCHANGED <<bars, signals, paperPositions, paperFills, deciding>>
  BY DEF QueueApproved
<1>2. PortfolioTypeOK
      /\ DOMAIN signals = 1..Len(signals) /\ Len(signals) \in Nat
      /\ paperOrders \in [DOMAIN signals -> {"PENDING", "FILLED", "CANCELED", Unset}]
  BY RowsTyped DEF AccountInv
<1>3. \A j \in DOMAIN signals :
        /\ paperOrders'[j] = IF j \in scan.todo THEN Queued(j) ELSE paperOrders[j]
        /\ Queued(j) \in {"PENDING", "FILLED", "CANCELED"}
        /\ Queued(j) = "FILLED" <=> paperOrders[j] = "FILLED"
  BY <1>1, <1>2, PortfolioConstants DEF Queued
<1>4. SignalsKept
  BY <1>1 DEF SignalsKept
<1>5. PositionsBalance'
  BY <1>1, <1>4, KeptWithoutFills
<1>6. PortfolioTypeOK'
  <2>1. paperOrders' \in [DOMAIN signals -> {"PENDING", "FILLED", "CANCELED", Unset}]
    BY <1>1, <1>2, <1>3
  <2>2. paperOrders' \in Seq({"PENDING", "FILLED", "CANCELED", Unset})
        /\ DOMAIN paperOrders' = DOMAIN signals'
    BY <1>1, <1>2, <2>1
  <2>. QED  BY <1>1, <1>2, <2>2 DEF PortfolioTypeOK
<1>7. DecisionsInTime' /\ ScanKnows'
  BY <1>1 DEF AccountInv, DecisionsInTime, InTime, Hasty, ScanKnows
<1>8. FillsOnce'
  BY <1>1, <1>3 DEF AccountInv, FillsOnce
<1>9. OrdersInTime'
  <2>1. ASSUME NEW j \in DOMAIN signals, paperOrders'[j] # Unset
        PROVE  InTime(j, signals[j].approved)
    BY <1>1, <1>3, <2>1 DEF AccountInv, OrdersInTime, ScanKnows
  <2>. QED  BY <1>1, <2>1 DEF AccountInv, OrdersInTime, InTime, Hasty
<1>. QED  BY <1>5, <1>6, <1>7, <1>8, <1>9 DEF AccountInv

\* "Valid until" of a BUY with one session is on the morning of its day.
LEMMA CheckIsInTime ==
    ASSUME AccountInv, NEW h \in Operators, NEW i \in DOMAIN signals,
           NEW decision \in Decisions, Check(h, i, decision)
    PROVE  DecisionsInTime'
<1>1. /\ deciding' = [deciding EXCEPT ![h] = [signal |-> i, decision |-> decision, day |-> DayNow]]
      /\ DayNow <= Deadline(i)
      /\ UNCHANGED signals
  BY DEF Check
<1>2. PortfolioTypeOK /\ signals[i] \in SignalRow /\ DOMAIN signals = 1..Len(signals)
      /\ Len(signals) \in Nat
  BY RowsTyped DEF AccountInv
<1>3. DayNow \in Nat /\ i \in Nat
  BY <1>2 DEF PortfolioTypeOK, DayNow
<1>4. InTime(i, DayNow)
  <2>1. signals[i].born \in Nat /\ signals[i].strategy \in Strategies
    BY <1>2 DEF SignalRow
  <2>2. Hasty(i) => Deadline(i) = signals[i].born
    BY <2>1, PortfolioConstants DEF Hasty, Deadline
  <2>. QED  BY <1>1, <1>3, <2>2 DEF InTime
<1>5. deciding' \in [Operators -> [signal : Nat, decision : Decisions, day : Nat] \cup {Unset}]
  BY <1>1, <1>3 DEF AccountInv, DecisionsInTime
<1>6. ASSUME NEW g \in Operators, deciding'[g] # Unset
      PROVE  deciding'[g].signal \in DOMAIN signals /\ InTime(deciding'[g].signal, deciding'[g].day)
  <2>1. CASE g = h
    <3>1. deciding'[g].signal = i /\ deciding'[g].day = DayNow
      BY <1>1, <2>1 DEF AccountInv, DecisionsInTime
    <3>. QED  BY <1>4, <3>1
  <2>2. CASE g # h
    BY <1>1, <1>6, <2>2 DEF AccountInv, DecisionsInTime
  <2>. QED  BY <2>1, <2>2
<1>. QED  BY <1>1, <1>5, <1>6 DEF DecisionsInTime, InTime, Hasty

LEMMA AccountInvStays ==
    AccountInv /\ [PortfolioNext]_portfolioVars => AccountInv'
<1> SUFFICES ASSUME AccountInv, [PortfolioNext]_portfolioVars  PROVE AccountInv'
  OBVIOUS
<1>1. PortfolioTypeOK /\ DecisionsInTime /\ ScanKnows
  BY DEF AccountInv
<1>2. ASSUME NEW opens \in [Codes -> Opens], Open(opens)  PROVE AccountInv'
  <2>1. UNCHANGED <<signals, paperOrders, paperPositions, paperFills, scan, deciding>>
        /\ bars' = Append(bars, opens)
    BY <1>2 DEF Open
  <2>2. bars' \in Seq([Codes -> Opens]) /\ scan' \in [stage : {"orders", "signals"}, todo : SUBSET Nat] \cup {Unset}
    BY <1>1, <2>1 DEF PortfolioTypeOK
  <2>3. ScanKnows' /\ DecisionsInTime'
    BY <1>1, <2>1 DEF ScanKnows, DecisionsInTime, InTime, Hasty
  <2>. QED  BY <2>1, <2>2, <2>3, TablesAlone
<1>3. CASE BeginScan
  <2>1. UNCHANGED <<bars, signals, paperOrders, paperPositions, paperFills, deciding>>
        /\ scan' = [stage |-> "orders", todo |-> {i \in DOMAIN paperOrders : paperOrders[i] = "PENDING"}]
    BY <1>3 DEF BeginScan
  <2>2. DOMAIN paperOrders = DOMAIN signals /\ DOMAIN signals \subseteq Nat
    BY <1>1, RowsTyped DEF PortfolioTypeOK
  <2>3. bars' \in Seq([Codes -> Opens]) /\ scan' \in [stage : {"orders", "signals"}, todo : SUBSET Nat] \cup {Unset}
    BY <1>1, <2>1, <2>2 DEF PortfolioTypeOK
  <2>4. ScanKnows' /\ DecisionsInTime'
    BY <1>1, <2>1, <2>2 DEF ScanKnows, DecisionsInTime, InTime, Hasty
  <2>. QED  BY <2>1, <2>3, <2>4, TablesAlone
<1>4. CASE StopScan
  <2>1. UNCHANGED <<bars, signals, paperOrders, paperPositions, paperFills, deciding>> /\ scan' = Unset
    BY <1>4 DEF StopScan
  <2>2. bars' \in Seq([Codes -> Opens]) /\ ScanKnows' /\ DecisionsInTime'
    BY <1>1, <2>1 DEF PortfolioTypeOK, ScanKnows, DecisionsInTime, InTime, Hasty
  <2>. QED  BY <2>1, <2>2, TablesAlone
<1>5. ASSUME NEW h \in Operators, NEW i \in DOMAIN signals, NEW decision \in Decisions,
             Check(h, i, decision)
      PROVE  AccountInv'
  <2>1. UNCHANGED <<bars, signals, paperOrders, paperPositions, paperFills, scan>>
    BY <1>5 DEF Check
  <2>2. bars' \in Seq([Codes -> Opens]) /\ ScanKnows'
        /\ scan' \in [stage : {"orders", "signals"}, todo : SUBSET Nat] \cup {Unset}
    BY <1>1, <2>1 DEF PortfolioTypeOK, ScanKnows, InTime, Hasty
  <2>3. DecisionsInTime'
    BY <1>5, CheckIsInTime
  <2>. QED  BY <2>1, <2>2, <2>3, TablesAlone
<1>6. CASE UNCHANGED portfolioVars
  <2>1. UNCHANGED <<bars, signals, paperOrders, paperPositions, paperFills, scan, deciding>>
    BY <1>6 DEF portfolioVars
  <2>2. bars' \in Seq([Codes -> Opens]) /\ ScanKnows' /\ DecisionsInTime'
        /\ scan' \in [stage : {"orders", "signals"}, todo : SUBSET Nat] \cup {Unset}
    BY <1>1, <2>1 DEF PortfolioTypeOK, ScanKnows, DecisionsInTime, InTime, Hasty
  <2>. QED  BY <2>1, <2>2, TablesAlone
<1>. QED
  BY <1>2, <1>3, <1>4, <1>5, <1>6, SellKeepsAccounts, BuyKeepsAccounts, DecideKeepsAccounts,
     SaveKeepsAccounts, QueueKeepsAccounts DEF PortfolioNext

LEMMA AccountInvAlways ==
    PortfolioSpec => []AccountInv
<1>. QED  BY AccountInvHolds, AccountInvStays, PTL DEF PortfolioSpec

\* However many operators decide, and wherever scans die: no order fills twice, an order
\* is FILLED exactly when its fill is there, and every position is explained by fills.
THEOREM AccountsAreExplained ==
    PortfolioSpec => []FillsExplainAccounts
<1>1. ASSUME AccountInv  PROVE FillsExplainAccounts
  <2>1. ASSUME NEW i \in DOMAIN paperOrders
        PROVE  Cardinality({f \in paperFills : f.order = i}) =
                 IF paperOrders[i] = "FILLED" THEN 1 ELSE 0
    <3>1. i \in DOMAIN signals
      BY <1>1 DEF AccountInv, PortfolioTypeOK
    <3>2. CASE paperOrders[i] = "FILLED"
      <4>1. PICK f \in paperFills : f.order = i
        BY <1>1, <3>1, <3>2 DEF AccountInv, FillsOnce
      <4>2. {g \in paperFills : g.order = i} = {f}
        BY <1>1, <4>1 DEF AccountInv, FillsOnce
      <4>. QED  BY <3>2, <4>2, FS_Singleton
    <3>3. CASE paperOrders[i] # "FILLED"
      <4>1. {g \in paperFills : g.order = i} = {}
        BY <1>1, <3>1, <3>3 DEF AccountInv, FillsOnce
      <4>. QED  BY <3>3, <4>1, FS_EmptySet
    <3>. QED  BY <3>2, <3>3
  <2>. QED  BY <1>1, <2>1 DEF FillsExplainAccounts, AccountInv, PositionsBalance
<1>. QED  BY <1>1, AccountInvAlways, PTL

\* A BUY of one session is filled at the first open after its signal, approved before it.
THEOREM OneSessionBuysStayFresh ==
    PortfolioSpec => []OneSessionBuysAreFresh
<1>1. ASSUME AccountInv  PROVE OneSessionBuysAreFresh
  <2>1. SUFFICES ASSUME NEW f \in paperFills, signals[f.order].side = "BUY",
                        signals[f.order].strategy \in OneSession
                 PROVE  f.day = signals[f.order].born + 1 /\ signals[f.order].approved < f.day
    BY DEF OneSessionBuysAreFresh
  <2>2. f.order \in DOMAIN signals /\ Hasty(f.order)
    BY <1>1, <2>1 DEF AccountInv, PortfolioTypeOK, Hasty
  <2>3. paperOrders[f.order] # Unset
    BY <1>1, <2>2, PortfolioConstants DEF AccountInv, FillsOnce
  <2>4. /\ f.day = signals[f.order].born + 1
        /\ signals[f.order].approved \in Nat
        /\ signals[f.order].approved <= signals[f.order].born
    BY <1>1, <2>1, <2>2, <2>3 DEF AccountInv, OrdersInTime, InTime
  <2>5. signals[f.order].born \in Nat
    BY <1>1, <2>2, RowsTyped DEF AccountInv, SignalRow
  <2>. QED  BY <2>4, <2>5
<1>. QED  BY <1>1, AccountInvAlways, PTL

\* The rows of the portfolio keep their types, and every order has its signal.
THEOREM PortfolioTypeCorrect ==
    PortfolioSpec => []PortfolioTypeOK
<1>1. AccountInv => PortfolioTypeOK
  BY DEF AccountInv
<1>. QED  BY <1>1, AccountInvAlways, PTL
===============================================================================
