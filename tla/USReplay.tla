------------------------------ MODULE USReplay ------------------------------
(***************************************************************************)
(* The historical replay of the US strategy (us_momentum_backtest.py),     *)
(* whose result qualifies a release: one session after another, corporate  *)
(* actions, stops, what the last month-end ordered, stops again, marks, and *)
(* at a month-end the decision for the next session.  An exception throws   *)
(* the whole replay away.                                                  *)
(*                                                                         *)
(* Money and share counts are left out: which orders the cash allows is a   *)
(* choice, and an action's ratio, cost fraction or dividend moves a stop as *)
(* it moves the price, so prices are in the units of the position they meet. *)
(***************************************************************************)
EXTENDS Integers, Sequences, FiniteSets

CONSTANTS
    Issues,
    LastSession,
    MonthEnds,
    Members,      \* the universe of each session
    Actions,      \* by day, its verified actions in the order of their securities and ids
    MaxPositions,
    Prices, StopDistance,
    Flat, Halted, Missing

Bar == {b \in [open : Prices, low : Prices] : b.low <= b.open}
Quotes == Bar \cup {Halted, Missing}
Positions == [stop : Int, leaving : BOOLEAN]
ActionsOn(day) == [day : {day}, issue : Issues,
                   kind : {"split", "merger", "spinoff", "settlement"}, into : Issues]
NoOrders == [sells |-> {}, buys |-> {}]

\* A stop is below the price it is bought at: us_momentum_backtest.py:579-592.
ASSUME ReplayConstants ==
    /\ Prices \subseteq Int
    /\ StopDistance \in Nat \ {0}
    /\ LastSession \in Nat
    /\ \A day \in 1..LastSession : Actions[day] \in Seq(ActionsOn(day))
    /\ \A day \in 1..LastSession : Members[day] \subseteq Issues

VARIABLES
    session,   \* the session last replayed
    quotes,    \* its raw bars, documented halts and gaps
    held,
    orders,    \* what is pending for the next session
    undecided, \* a month-end whose decision is still to be made
    failed     \* an exception ended the replay

replayVars == <<session, quotes, held, orders, undecided, failed>>

ReplayInit ==
    /\ session = 0
    /\ quotes = [i \in Issues |-> Missing]
    /\ held = [i \in Issues |-> Flat]
    /\ orders = NoOrders
    /\ undecided = FALSE
    /\ failed = FALSE

HeldIn(book) == {i \in Issues : book[i] # Flat}
Without(book, gone) == [i \in Issues |-> IF i \in gone THEN Flat ELSE book[i]]
Traded(q) == {i \in Issues : q[i] \in Bar}

-------------------------------------------------------------------------------
(* Corporate actions, one after another.                                    *)

\* What a position in one security becomes in another: a merger into a security that
\* is not in the universe, and such a child, must be sold.
Arriving(a, position) ==
    [position EXCEPT !.leaving =
        CASE a.kind = "merger"  -> @ \/ a.into \notin Members[a.day]
          [] a.kind = "spinoff" -> a.into \notin Members[a.day]
          [] OTHER              -> @]

\* A split or stock dividend may name a successor; a successor that is held raises.
Apply(a, done) ==
    IF done.raised \/ done.book[a.issue] = Flat THEN done
    ELSE IF a.kind = "settlement"
         THEN [done EXCEPT !.book[a.issue] = Flat]
         ELSE IF done.book[a.into] # Flat THEN [done EXCEPT !.raised = TRUE]
         ELSE LET moved == [done.book EXCEPT ![a.into] = Arriving(a, done.book[a.issue])]
              IN [done EXCEPT !.book = IF a.kind = "spinoff" THEN moved
                                       ELSE Without(moved, {a.issue})]

Applied(book, day) ==
    LET done[n \in 0..Len(Actions[day])] ==
            IF n = 0 THEN [book |-> book, raised |-> FALSE]
            ELSE Apply(Actions[day][n], done[n - 1])
    IN done[Len(Actions[day])]

-------------------------------------------------------------------------------
(* The session of one day.                                                  *)

\* Opened at the stop or below it.
Gapped(book, q) == {i \in HeldIn(book) \cap Traded(q) : q[i].open <= book[i].stop}

Forced(book, q) == {i \in HeldIn(book) \cap Traded(q) : book[i].leaving}

\* Mutant: a low exactly at the stop is no hit.
DippedBelow(book, q) ==
    {i \in HeldIn(book) \cap Traded(q) : q[i].open > book[i].stop /\ q[i].low < book[i].stop}

\* Fell to the stop after the opening, on the day it was bought too.
Dipped(book, q) ==
    {i \in HeldIn(book) \cap Traded(q) : q[i].open > book[i].stop /\ q[i].low <= book[i].stop}

Room(book) == MaxPositions - Cardinality(HeldIn(book))

Bought(book, q, bought) ==
    [i \in Issues |-> IF i \in bought
                      THEN [stop |-> q[i].open - StopDistance, leaving |-> FALSE] ELSE book[i]]

\* Stops at the opening, then exits of what may not stay.
AfterExits(book, q) ==
    LET left == Without(book, Gapped(book, q)) IN Without(left, Forced(left, q))

\* A held security needs a row or a documented halt, an order to sell it a row.
Unexecutable(book, q) ==
    \/ \E i \in HeldIn(book) : q[i] = Missing
    \/ \E i \in orders.sells \cap HeldIn(AfterExits(book, q)) : i \notin Traded(q)

\* The BUYs that find room, in the order of their strength and as far as cash goes; one
\* that is reached needs a row.
MayBuy(book, q, bought) ==
    LET wanted == orders.buys \ HeldIn(book)
    IN /\ bought \subseteq wanted \cap Traded(q)
       /\ bought # {} => Cardinality(bought) <= Room(book)
       /\ wanted \subseteq Traded(q) \/ Cardinality(bought) >= Room(book)

Raise ==
    /\ failed' = TRUE
    /\ UNCHANGED <<session, quotes, held, orders, undecided>>

Trade ==
    /\ ~failed /\ ~undecided
    /\ session < LastSession
    /\ \E start \in {Applied(held, session + 1)} :
       \E q \in [Issues -> Quotes] :
       \E sold \in {Without(AfterExits(start.book, q), orders.sells)} :
          \/ /\ \/ start.raised
                \/ Unexecutable(start.book, q)
                \/ Room(sold) > 0 /\ ~(orders.buys \ HeldIn(sold) \subseteq Traded(q))
             /\ Raise
          \/ /\ ~start.raised /\ ~Unexecutable(start.book, q)
             /\ \E bought \in SUBSET orders.buys :
                  /\ MayBuy(sold, q, bought)
                  /\ LET after == Bought(sold, q, bought)
                     IN held' = Without(after, Dipped(after, q))
             /\ quotes' = q
             /\ session' = session + 1
             /\ undecided' = (session + 1 \in MonthEnds)
             /\ orders' = NoOrders
             /\ UNCHANGED failed

\* Mutant: only what the strategy says is sold.
StaysOutside(book, day) == {}

\* Positions that are no longer in the universe: the strategy does not judge them.
Outside(book, day) == HeldIn(book) \ Members[day]

\* The decision at the close of a month-end: the strategy sells what it holds, or buys
\* what it does not; the membership exits are added to it.
Decide ==
    /\ ~failed /\ undecided
    /\ \E sells \in SUBSET HeldIn(held), buys \in SUBSET (Members[session] \ HeldIn(held)) :
         orders' = [sells |-> sells \cup Outside(held, session), buys |-> buys]
    /\ undecided' = FALSE
    /\ UNCHANGED <<session, quotes, held, failed>>

\* A universe or its coverage that does not validate.
Refuse == ~failed /\ undecided /\ Raise

ReplayNext == Trade \/ Decide \/ Refuse

ReplaySpec == ReplayInit /\ [][ReplayNext]_replayVars

-------------------------------------------------------------------------------
ReplayTypeOK ==
    /\ session \in 0..LastSession
    /\ quotes \in [Issues -> Quotes]
    /\ held \in [Issues -> Positions \cup {Flat}]
    /\ orders \in [sells : SUBSET Issues, buys : SUBSET Issues]
    /\ undecided \in BOOLEAN /\ failed \in BOOLEAN

\* After every session of a replay that stands, a position was halted with a record of
\* it or traded above its stop all day, whether it was kept, bought at the opening or
\* came by an action of the day (run_backtest: "checked against raw Open/Low on every
\* session", instead of "silently carrying a stale mark").
EveryPositionIsWatched ==
    ~failed => \A i \in HeldIn(held) :
                  quotes[i] = Halted \/ (i \in Traded(quotes) /\ quotes[i].low > held[i].stop)

\* Nothing outside the universe of a month-end, and nothing an action marked, outlives
\* the next session it can be traded in: the strategy does not judge the one and knows
\* nothing of the other.  The exit of the first is an order, so it also holds when the
\* security is converted, or another one into it, on the day the order falls due; its
\* successor is then one that came that day.
OutsidersLeave ==
    [][session' # session =>
         /\ \A i \in HeldIn(held') : held'[i].leaving => quotes'[i] = Halted
         /\ session \in MonthEnds =>
               HeldIn(held') \cap (HeldIn(held) \ Members[session]) = {}]_replayVars
=============================================================================
