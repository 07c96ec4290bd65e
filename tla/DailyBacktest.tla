---------------------------- MODULE DailyBacktest ----------------------------
(***************************************************************************)
(* The day of a backtest of Chinese strategies (backtest_engine.py): fill   *)
(* what earlier days left pending at the opening, drop what had its day, and *)
(* take the day's signals; for single stocks, beside the codes another       *)
(* component has reserved, and for groups of two legs (pairs).               *)
(*                                                                         *)
(* Prices, money and the strategies are left out: an opening is at a limit   *)
(* or free, cash and entry gaps decide among the BUYs, and a strategy may    *)
(* sell what is held and buy any stock.                                      *)
(***************************************************************************)
EXTENDS Integers, FiniteSets

CONSTANTS
    Stocks,       \* codes of single stocks
    Pairs,        \* keys of groups
    LegsOf,       \* the two codes of a group: [long, short]
    LastDay,
    MaxStrategy, MaxTotal,
    OtherTrades,  \* what the component that ran before bought and sold: [day, code, side]
    Never

ASSUME DailyConstants == LastDay \in Nat

Openings == {"none", "limit up", "limit down", "free"}
Legs == UNION {{LegsOf[g].long, LegsOf[g].short} : g \in Pairs}

VARIABLES
    date,
    opening,  \* how each code opened today: at a limit, free, or without a bar
    owned,    \* the day each stock was bought
    pending,  \* [code, side, made]
    groups,   \* the day each group was opened
    intents   \* [key, action, made]

dailyVars == <<date, opening, owned, pending, groups, intents>>

DailyInit ==
    /\ date = 0
    /\ opening = [c \in Stocks \cup Legs |-> "none"]
    /\ owned = [c \in Stocks |-> Never] /\ pending = {}
    /\ groups = [g \in Pairs |-> Never] /\ intents = {}

Present(since) == {x \in DOMAIN since : since[x] # Never}

\* Codes the other component holds after its trades up to the day; outside the days of
\* its first and its last trade nothing is reserved, whatever it still holds.
Reserved(day) ==
    LET days == {t.day : t \in OtherTrades}
        codes == {t.code : t \in OtherTrades}
        Last(c) == {t \in OtherTrades : t.code = c /\ t.day <= day}
    IN IF \E first, last \in days : first <= day /\ day <= last
       THEN {c \in codes : \E t \in Last(c) : t.side = "BUY" /\ \A u \in Last(c) : u.day <= t.day}
       ELSE {}

-------------------------------------------------------------------------------
(* Single stocks.                                                           *)

Due(day) == {s \in pending : s.made < day}

\* SELLs come first; a stock bought today, or opened at its lower limit, is not sold.
Sellable(day, at) ==
    {s \in Due(day) : s.side = "SELL" /\ s.code \in Present(owned)
                      /\ owned[s.code] < day /\ at[s.code] \in {"limit up", "free"}}

Buyable(day, at, book) ==
    {s \in Due(day) : s.side = "BUY" /\ s.code \notin Present(book) \cup Reserved(day)
                      /\ at[s.code] \in {"limit down", "free"}}

\* BUYs are filled one after another while both limits leave room.
Fits(bought, book, day) ==
    LET after == Present(book) \cup {s.code : s \in bought}
    IN bought # {} => /\ Cardinality(after) <= MaxStrategy
                      /\ Cardinality(after \cup Reserved(day)) <= MaxTotal

\* Mutant: an exit has one day, like an entry.
RollAll(left, day, book) == {s \in left : s.made >= day}

\* An entry has one day; an exit stands while there is something to sell.
Roll(left, day, book) ==
    {s \in left : IF s.side = "BUY" THEN s.made >= day ELSE s.code \in Present(book)}

\* A signal takes the place of an earlier one of its code and side.
Signal(kept, codes, side, day) ==
    {s \in kept : s.side # side \/ s.code \notin codes}
        \cup [code : codes, side : {side}, made : {day}]

TradeStocks(day, at) ==
    LET sold == Sellable(day, at)
        kept == [c \in Stocks |-> IF \E s \in sold : s.code = c THEN Never ELSE owned[c]]
    IN \E bought \in SUBSET Buyable(day, at, kept) :
         /\ Fits(bought, kept, day)
         /\ LET book == [c \in Stocks |-> IF \E s \in bought : s.code = c THEN day ELSE kept[c]]
            IN /\ owned' = book
               /\ \E sells \in SUBSET Present(book), buys \in SUBSET Stocks :
                    pending' = Signal(Signal(Roll(pending \ (sold \cup bought), day, book),
                                             sells, "SELL", day), buys, "BUY", day)

-------------------------------------------------------------------------------
(* Groups: both legs at one opening or none.                                *)

\* An opening group buys its long leg and sells its short one; a closing one reverses.
Executable(g, opens, at) ==
    LET buy  == IF opens THEN LegsOf[g].long ELSE LegsOf[g].short
        sell == IF opens THEN LegsOf[g].short ELSE LegsOf[g].long
    IN at[buy] \in {"limit down", "free"} /\ at[sell] \in {"limit up", "free"}

Closable(day, at) ==
    {n \in intents : n.action = "CLOSE" /\ n.made < day /\ n.key \in Present(groups)
                     /\ groups[n.key] < day /\ Executable(n.key, FALSE, at)}

Openable(day, at, book) ==
    {n \in intents : n.action = "OPEN" /\ n.made < day /\ n.key \notin Present(book)
                     /\ Executable(n.key, TRUE, at)}

\* Whatever a group's two legs need, the cash may not cover: closing buys the short leg back.
TradeGroups(day, at) ==
    \E closed \in SUBSET Closable(day, at) :
      LET kept == [g \in Pairs |-> IF \E n \in closed : n.key = g THEN Never ELSE groups[g]]
      IN \E opened \in SUBSET Openable(day, at, kept) :
           LET book == [g \in Pairs |-> IF \E n \in opened : n.key = g THEN day ELSE kept[g]]
               rolled == {n \in intents \ (closed \cup opened) : n.action = "CLOSE" \/ n.made >= day}
           IN /\ opened # {} => Cardinality(Present(book)) <= MaxStrategy
              /\ groups' = book
              /\ \E closes \in SUBSET Present(book), opens \in SUBSET (Pairs \ Present(book)) :
                   intents' = {n \in rolled : n.key \notin closes \cup opens}
                              \cup [key : closes, action : {"CLOSE"}, made : {day}]
                              \cup [key : opens, action : {"OPEN"}, made : {day}]

-------------------------------------------------------------------------------
NextDay ==
    /\ date < LastDay
    /\ date' = date + 1
    /\ opening' \in [Stocks \cup Legs -> Openings]
    /\ TradeStocks(date + 1, opening')
    /\ TradeGroups(date + 1, opening')

DailySpec == DailyInit /\ [][NextDay]_dailyVars

-------------------------------------------------------------------------------
DailyTypeOK ==
    /\ date \in 0..LastDay
    /\ opening \in [Stocks \cup Legs -> Openings]
    /\ owned \in [Stocks -> 1..LastDay \cup {Never}]
    /\ pending \subseteq [code : Stocks, side : {"BUY", "SELL"}, made : 1..LastDay]
    /\ groups \in [Pairs -> 1..LastDay \cup {Never}]
    /\ intents \subseteq [key : Pairs, action : {"OPEN", "CLOSE"}, made : 1..LastDay]

\* A daily signal is filled at the next opening (docs/backtesting.md:58), and an exit at
\* the first one that lets it be filled: until its position has gone it is pending, and
\* it is a limit, a missing bar or the day of the purchase that has kept it there.
ExitsTakeTheFirstOpening ==
    [][/\ \A s \in pending : s.side = "SELL" =>
            \/ owned'[s.code] \in {Never, date'}
            \/ /\ opening'[s.code] \in {"none", "limit down"}
               /\ \E t \in pending' : t.side = "SELL" /\ t.code = s.code
       /\ \A n \in intents : n.action = "CLOSE" =>
            \/ groups'[n.key] \in {Never, date'}
            \/ \E m \in intents' : m.action = "CLOSE" /\ m.key = n.key]_dailyVars
===============================================================================
