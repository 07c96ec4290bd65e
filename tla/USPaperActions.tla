---------------------------- MODULE USPaperActions ----------------------------
(***************************************************************************)
(* Corporate actions and the money of the paper sleeve (us_paper.py).  Each *)
(* tick first applies the actions the head release knows for the session,   *)
(* in one transaction: rows are inserted, settled in order, and dividends   *)
(* that are due are paid.  A tick whose transaction is refused goes no      *)
(* further; the others go on to orders and stops.                           *)
(*                                                                         *)
(* Prices and ratios are small integers.  A stop may be hit at any time, so  *)
(* sales need no order here; orders to buy are those of the day.            *)
(* Tickers are the identities' own.                                         *)
(***************************************************************************)
EXTENDS Integers, FiniteSets, FiniteSetsExt, Functions

CONSTANTS
    Securities,
    Actions,      \* what releases publish: [id, security, kind, day, sound, num, den,
                  \*   cash, pay, other]; ids are in the order of action_id
    Releases,     \* the number of releases that become the head, one after the other
    LastDay,
    Price,        \* of every fill
    Commission,   \* of every fill
    Wanted,       \* shares a BUY asks for
    Portfolio,    \* what is held on the first day, bought on earlier ones,
    InitialCash,  \*   and the cash there is beside it
    Plans,        \* sets of securities a day may have orders to buy for
    MaxPositions,
    Absent

Days == 1..LastDay
ActionIds == {a.id : a \in Actions}
Settled == {"APPLIED", "APPLIED_NO_POSITION"}
Kinds == {"SPLIT", "CASH_DIVIDEND", "TERMINATION", "STOCK_MERGER", "SPINOFF", "TICKER_CHANGE"}

\* The terms the code checks before it settles an action are there when it is sound
\* (us_paper.py:885-969), and an amount in cash is never negative.
ASSUME ActionsConstants ==
    /\ LastDay \in Nat \ {0} /\ Releases \in Nat \ {0}
    /\ {Price, Commission, InitialCash} \subseteq Int /\ Wanted \in Nat
    /\ Portfolio \subseteq Securities
    /\ \A buys \in Plans : buys \subseteq Securities
    /\ ActionIds = 1..Cardinality(ActionIds) /\ Cardinality(ActionIds) \in Nat
    /\ \A a \in Actions :
          /\ a.kind \in Kinds /\ a.sound \in BOOLEAN
          /\ a.security \in Securities /\ a.other \in Securities
          /\ a.num \in Nat /\ a.den \in Nat \ {0} /\ a.pay \in Nat
          /\ a.cash \in Nat \cup {Absent}
          /\ a.sound /\ a.kind \in {"CASH_DIVIDEND", "TERMINATION"} => a.cash \in Nat
    /\ Absent \notin [terms : Actions, release : Nat,
                      status : Settled \cup {"PENDING", "BLOCKED"}]

VARIABLES
    day,
    phase,        \* "morning" up to the opening, the "capture" of opening quotes, "day"
    head,         \* the admitted release
    ticking,      \* a tick has applied the actions and goes on to orders
    rows,         \* us_paper_corporate_actions, by action_id
    book          \* what the transaction changes: [cash, ledger, owed, held, buys, account]

VARIABLE fills    \* us_paper_fills

actionVars == <<day, phase, head, ticking, rows, book, fills>>

ActionsInit ==
    /\ day = 1 /\ phase = "morning" /\ head = 1
    /\ ticking = FALSE
    /\ rows = [i \in ActionIds |-> Absent]
    /\ \E buys \in Plans :
          book = [cash |-> InitialCash, ledger |-> {}, owed |-> {},
                  held |-> [s \in Securities |-> IF s \in Portfolio THEN Wanted ELSE 0],
                  buys |-> buys, account |-> "RUNNING"]
    /\ fills = {}

-------------------------------------------------------------------------------
(* Settling one action: operators from a book to a book.                    *)

\* Mutant: the money is moved without an entry.
CreditUnposted(b, key, amount) == [b EXCEPT !.cash = @ + amount]

\* The entry's key makes the credit idempotent.
Credit(b, key, amount) ==
    IF \E e \in b.ledger : e.key = key
    THEN b
    ELSE [b EXCEPT !.ledger = @ \cup {[key |-> key, amount |-> amount]},
                   !.cash = @ + amount]

\* The fraction of a share is paid in cash.
Exact(b, a) == b.held[a.security] * a.num
Whole(b, a) == Exact(b, a) \div a.den
HasFraction(b, a) == Exact(b, a) % a.den # 0
PayFraction(b, a) ==
    IF HasFraction(b, a)
    THEN Credit(b, <<"CASH_IN_LIEU", a.id>>, ((Exact(b, a) % a.den) * a.cash) \div a.den)
    ELSE b

Unpriced(b, a) == HasFraction(b, a) /\ a.cash = Absent

CancelOrders(b, s) ==
    [b EXCEPT !.buys = @ \ {s}]

\* The shares go from a.security to another identity.
ReplaceShares(b, a) ==
    [CancelOrders(b, a.security) EXCEPT !.held[a.security] = 0, !.held[a.other] = Whole(b, a)]

Taken(b, a) == b.held[a.other] > 0

Settlement(b, a) == [book |-> b, safe |-> TRUE]
Unsafe(b) == [book |-> b, safe |-> FALSE]

\* _apply_share_ratio_action: the fraction is paid before a successor is looked up.
ShareRatio(b, a) ==
    LET paid == PayFraction(b, a)
    IN IF Unpriced(b, a) THEN Unsafe(b)
       ELSE IF Whole(b, a) > 0 /\ a.other # a.security
       THEN IF Taken(b, a) THEN Unsafe(paid) ELSE Settlement(ReplaceShares(paid, a), a)
       ELSE Settlement([paid EXCEPT !.held[a.security] = Whole(b, a)], a)

StockMerger(b, a) ==
    IF Taken(b, a) \/ Unpriced(b, a) THEN Unsafe(b)
    ELSE Settlement(ReplaceShares(PayFraction(b, a), a), a)

Spinoff(b, a) ==
    IF Taken(b, a) \/ Unpriced(b, a) THEN Unsafe(b)
    ELSE Settlement([PayFraction(b, a) EXCEPT !.held[a.other] = Whole(b, a)], a)

Dividend(b, a) ==
    Settlement([b EXCEPT !.owed = @ \cup {[id |-> a.id, amount |-> b.held[a.security] * a.cash,
                                           pay |-> a.pay, paid |-> FALSE]}], a)

\* CASH_MERGER, DELISTING and BANKRUPTCY.
Termination(b, a) ==
    Settlement([CancelOrders(Credit(b, <<"TERMINATION", a.id>>, b.held[a.security] * a.cash),
                             a.security) EXCEPT !.held[a.security] = 0], a)

Economic(b, a) ==
    CASE a.kind = "SPLIT" -> ShareRatio(b, a)
      [] a.kind = "CASH_DIVIDEND" -> Dividend(b, a)
      [] a.kind = "TERMINATION" -> Termination(b, a)
      [] a.kind = "STOCK_MERGER" -> StockMerger(b, a)
      [] a.kind = "SPINOFF" -> Spinoff(b, a)
      [] a.kind = "TICKER_CHANGE" -> Settlement(b, a)

Degrade(b) == [b EXCEPT !.account = IF @ = "KILLED" THEN @ ELSE "DATA_DEGRADED"]

\* A late or unsound action is blocked whether or not the security is held.
StatusOf(b, a) ==
    IF a.day < day \/ ~a.sound \/ phase # "morning" THEN "BLOCKED"
    ELSE IF b.held[a.security] = 0 THEN "APPLIED_NO_POSITION"
    ELSE IF Economic(b, a).safe THEN "APPLIED" ELSE "BLOCKED"

\* What an action that is found unsafe has changed by then is kept.
Effect(b, a) ==
    IF a.day < day \/ ~a.sound \/ phase # "morning" THEN Degrade(b)
    ELSE IF b.held[a.security] = 0 THEN b
    ELSE IF Economic(b, a).safe THEN Economic(b, a).book ELSE Degrade(Economic(b, a).book)

-------------------------------------------------------------------------------
(* The transaction of a tick.                                               *)

\* The command hands over what the head release holds for the session.
Batch == {a \in Actions : a.day = day}

\* The hash of a row covers its terms and the release they came with; an id that is
\* there with another hash raises, and all is rolled back.
ActionsConflict ==
    \E a \in Batch : rows[a.id] # Absent /\ <<rows[a.id].terms, rows[a.id].release>> # <<a, head>>

Pending(table, a) == table[a.id].status = "PENDING"

Inserted ==
    [i \in ActionIds |->
        IF rows[i] = Absent /\ \E a \in Batch : a.id = i
        THEN [terms |-> CHOOSE a \in Batch : a.id = i, release |-> head, status |-> "PENDING"]
        ELSE rows[i]]

\* The pending rows in the order of their ids: the book before row n is settled.
Before ==
    LET before[n \in 1..(Cardinality(ActionIds) + 1)] ==
            IF n = 1 THEN book
            ELSE IF Inserted[n - 1] # Absent /\ Pending(Inserted, Inserted[n - 1].terms)
                 THEN Effect(before[n - 1], Inserted[n - 1].terms)
                 ELSE before[n - 1]
    IN before

SettledRows ==
    [i \in ActionIds |->
        IF Inserted[i] # Absent /\ Pending(Inserted, Inserted[i].terms)
        THEN [Inserted[i] EXCEPT !.status = StatusOf(Before[i], Inserted[i].terms)]
        ELSE Inserted[i]]

\* Mutant: what fell due while the worker was down stays unpaid.
FallsDueToday(r) == ~r.paid /\ r.pay = day

FallsDue(r) == ~r.paid /\ r.pay <= day

\* _pay_due_receivables; each receivable has a key of its own.
Pay(b) ==
    LET due == {r \in b.owed : FallsDue(r)}
    IN [b EXCEPT
           !.owed = {IF r \in due THEN [r EXCEPT !.paid = TRUE] ELSE r : r \in @},
           !.ledger = @ \cup {[key |-> <<"DIVIDEND_PAYMENT", r.id>>, amount |-> r.amount] : r \in due},
           !.cash = @ + SumFunction([r \in due |-> r.amount])]

\* apply_corporate_actions.
Apply ==
    /\ ~ticking
    /\ ~ActionsConflict
    /\ rows' = SettledRows
    /\ book' = Pay(Before[Cardinality(ActionIds) + 1])
    /\ ticking' = TRUE
    /\ UNCHANGED <<day, phase, head, fills>>

-------------------------------------------------------------------------------
(* Orders and stops (_fill_order), after the opening of the session.        *)

HeldNow == {s \in Securities : book.held[s] > 0}

Fill(s, side, quantity) ==
    /\ fills' = fills \cup {[security |-> s, day |-> day, phase |-> phase, side |-> side,
                             quantity |-> quantity]}
    /\ UNCHANGED <<day, phase, head, ticking, rows>>

Affordable(cash) == {q \in 1..Wanted : q * Price + Commission <= cash}

Buy(s) ==
    /\ ticking /\ phase = "capture"
    /\ s \in book.buys
    /\ IF \/ book.account # "RUNNING" \/ s \in HeldNow
          \/ Cardinality(HeldNow) >= MaxPositions \/ Affordable(book.cash) = {}
       THEN /\ book' = CancelOrders(book, s)
            /\ UNCHANGED <<day, phase, head, ticking, rows, fills>>
       ELSE LET q == Max(Affordable(book.cash))
            IN /\ book' = [CancelOrders(book, s) EXCEPT !.held[s] = q,
                                                        !.cash = @ - q * Price - Commission]
               /\ Fill(s, "BUY", q)

\* An order to sell or a stop.  The one opening quote of a security
\* is processed before anything is bought by it.
Sell(s) ==
    /\ ticking /\ phase # "morning"
    /\ s \in HeldNow
    /\ phase = "capture" => ~\E f \in fills : f.security = s /\ f.day = day
    /\ book' = [book EXCEPT !.held[s] = 0,
                            !.cash = @ + book.held[s] * Price - Commission]
    /\ Fill(s, "SELL", book.held[s])

EndTick ==
    /\ ticking
    /\ ticking' = FALSE
    /\ UNCHANGED <<day, phase, head, rows, book, fills>>

-------------------------------------------------------------------------------
(* The day.                                                                *)

PhaseEnds ==
    /\ phase # "day"
    /\ phase' = IF phase = "morning" THEN "capture" ELSE "day"
    /\ ticking' = FALSE
    /\ UNCHANGED <<day, head, rows, book, fills>>

\* The next day, for which orders may have been planned after the close.
NextDay(buys) ==
    /\ phase = "day" /\ day < LastDay
    /\ day' = day + 1
    /\ phase' = "morning"
    /\ ticking' = FALSE
    /\ book' = [book EXCEPT !.buys = IF book.account = "KILLED" THEN {} ELSE buys]
    /\ UNCHANGED <<head, rows, fills>>

\* A release that rolls the head forward is admitted.
Roll ==
    /\ head < Releases
    /\ head' = head + 1
    /\ UNCHANGED <<day, phase, ticking, rows, book, fills>>

KillSwitch ==
    /\ book.account # "KILLED"
    /\ book' = [book EXCEPT !.account = "KILLED", !.buys = {}]
    /\ UNCHANGED <<day, phase, head, ticking, rows, fills>>

ActionsNext ==
    \/ Apply \/ EndTick \/ PhaseEnds \/ Roll \/ KillSwitch
    \/ \E s \in Securities : Buy(s) \/ Sell(s)
    \/ \E buys \in Plans : NextDay(buys)

ActionsSpec == ActionsInit /\ [][ActionsNext]_actionVars

-------------------------------------------------------------------------------
Entry == [key : {"CASH_IN_LIEU", "TERMINATION", "DIVIDEND_PAYMENT"} \X ActionIds, amount : Nat]
Receivable == [id : ActionIds, amount : Nat, pay : Nat, paid : BOOLEAN]
Fills ==
    [security : Securities, day : Days, phase : {"capture", "day"}, side : {"BUY", "SELL"}, quantity : Nat]

ActionsTypeOK ==
    /\ day \in Days /\ phase \in {"morning", "capture", "day"}
    /\ head \in 1..Releases
    /\ ticking \in BOOLEAN
    /\ \A i \in ActionIds : rows[i] = Absent \/
          /\ rows[i].terms \in Actions /\ rows[i].release \in 1..Releases
          /\ rows[i].status \in Settled \cup {"BLOCKED"}
    /\ book.cash \in Int
    /\ book.ledger \subseteq Entry /\ book.owed \subseteq Receivable
    /\ book.held \in [Securities -> Nat]
    /\ book.buys \subseteq Securities
    /\ book.account \in {"RUNNING", "DATA_DEGRADED", "KILLED"}
    /\ fills \subseteq Fills

Proceeds(f) ==
    IF f.side = "BUY" THEN -(f.quantity * Price) - Commission ELSE f.quantity * Price - Commission

\* The account's cash is what its fills and its cash ledger add up to, whatever was
\* replayed, blocked half-way, paid late or sold in between: the reconciliation the
\* qualification makes at the end (docs/us-momentum-production.md:320).
CashIsExplained ==
    book.cash = InitialCash + SumFunction([f \in fills |-> Proceeds(f)])
                            + SumFunction([e \in book.ledger |-> e.amount])

\* A tick that goes on to orders has paid every dividend that is due, on its day or on
\* the first day the worker is up again, and none before.
DueDividendsArePaid ==
    \A r \in book.owed :
        /\ ticking /\ r.pay <= day => r.paid
        /\ r.paid => r.pay <= day

\* Cited as a claim of the docs (us-momentum-production.md:323, "Company actions are
\* applied before orders each session"): shares that were held overnight are not sold on
\* a day on which a verified action on them has not been applied.
ActionsComeBeforeOrders ==
    [][\A f \in fills' \ fills :
          (f.side = "SELL" /\ ~\E b \in fills : b.security = f.security /\ b.day = day)
          => \A a \in Batch : a.security = f.security /\ a.sound =>
                 rows[a.id] # Absent /\ rows[a.id].status \in Settled]_actionVars

===============================================================================
