--------------------------- MODULE USReplayProofs ---------------------------
(***************************************************************************)
(* What the historical replay promises of every position, for any quotes,  *)
(* universes, actions and decisions: EveryPositionIsWatched and             *)
(* OutsidersLeave.                                                          *)
(*                                                                         *)
(* A day's actions are a recursive function over their sequence: that it    *)
(* unfolds, and keeps the type of the book, goes by the least number at     *)
(* which it would not.                                                      *)
(***************************************************************************)
EXTENDS USReplay, WellFoundedInduction, TLAPS

-------------------------------------------------------------------------------
(* The day's actions.                                                       *)

LEMMA LeastNatural ==
    ASSUME NEW T, T \subseteq Nat, T # {}
    PROVE  \E x \in T : \A y \in T : x <= y
<1> DEFINE below == OpToRel(<, Nat)
<1>1. IsWellFoundedOn(below, Nat)
  BY NatLessThanWellFounded, Zenon
<1>2. \A x, y \in Nat : y < x => <<y, x>> \in below
  BY SMT DEF OpToRel
<1> HIDE DEF below
<1>3. PICK x \in T : \A y \in T : ~ (<<y, x>> \in below)
  BY <1>1, WFMin
<1>4. ASSUME NEW y \in T  PROVE x <= y
  <2>1. x \in Nat /\ y \in Nat
    OBVIOUS
  <2>2. ~(y < x)
    BY <1>2, <1>3, <2>1
  <2>. QED  BY <2>1, <2>2
<1>. QED  BY <1>4

\* `done` goes through the first n actions of the day, from `start`.
Unfolds(done, acts, start, n) ==
    done = [k \in 0..n |-> IF k = 0 THEN start ELSE Apply(acts[k], done[k - 1])]

LEMMA ActionsUnfold ==
    ASSUME NEW acts, NEW start, NEW last \in Nat
    PROVE  \E done : Unfolds(done, acts, start, last)
<1> DEFINE Bad == {n \in 0..last : ~ \E done : Unfolds(done, acts, start, n)}
<1>1. SUFFICES Bad = {}
  OBVIOUS
<1>2. SUFFICES ASSUME Bad # {}  PROVE FALSE
  OBVIOUS
<1>3. PICK n \in Bad : \A y \in Bad : n <= y
  <2>1. Bad \subseteq Nat
    OBVIOUS
  <2> HIDE DEF Bad
  <2>. QED  BY <1>2, <2>1, LeastNatural
<1>4. n \in 0..last /\ ~ \E done : Unfolds(done, acts, start, n)
  BY <1>3
<1>5. CASE n = 0
  <2> DEFINE d == [k \in 0..0 |-> start]
  <2>1. Unfolds(d, acts, start, 0)
    BY DEF Unfolds
  <2>. QED  BY <1>4, <1>5, <2>1
<1>6. CASE n # 0
  <2>1. n - 1 \in 0..last /\ n - 1 \notin Bad
    BY <1>3, <1>4, <1>6
  <2>2. PICK e : Unfolds(e, acts, start, n - 1)
    BY <2>1
  <2> DEFINE d == [k \in 0..n |-> IF k = n THEN Apply(acts[n], e[n - 1]) ELSE e[k]]
             f == [k \in 0..n |-> IF k = 0 THEN start ELSE Apply(acts[k], d[k - 1])]
  <2>3. ASSUME NEW k \in 0..n  PROVE d[k] = f[k]
    <3>1. CASE k = n
      <4>1. d[n - 1] = e[n - 1]
        BY <1>4, <1>6
      <4>. QED  BY <3>1, <4>1, <1>4, <1>6
    <3>2. CASE k # n
      <4>1. k \in 0..(n - 1) /\ d[k] = e[k]
        BY <3>2, <1>4
      <4>2. k # 0 => d[k - 1] = e[k - 1]
        BY <4>1, <1>4
      <4>3. e[k] = IF k = 0 THEN start ELSE Apply(acts[k], e[k - 1])
        BY <2>2, <4>1 DEF Unfolds
      <4>. QED  BY <4>1, <4>2, <4>3
    <3>. QED  BY <3>1, <3>2
  <2>4. d = f
    BY <2>3
  <2>5. Unfolds(d, acts, start, n)
    BY <2>4 DEF Unfolds
  <2> HIDE DEF d
  <2>. QED  BY <1>4, <2>5
<1>. QED  BY <1>5, <1>6

Books == [Issues -> Positions \cup {Flat}]
Midday == [book : Books, raised : BOOLEAN]

LEMMA ApplyTyped ==
    ASSUME NEW day, NEW a \in ActionsOn(day), NEW done \in Midday
    PROVE  Apply(a, done) \in Midday
<1>1. done.book \in Books /\ done.raised \in BOOLEAN
  BY DEF Midday
<1>2. a.issue \in Issues /\ a.into \in Issues
  BY DEF ActionsOn
<1>3. CASE done.raised \/ done.book[a.issue] = Flat
  BY <1>3 DEF Apply
<1>4. CASE ~(done.raised \/ done.book[a.issue] = Flat)
  <2>1. done.book[a.issue] \in Positions
    BY <1>1, <1>2, <1>4 DEF Books
  <2>2. Arriving(a, done.book[a.issue]) \in Positions
    <3>1. ASSUME NEW p \in Positions  PROVE Arriving(a, p) \in Positions
      <4>1. Arriving(a, p) = [p EXCEPT !.leaving = Arriving(a, p).leaving]
        BY DEF Arriving, Positions
      <4>2. Arriving(a, p).leaving \in BOOLEAN
        BY DEF Arriving, Positions, ActionsOn
      <4>. QED  BY <4>1, <4>2 DEF Positions
    <3>. QED  BY <2>1, <3>1
  <2> DEFINE moved == [done.book EXCEPT ![a.into] = Arriving(a, done.book[a.issue])]
  <2>3. moved \in Books
    BY <1>1, <2>2 DEF Books
  <2>4. Without(moved, {a.issue}) \in Books
    BY <2>3 DEF Books, Without
  <2>5. [done.book EXCEPT ![a.issue] = Flat] \in Books
    BY <1>1 DEF Books
  <2>6. [done EXCEPT !.book[a.issue] = Flat] \in Midday
    BY <1>1, <2>5 DEF Midday
  <2>7. [done EXCEPT !.raised = TRUE] \in Midday
    BY <1>1 DEF Midday
  <2>8. [done EXCEPT !.book = IF a.kind = "spinoff" THEN moved
                              ELSE Without(moved, {a.issue})] \in Midday
    BY <1>1, <2>3, <2>4 DEF Midday
  <2>. QED  BY <1>4, <2>6, <2>7, <2>8 DEF Apply
<1>. QED  BY <1>3, <1>4

\* Whatever the actions of a day do, they leave a book.
LEMMA AppliedTyped ==
    ASSUME NEW day \in 1..LastSession, NEW book \in Books
    PROVE  Applied(book, day) \in Midday
<1> DEFINE acts  == Actions[day]
           start == [book |-> book, raised |-> FALSE]
           last  == Len(acts)
           done  == CHOOSE d : d = [n \in 0..last |-> IF n = 0 THEN start
                                                      ELSE Apply(acts[n], d[n - 1])]
<1>1. acts \in Seq(ActionsOn(day)) /\ last \in Nat
  BY ReplayConstants
<1>2. Applied(book, day) = done[last]
  BY DEF Applied
<1>3. start \in Midday
  BY DEF Midday
<1>4. Unfolds(done, acts, start, last)
  <2> HIDE DEF acts, start, last
  <2>1. PICK e : Unfolds(e, acts, start, last)
    BY <1>1, ActionsUnfold
  <2>2. e = [n \in 0..last |-> IF n = 0 THEN start ELSE Apply(acts[n], e[n - 1])]
    BY <2>1 DEF Unfolds
  <2>3. done = [n \in 0..last |-> IF n = 0 THEN start ELSE Apply(acts[n], done[n - 1])]
    BY <2>2
  <2>. QED  BY <2>3 DEF Unfolds
<1> HIDE DEF acts, start, last, done
<1> DEFINE Bad == {n \in 0..last : done[n] \notin Midday}
<1>5. Bad = {}
  <2>1. SUFFICES ASSUME Bad # {}  PROVE FALSE
    OBVIOUS
  <2>2. PICK n \in Bad : \A y \in Bad : n <= y
    <3>1. Bad \subseteq Nat
      OBVIOUS
    <3> HIDE DEF Bad
    <3>. QED  BY <2>1, <3>1, LeastNatural
  <2>3. n \in 0..last /\ done[n] \notin Midday
    BY <2>2
  <2>4. n # 0
    BY <1>3, <1>4, <2>3 DEF Unfolds
  <2>5. n \in 1..last /\ n - 1 \in 0..last /\ n - 1 \notin Bad
    BY <1>1, <2>2, <2>3, <2>4
  <2>6. done[n - 1] \in Midday
    BY <2>5
  <2>7. acts[n] \in ActionsOn(day)
    BY <1>1, <2>5 DEF last
  <2>8. done[n] = Apply(acts[n], done[n - 1])
    BY <1>4, <2>3, <2>4 DEF Unfolds
  <2>. QED  BY <2>3, <2>6, <2>7, <2>8, ApplyTyped
<1>. QED  BY <1>1, <1>2, <1>5

-------------------------------------------------------------------------------
(* The session.                                                             *)

\* What a decision still owes to the positions that are outside the universe.
OutsidersAreOrdered ==
    session \in MonthEnds /\ ~undecided /\ ~failed =>
        /\ Outside(held, session) \subseteq orders.sells
        /\ orders.buys \cap Outside(held, session) = {}

ReplayInv ==
    /\ session \in 0..LastSession
    /\ held \in Books
    /\ OutsidersAreOrdered
    /\ EveryPositionIsWatched

LEMMA ReplayInvHolds ==
    ReplayInit => ReplayInv
<1>. QED
  BY ReplayConstants
  DEF ReplayInit, ReplayInv, Books, OutsidersAreOrdered, EveryPositionIsWatched, Outside, HeldIn

\* What is held after a session that was replayed to its end: a BUY of the day above its
\* stop, or what came through the actions, the stops, the exits and the orders.
LEMMA WhatASessionLeaves ==
    ASSUME NEW book \in Books, NEW q \in [Issues -> Quotes], NEW bought \in SUBSET Issues,
           NEW sells, NEW sold, sold = Without(AfterExits(book, q), sells),
           bought \subseteq Traded(q),
           \A i \in HeldIn(book) : q[i] # Missing,
           NEW after, after = Bought(sold, q, bought),
           NEW i \in HeldIn(Without(after, Dipped(after, q)))
    PROVE  /\ i \in Issues
           /\ Without(after, Dipped(after, q))[i] = after[i]
           /\ i \in bought \/ (i \in HeldIn(book) /\ i \notin sells)
           /\ after[i].leaving => q[i] = Halted
           /\ q[i] = Halted \/ (i \in Traded(q) /\ q[i].low > after[i].stop)
<1> DEFINE final == Without(after, Dipped(after, q))
<1>1. i \in Issues /\ final[i] # Flat
  BY DEF HeldIn
<1>2. i \notin Dipped(after, q) /\ final[i] = after[i] /\ i \in HeldIn(after)
  BY <1>1 DEF Without, HeldIn
<1>3. \A j \in Traded(q) : /\ j \in Issues
                           /\ q[j].open \in Int /\ q[j].low \in Int /\ q[j].open \in Prices
  <2>1. \A b \in Bar : b.open \in Prices /\ b.low \in Prices
    BY DEF Bar
  <2>. QED  BY <2>1, ReplayConstants DEF Traded
<1>4. CASE i \in bought
  <2>1. after[i] = [stop |-> q[i].open - StopDistance, leaving |-> FALSE]
    BY <1>1, <1>4 DEF Bought
  <2>2. i \in Traded(q) /\ ~ after[i].leaving /\ after[i].stop = q[i].open - StopDistance
    BY <1>4, <2>1
  <2>3. q[i].open > after[i].stop /\ after[i].stop \in Int
    BY <1>3, <2>2, ReplayConstants
  <2>4. ~(q[i].low <= after[i].stop)
    BY <1>2, <2>2, <2>3 DEF Dipped
  <2>5. q[i].low > after[i].stop
    BY <1>3, <2>2, <2>3, <2>4
  <2>. QED  BY <1>1, <1>2, <1>4, <2>2, <2>5
<1>5. CASE i \notin bought
  <2> DEFINE left == Without(book, Gapped(book, q))
  <2>1. after[i] = sold[i] /\ sold[i] # Flat
    BY <1>1, <1>2, <1>5 DEF Bought
  <2>2. /\ i \notin sells /\ sold[i] = AfterExits(book, q)[i]
        /\ AfterExits(book, q)[i] # Flat
    BY <1>1, <2>1 DEF Without
  <2>3. AfterExits(book, q) = Without(left, Forced(left, q))
    BY DEF AfterExits
  <2>4. /\ i \notin Forced(left, q) /\ AfterExits(book, q)[i] = left[i] /\ left[i] # Flat
    BY <1>1, <2>2, <2>3 DEF Without
  <2>5. i \notin Gapped(book, q) /\ left[i] = book[i] /\ book[i] # Flat
    BY <1>1, <2>4 DEF Without
  <2>6. i \in HeldIn(book) /\ i \in HeldIn(left) /\ after[i] = book[i] /\ left[i] = after[i]
    BY <1>1, <2>1, <2>2, <2>4, <2>5 DEF HeldIn
  <2>7. after[i].stop \in Int
    BY <1>1, <2>5, <2>6 DEF Books, Positions
  <2>8. i \in Traded(q) \/ q[i] = Halted
    <3>1. q[i] \in Quotes /\ q[i] # Missing
      BY <1>1, <2>6
    <3>. QED  BY <1>1, <3>1 DEF Quotes, Traded
  <2>9. CASE i \in Traded(q)
    <3>1. ~ after[i].leaving
      BY <2>4, <2>6, <2>9 DEF Forced
    <3>2. ~(q[i].open <= after[i].stop)
      BY <2>5, <2>6, <2>9 DEF Gapped
    <3>3. q[i].open > after[i].stop
      BY <1>3, <2>7, <2>9, <3>2
    <3>4. ~(q[i].low <= after[i].stop)
      BY <1>2, <2>9, <3>3 DEF Dipped
    <3>5. q[i].low > after[i].stop
      BY <1>3, <2>7, <2>9, <3>4
    <3>. QED  BY <1>1, <1>2, <2>2, <2>6, <2>9, <3>1, <3>5
  <2>. QED  BY <1>1, <1>2, <2>2, <2>6, <2>8, <2>9
<1>. QED  BY <1>4, <1>5

LEMMA BooksStay ==
    ASSUME NEW book \in Books, NEW gone
    PROVE  Without(book, gone) \in Books
<1>. QED  BY DEF Books, Without

LEMMA BuysAreBooked ==
    ASSUME NEW book \in Books, NEW q \in [Issues -> Quotes], NEW bought, bought \subseteq Traded(q)
    PROVE  Bought(book, q, bought) \in Books
<1>1. \A b \in Bar : b.open \in Int
  BY ReplayConstants DEF Bar
<1>2. \A i \in bought : [stop |-> q[i].open - StopDistance, leaving |-> FALSE] \in Positions
  BY <1>1, ReplayConstants DEF Traded, Positions
<1>. QED  BY <1>2 DEF Bought, Books

\* A session is replayed to its end from one book, one set of quotes and the BUYs that
\* found room, or ends the replay.
Played(start, q, sold, bought, after) ==
    /\ start \in Midday /\ q \in [Issues -> Quotes]
    /\ start = Applied(held, session + 1)
    /\ sold = Without(AfterExits(start.book, q), orders.sells)
    /\ \A i \in HeldIn(start.book) : q[i] # Missing
    /\ bought \subseteq orders.buys /\ bought \subseteq Traded(q)
    /\ after = Bought(sold, q, bought)
    /\ held' = Without(after, Dipped(after, q))
    /\ quotes' = q

LEMMA TradePlays ==
    ASSUME ReplayInv, Trade, ~failed'
    PROVE  /\ ~failed /\ ~undecided
           /\ session' = session + 1 /\ session' \in 0..LastSession
           /\ undecided' = (session' \in MonthEnds)
           /\ \E start, q, sold, bought, after : Played(start, q, sold, bought, after)
<1>1. session + 1 \in 1..LastSession /\ held \in Books
  BY ReplayConstants DEF ReplayInv, Trade
<1> DEFINE start == Applied(held, session + 1)
<1>2. start \in Midday
  BY <1>1, AppliedTyped
<1>3. PICK q \in [Issues -> Quotes] :
        \E sold \in {Without(AfterExits(start.book, q), orders.sells)} :
          \/ /\ \/ start.raised
                \/ Unexecutable(start.book, q)
                \/ Room(sold) > 0 /\ ~(orders.buys \ HeldIn(sold) \subseteq Traded(q))
             /\ Raise
          \/ /\ ~start.raised /\ ~Unexecutable(start.book, q)
             /\ \E bought \in SUBSET orders.buys :
                  /\ MayBuy(sold, q, bought)
                  /\ LET after == Bought(sold, q, bought)
                     IN held' = Without(after, Dipped(after, q))
             /\ quotes' = q
             /\ session' = session + 1
             /\ undecided' = (session + 1 \in MonthEnds)
             /\ orders' = NoOrders
             /\ UNCHANGED failed
  BY DEF Trade
<1> HIDE DEF start
<1> DEFINE sold == Without(AfterExits(start.book, q), orders.sells)
<1>4. /\ ~Unexecutable(start.book, q)
      /\ \E bought \in SUBSET orders.buys :
           /\ MayBuy(sold, q, bought)
           /\ held' = Without(Bought(sold, q, bought), Dipped(Bought(sold, q, bought), q))
      /\ quotes' = q
      /\ session' = session + 1
      /\ undecided' = (session + 1 \in MonthEnds)
  BY <1>3 DEF Raise
<1>5. PICK bought \in SUBSET orders.buys :
        /\ MayBuy(sold, q, bought)
        /\ held' = Without(Bought(sold, q, bought), Dipped(Bought(sold, q, bought), q))
  BY <1>4
<1>6. bought \subseteq Traded(q)
  BY <1>5 DEF MayBuy
<1>7. \A i \in HeldIn(start.book) : q[i] # Missing
  BY <1>4 DEF Unexecutable
<1>8. Played(start, q, sold, bought, Bought(sold, q, bought))
  BY <1>2, <1>4, <1>5, <1>6, <1>7 DEF Played, start
<1>9. ~failed /\ ~undecided
  BY DEF Trade
<1>. QED  BY <1>1, <1>4, <1>8, <1>9

\* The facts of a played session, about the book it leaves.
LEMMA PlayedBook ==
    ASSUME NEW start, NEW q, NEW sold, NEW bought, NEW after,
           Played(start, q, sold, bought, after)
    PROVE  /\ held' \in Books
           /\ \A i \in HeldIn(held') :
                 /\ i \in bought \/ i \notin orders.sells
                 /\ held'[i].leaving => quotes'[i] = Halted
                 /\ quotes'[i] = Halted
                      \/ (i \in Traded(quotes') /\ quotes'[i].low > held'[i].stop)
<1>1. /\ start.book \in Books /\ q \in [Issues -> Quotes] /\ bought \in SUBSET Issues
      /\ bought \subseteq Traded(q)
  BY DEF Played, Midday, Traded
<1>2. sold \in Books
  BY <1>1, BooksStay DEF Played, AfterExits
<1>3. after \in Books
  BY <1>1, <1>2, BuysAreBooked DEF Played
<1>4. held' \in Books
  BY <1>3, BooksStay DEF Played
<1>5. ASSUME NEW i \in HeldIn(held')
      PROVE  /\ i \in bought \/ i \notin orders.sells
             /\ held'[i].leaving => quotes'[i] = Halted
             /\ quotes'[i] = Halted
                  \/ (i \in Traded(quotes') /\ quotes'[i].low > held'[i].stop)
  <2>1. i \in HeldIn(Without(after, Dipped(after, q)))
    BY DEF Played
  <2>2. /\ Without(after, Dipped(after, q))[i] = after[i]
        /\ i \in bought \/ (i \in HeldIn(start.book) /\ i \notin orders.sells)
        /\ after[i].leaving => q[i] = Halted
        /\ q[i] = Halted \/ (i \in Traded(q) /\ q[i].low > after[i].stop)
    BY <1>1, <2>1, WhatASessionLeaves DEF Played
  <2>3. held' = Without(after, Dipped(after, q)) /\ quotes' = q
    BY DEF Played
  <2>. QED  BY <2>2, <2>3
<1>. QED  BY <1>4, <1>5

LEMMA ReplayInvStays ==
    ReplayInv /\ [ReplayNext]_replayVars => ReplayInv'
<1> SUFFICES ASSUME ReplayInv, [ReplayNext]_replayVars  PROVE ReplayInv'
  OBVIOUS
<1> USE DEF Raise
<1>1. CASE Trade /\ ~failed'
  <2>1. PICK start, q, sold, bought, after : Played(start, q, sold, bought, after)
    BY <1>1, TradePlays
  <2>2. /\ held' \in Books
        /\ \A i \in HeldIn(held') :
              quotes'[i] = Halted
                \/ (i \in Traded(quotes') /\ quotes'[i].low > held'[i].stop)
    BY <2>1, PlayedBook
  <2>3. session' \in 0..LastSession /\ undecided' = (session' \in MonthEnds)
    BY <1>1, TradePlays
  <2>4. HeldIn(held)' = HeldIn(held') /\ Traded(quotes)' = Traded(quotes')
    BY DEF HeldIn, Traded
  <2>5. EveryPositionIsWatched'
    BY <2>2 DEF EveryPositionIsWatched, HeldIn, Traded
  <2>6. OutsidersAreOrdered'
    BY <2>3 DEF OutsidersAreOrdered
  <2>. QED  BY <2>2, <2>3, <2>5, <2>6 DEF ReplayInv
<1>2. CASE (Trade \/ Refuse) /\ failed'
  <2>1. UNCHANGED <<session, held>>
    BY <1>2 DEF Trade, Refuse, ReplayInv
  <2>. QED  BY <1>2, <2>1 DEF ReplayInv, OutsidersAreOrdered, EveryPositionIsWatched
<1>3. CASE Decide
  <2>1. PICK sells \in SUBSET HeldIn(held), buys \in SUBSET (Members[session] \ HeldIn(held)) :
          orders' = [sells |-> sells \cup Outside(held, session), buys |-> buys]
    BY <1>3 DEF Decide
  <2>2. UNCHANGED <<session, quotes, held, failed>>
    BY <1>3 DEF Decide
  <2>3. OutsidersAreOrdered'
    BY <2>1, <2>2 DEF OutsidersAreOrdered, Outside
  <2>. QED  BY <2>2, <2>3 DEF ReplayInv, EveryPositionIsWatched, HeldIn, Traded
<1>4. CASE UNCHANGED replayVars
  BY <1>4 DEF replayVars, ReplayInv, OutsidersAreOrdered, EveryPositionIsWatched, HeldIn, Traded,
     Outside
<1>5. Refuse => failed'
  BY DEF Refuse
<1>. QED  BY <1>1, <1>2, <1>3, <1>4, <1>5 DEF ReplayNext

LEMMA ReplayInvAlways ==
    ReplaySpec => []ReplayInv
<1>. QED  BY ReplayInvHolds, ReplayInvStays, PTL DEF ReplaySpec

\* The state of a replay keeps its types: what is held is a position with a stop, and what
\* is ordered is a security of the replay.
THEOREM ReplayTypeCorrect ==
    ReplaySpec => []ReplayTypeOK
<1> DEFINE Rest == /\ quotes \in [Issues -> Quotes]
                   /\ orders \in [sells : SUBSET Issues, buys : SUBSET Issues]
                   /\ undecided \in BOOLEAN /\ failed \in BOOLEAN
                   /\ (undecided => session # 0)
<1>1. ASSUME ReplayInit  PROVE Rest
  <2>1. quotes \in [Issues -> Quotes]
    BY <1>1 DEF ReplayInit, Quotes
  <2>2. orders \in [sells : SUBSET Issues, buys : SUBSET Issues]
    BY <1>1 DEF ReplayInit, NoOrders
  <2>3. undecided = FALSE /\ failed = FALSE
    BY <1>1 DEF ReplayInit
  <2>. QED  BY <2>1, <2>2, <2>3
<1>2. ASSUME ReplayInv, Rest, [ReplayNext]_replayVars  PROVE Rest'
  <2>1. CASE Trade /\ ~failed'
    <3>1. /\ quotes' \in [Issues -> Quotes] /\ orders' = NoOrders /\ session' = session + 1
          /\ undecided' = (session + 1 \in MonthEnds) /\ failed' = failed
      BY <2>1 DEF Trade, Raise
    <3>2. undecided' \in BOOLEAN /\ session' # 0
      BY <1>2, <3>1, ReplayConstants DEF ReplayInv
    <3>. QED  BY <1>2, <3>1, <3>2 DEF NoOrders
  <2>2. CASE (Trade \/ Refuse) /\ failed'
    <3>1. failed' = TRUE /\ UNCHANGED <<session, quotes, orders, undecided>>
      BY <1>2, <2>2 DEF Trade, Refuse, Raise
    <3>. QED  BY <1>2, <3>1
  <2>3. CASE Decide
    <3>1. PICK sells \in SUBSET HeldIn(held), buys \in SUBSET (Members[session] \ HeldIn(held)) :
            orders' = [sells |-> sells \cup Outside(held, session), buys |-> buys]
      BY <2>3 DEF Decide
    <3>2. undecided /\ undecided' = FALSE /\ UNCHANGED <<session, quotes, failed>>
      BY <2>3 DEF Decide
    <3>3. Members[session] \subseteq Issues
      BY <1>2, <3>2, ReplayConstants DEF ReplayInv
    <3>4. orders' \in [sells : SUBSET Issues, buys : SUBSET Issues]
      BY <3>1, <3>3 DEF HeldIn, Outside
    <3>. QED  BY <1>2, <3>2, <3>4
  <2>4. CASE UNCHANGED replayVars
    BY <1>2, <2>4 DEF replayVars
  <2>5. failed' \in BOOLEAN
    BY <1>2 DEF ReplayNext, Trade, Decide, Refuse, Raise, replayVars
  <2>6. Refuse => failed'
    BY DEF Refuse, Raise
  <2>. QED  BY <1>2, <2>1, <2>2, <2>3, <2>4, <2>5, <2>6 DEF ReplayNext
<1>3. ReplayInv /\ Rest => ReplayTypeOK
  BY DEF ReplayInv, ReplayTypeOK, Books
<1>. QED  BY <1>1, <1>2, <1>3, ReplayInvHolds, ReplayInvStays, PTL DEF ReplaySpec

\* Every position a replayed session leaves was halted with a record or traded above its
\* stop all day, whatever the actions of the day, the fills and the exits were.
THEOREM PositionsAreWatched ==
    ReplaySpec => []EveryPositionIsWatched
<1>1. ReplayInv => EveryPositionIsWatched
  BY DEF ReplayInv
<1>. QED  BY <1>1, ReplayInvAlways, PTL

LEMMA SessionSendsOutsidersAway ==
    ASSUME ReplayInv, [ReplayNext]_replayVars, session' # session
    PROVE  /\ \A i \in HeldIn(held') : held'[i].leaving => quotes'[i] = Halted
           /\ session \in MonthEnds =>
                HeldIn(held') \cap (HeldIn(held) \ Members[session]) = {}
<1>1. Trade /\ ~failed'
  BY DEF ReplayNext, Trade, Decide, Refuse, Raise, replayVars
<1>2. PICK start, q, sold, bought, after : Played(start, q, sold, bought, after)
  BY <1>1, TradePlays
<1>3. \A i \in HeldIn(held') : /\ i \in bought \/ i \notin orders.sells
                               /\ held'[i].leaving => quotes'[i] = Halted
  BY <1>2, PlayedBook
<1>4. ~failed /\ ~undecided
  BY <1>1, TradePlays
<1>5. bought \subseteq orders.buys
  BY <1>2 DEF Played
<1>6. ASSUME session \in MonthEnds
      PROVE  HeldIn(held') \cap (HeldIn(held) \ Members[session]) = {}
  <2>1. /\ Outside(held, session) \subseteq orders.sells
        /\ orders.buys \cap Outside(held, session) = {}
    BY <1>4, <1>6 DEF ReplayInv, OutsidersAreOrdered
  <2>. QED  BY <1>3, <1>5, <2>1 DEF Outside
<1>. QED  BY <1>3, <1>6

\* What an action marked, and what was outside the universe at a month-end, does not
\* outlive the next session: its exit is ordered, and a BUY of the day is never one of it.
THEOREM OutsidersAreGone ==
    ReplaySpec => OutsidersLeave
<1>1. ReplayInv /\ [ReplayNext]_replayVars =>
        [session' # session =>
         /\ \A i \in HeldIn(held') : held'[i].leaving => quotes'[i] = Halted
         /\ session \in MonthEnds =>
               HeldIn(held') \cap (HeldIn(held) \ Members[session]) = {}]_replayVars
  BY SessionSendsOutsidersAway
<1>. QED  BY <1>1, ReplayInvAlways, PTL DEF ReplaySpec, OutsidersLeave
=============================================================================
