---------------------------- MODULE RecordsProofs ----------------------------
(***************************************************************************)
(* What holds of the records that several processes write, for any number  *)
(* of processes and of sessions, weeks and days: the V9 and repo observer,  *)
(* the weekly triangle's ledger, the index of market data snapshots and the *)
(* day of a backtest.                                                       *)
(***************************************************************************)
EXTENDS SnapshotCache, V9RepoShadow, WeeklyTriangle, DailyBacktest,
        FiniteSetTheorems, SequenceTheorems, TLAPS

-------------------------------------------------------------------------------
(* The observer.  A command has read the chain, or checked its session, some *)
(* while before it appends; what it has read stays good enough, because only *)
(* captures of the next session are ever appended.                           *)

Captures == [session : Nat, follows : Nat, settled : Seq(Nat), lent : BOOLEAN]

CommandPlaces ==
    {"idle", "starting", "collecting", "checking", "reading", "computing", "answering"}

CommandRecords ==
    [pc : CommandPlaces, before : Nat, asof : Nat, read : Nat,
     inserted : BOOLEAN, verdict : {"none", "TIMEOUT"}]

ObserverTypes ==
    /\ today \in Nat
    /\ captures \in Seq(Captures)
    /\ command \in [Commands -> CommandRecords]

SessionsAreConsecutive(chain) ==
    \A i \in DOMAIN chain : chain[i].session = chain[1].session + i - 1

EachFollowsTheLast(chain) ==
    \A i \in DOMAIN chain : i > 1 => chain[i].follows = chain[i - 1].session

\* The loans made up to a capture, and what the settled ones of a capture are.
LentUpTo(chain, n) == {chain[j].session : j \in {j \in 1..n : chain[j].lent}}

SettledRight(chain) ==
    \A i \in DOMAIN chain :
        /\ ToSet(chain[i].settled) = LentUpTo(chain, i - 2)
        /\ \A m, n \in DOMAIN chain[i].settled :
               m < n => chain[i].settled[m] < chain[i].settled[n]

GoodChain(chain) ==
    SessionsAreConsecutive(chain) /\ EachFollowsTheLast(chain) /\ SettledRight(chain)

\* Before the first capture all the commands that have a session have today's.
FirstTogether(c) ==
    captures = <<>> /\ c.pc \notin {"idle", "starting"} => c.asof = today

\* A command that has checked its session is at most one ahead of the chain, and one
\* that is ahead has read all of it.
CheckedStaysGood(c) ==
    c.pc \in {"reading", "computing"} =>
        /\ c.asof > 0
        /\ captures # <<>> => captures[1].session <= c.asof /\ c.asof <= LatestSession + 1
        /\ c.pc = "computing" =>
               /\ c.read <= Len(captures)
               /\ captures # <<>> /\ c.asof = LatestSession + 1 => c.read = Len(captures)

\* What a command says of its process is true.
VerdictIsRight(c) ==
    /\ c.before <= Len(captures)
    /\ c.inserted => c.before < Len(captures)
    /\ c.pc # "idle" => c.verdict = "none"
    /\ c.verdict = "TIMEOUT" => ~c.inserted

CommandInv ==
    \A p \in Commands :
        FirstTogether(command[p]) /\ CheckedStaysGood(command[p]) /\ VerdictIsRight(command[p])

ObserverInv == ObserverTypes /\ GoodChain(captures) /\ CommandInv

-------------------------------------------------------------------------------
(* A capture of the next session, computed from the whole chain, keeps it good. *)

LEMMA SettledIsASequence ==
    ASSUME NEW chain \in Seq(Captures)
    PROVE  Settled(chain) \in Seq(Nat)
<1>1. CASE chain = <<>>
  BY <1>1 DEF Settled
<1>2. CASE chain # <<>>
  <2>1. Len(chain) \in Nat /\ Len(chain) \in DOMAIN chain /\ Last(chain) = chain[Len(chain)]
    BY <1>2, LenProperties, EmptySeq DEF Last
  <2>2. Last(chain).settled \in Seq(Nat)
    <3>1. Last(chain) \in Captures
      BY <2>1, ElementOfSeq
    <3>. QED  BY <3>1 DEF Captures
  <2>3. Len(chain) >= 2 => chain[Len(chain) - 1] \in Captures
    BY <2>1, ElementOfSeq
  <2>4. Len(chain) >= 2 => chain[Len(chain) - 1].session \in Nat
    BY <2>3 DEF Captures
  <2>. QED  BY <1>2, <2>2, <2>4, ConcatProperties DEF Settled
<1>. QED  BY <1>1, <1>2

\* What the capture after the last one settles.
LEMMA NextSettles ==
    ASSUME NEW chain \in Seq(Captures), chain # <<>>, GoodChain(chain)
    PROVE  /\ ToSet(Settled(chain)) = LentUpTo(chain, Len(chain) - 1)
           /\ \A m, n \in DOMAIN Settled(chain) :
                  m < n => Settled(chain)[m] < Settled(chain)[n]
<1> DEFINE last == Len(chain)
           old == chain[last].settled
<1>1. last \in Nat /\ last >= 1 /\ DOMAIN chain = 1..last /\ Last(chain) = chain[last]
  BY LenProperties, EmptySeq DEF Last
<1>2. \A i \in 1..last : chain[i] \in Captures
  BY <1>1, ElementOfSeq
<1>3. old \in Seq(Nat)
  <2>1. chain[last] \in Captures
    BY <1>1, <1>2
  <2>. QED  BY <2>1 DEF Captures
<1>4. \A i \in 1..last : chain[i].session \in Nat /\ chain[i].lent \in BOOLEAN
  BY <1>2 DEF Captures
<1>5. /\ ToSet(old) = LentUpTo(chain, last - 2)
      /\ \A m, n \in DOMAIN old : m < n => old[m] < old[n]
  BY <1>1 DEF GoodChain, SettledRight
<1>6. CASE last >= 2 /\ chain[last - 1].lent
  <2> DEFINE new == chain[last - 1].session
  <2>1. Settled(chain) = old \o <<new>>
    BY <1>1, <1>6 DEF Settled
  <2>2. new \in Nat /\ Len(old) \in Nat /\ DOMAIN old = 1..Len(old) /\ <<new>> \in Seq(Nat)
    BY <1>1, <1>3, <1>4, <1>6, LenProperties
  <2>3. /\ Len(old \o <<new>>) = Len(old) + 1
        /\ DOMAIN (old \o <<new>>) = 1..(Len(old) + 1)
        /\ \A i \in 1..Len(old) : (old \o <<new>>)[i] = old[i]
        /\ (old \o <<new>>)[Len(old) + 1] = new
    BY <1>3, <2>2
  <2>4. ToSet(old \o <<new>>) = ToSet(old) \cup {new}
    <3>1. ToSet(old \o <<new>>) = {(old \o <<new>>)[i] : i \in 1..(Len(old) + 1)}
      BY <2>3 DEF ToSet
    <3>2. ToSet(old) = {old[i] : i \in 1..Len(old)}
      BY <2>2 DEF ToSet
    <3> DEFINE both == old \o <<new>>
               n == Len(old)
    <3>3. \A i \in 1..n : both[i] = old[i]
      BY <2>3
    <3>4. both[n + 1] = new /\ n \in Nat
      BY <2>2, <2>3
    <3> HIDE DEF both, n, old, new
    <3>5. {both[i] : i \in 1..(n + 1)} = {both[i] : i \in 1..n} \cup {both[n + 1]}
      <4>1. 1..(n + 1) = (1..n) \cup {n + 1}
        BY <3>4
      <4>. QED  BY <4>1
    <3>6. {both[i] : i \in 1..n} = {old[i] : i \in 1..n}
      BY <3>3
    <3>. QED  BY <3>1, <3>2, <3>4, <3>5, <3>6 DEF both, n
  <2>5. LentUpTo(chain, last - 1) = LentUpTo(chain, last - 2) \cup {new}
    <3>1. {j \in 1..(last - 1) : chain[j].lent}
              = {j \in 1..(last - 2) : chain[j].lent} \cup {last - 1}
      BY <1>1, <1>6
    <3>. QED  BY <3>1 DEF LentUpTo
  <2>6. \A m \in DOMAIN old : old[m] < new
    <3>1. SUFFICES ASSUME NEW m \in DOMAIN old  PROVE old[m] < new
      OBVIOUS
    <3>2. old[m] \in LentUpTo(chain, last - 2)
      BY <1>5 DEF ToSet
    <3>3. PICK j \in 1..(last - 2) : old[m] = chain[j].session
      BY <3>2 DEF LentUpTo
    <3>4. /\ chain[j].session = chain[1].session + j - 1
          /\ new = chain[1].session + (last - 1) - 1
      BY <1>1, <1>6 DEF GoodChain, SessionsAreConsecutive
    <3>5. chain[1].session \in Nat /\ j \in Nat /\ j <= last - 2
      BY <1>1, <1>4
    <3>. QED  BY <1>1, <3>3, <3>4, <3>5
  <2>7. ASSUME NEW m \in DOMAIN Settled(chain), NEW n \in DOMAIN Settled(chain), m < n
        PROVE  Settled(chain)[m] < Settled(chain)[n]
    <3>1. m \in 1..Len(old) /\ (n \in 1..Len(old) \/ n = Len(old) + 1)
      BY <2>1, <2>2, <2>3, <2>7
    <3>. QED  BY <1>5, <2>1, <2>2, <2>3, <2>6, <2>7, <3>1
  <2>8. ToSet(Settled(chain)) = LentUpTo(chain, last - 1)
    BY <1>5, <2>1, <2>4, <2>5
  <2>. QED  BY <2>7, <2>8
<1>7. CASE ~(last >= 2 /\ chain[last - 1].lent)
  <2>1. Settled(chain) = old
    <3>1. Settled(chain) = old \o <<>>
      BY <1>1, <1>7 DEF Settled
    <3>. QED  BY <1>3, <3>1, ConcatEmptySeq
  <2>2. {j \in 1..(last - 1) : chain[j].lent} = {j \in 1..(last - 2) : chain[j].lent}
    BY <1>1, <1>7
  <2>. QED  BY <1>5, <2>1, <2>2 DEF LentUpTo
<1>. QED  BY <1>6, <1>7

LEMMA ChainGrows ==
    ASSUME NEW chain \in Seq(Captures), GoodChain(chain), NEW capture \in Captures,
           capture.settled = Settled(chain),
           chain # <<>> =>
               /\ capture.session = chain[Len(chain)].session + 1
               /\ capture.follows = chain[Len(chain)].session
    PROVE  GoodChain(Append(chain, capture))
<1> DEFINE last == Len(chain)
           longer == Append(chain, capture)
<1>1. /\ last \in Nat /\ DOMAIN chain = 1..last
      /\ longer \in Seq(Captures)
      /\ DOMAIN longer = 1..(last + 1)
      /\ \A i \in 1..last : longer[i] = chain[i]
      /\ longer[last + 1] = capture
  BY LenProperties, AppendProperties
<1>2. \A i \in 1..last : chain[i].session \in Nat
  <2>1. \A i \in 1..last : chain[i] \in Captures
    BY <1>1, ElementOfSeq
  <2>. QED  BY <2>1 DEF Captures
<1>3. chain = <<>> <=> last = 0
  BY EmptySeq
<1>4. SessionsAreConsecutive(longer)
  <2>1. SUFFICES ASSUME NEW i \in 1..(last + 1)
                 PROVE  longer[i].session = longer[1].session + i - 1
    BY <1>1 DEF SessionsAreConsecutive
  <2>2. CASE i <= last
    BY <1>1, <2>2 DEF GoodChain, SessionsAreConsecutive
  <2>3. CASE i = last + 1 /\ last = 0
    BY <1>1, <2>3 DEF Captures
  <2>4. CASE i = last + 1 /\ last > 0
    <3>1. chain[last].session = chain[1].session + last - 1
      BY <1>1, <2>4 DEF GoodChain, SessionsAreConsecutive
    <3>2. longer[i] = capture /\ longer[1] = chain[1]
      BY <1>1, <2>4
    <3>. QED  BY <1>1, <1>2, <1>3, <2>4, <3>1, <3>2
  <2>. QED  BY <1>1, <2>2, <2>3, <2>4
<1>5. EachFollowsTheLast(longer)
  <2>1. SUFFICES ASSUME NEW i \in 1..(last + 1), i > 1
                 PROVE  longer[i].follows = longer[i - 1].session
    BY <1>1 DEF EachFollowsTheLast
  <2>2. CASE i <= last
    BY <1>1, <2>1, <2>2 DEF GoodChain, EachFollowsTheLast
  <2>3. CASE i = last + 1
    <3>1. last \in 1..last /\ i - 1 = last /\ last # 0
      BY <1>1, <2>1, <2>3
    <3>2. longer[i] = capture /\ longer[i - 1] = chain[last]
      BY <1>1, <2>3, <3>1
    <3>3. capture.follows = chain[last].session
      BY <1>3, <3>1
    <3>. QED  BY <3>2, <3>3
  <2>4. i <= last \/ i = last + 1
    BY <1>1
  <2>. QED  BY <2>2, <2>3, <2>4
<1>6. SettledRight(longer)
  <2>1. SUFFICES ASSUME NEW i \in 1..(last + 1)
                 PROVE  /\ ToSet(longer[i].settled) = LentUpTo(longer, i - 2)
                        /\ \A m, n \in DOMAIN longer[i].settled :
                               m < n => longer[i].settled[m] < longer[i].settled[n]
    BY <1>1 DEF SettledRight
  <2>2. LentUpTo(longer, i - 2) = LentUpTo(chain, i - 2)
    <3>1. \A j \in 1..(i - 2) : longer[j] = chain[j]
      BY <1>1
    <3>2. {j \in 1..(i - 2) : longer[j].lent} = {j \in 1..(i - 2) : chain[j].lent}
      BY <3>1
    <3>. QED  BY <3>1, <3>2 DEF LentUpTo
  <2>3. CASE i <= last
    BY <1>1, <2>2, <2>3 DEF GoodChain, SettledRight
  <2>4. CASE i = last + 1 /\ last > 0
    <3>1. longer[i].settled = Settled(chain) /\ i - 2 = last - 1
      BY <1>1, <2>4
    <3>. QED  BY <1>3, <2>2, <2>4, <3>1, NextSettles
  <2>5. CASE i = last + 1 /\ last = 0
    <3>1. longer[i].settled = <<>>
      BY <1>1, <1>3, <2>5 DEF Settled
    <3>2. LentUpTo(longer, i - 2) = {}
      BY <2>5 DEF LentUpTo
    <3>. QED  BY <3>1, <3>2 DEF ToSet
  <2>. QED  BY <1>1, <2>3, <2>4, <2>5
<1>. QED  BY <1>4, <1>5, <1>6 DEF GoodChain

THEOREM ObserverInvHolds == ObserverInit => ObserverInv
<1> SUFFICES ASSUME ObserverInit  PROVE ObserverInv
  OBVIOUS
<1>1. Idle \in CommandRecords /\ Idle.pc = "idle" /\ Idle.before = 0 /\ Idle.inserted = FALSE
        /\ Idle.verdict = "none"
  BY DEF Idle, CommandRecords, CommandPlaces
<1>2. captures = <<>> /\ captures \in Seq(Captures) /\ Len(captures) = 0
  BY DEF ObserverInit
<1>3. ObserverTypes
  BY <1>1, <1>2 DEF ObserverInit, ObserverTypes
<1>4. GoodChain(captures)
  <2>. DOMAIN captures = {}
    BY <1>2
  <2>. QED  BY DEF GoodChain, SessionsAreConsecutive, EachFollowsTheLast, SettledRight
<1>5. CommandInv
  <2>1. SUFFICES ASSUME NEW p \in Commands
                 PROVE  FirstTogether(Idle) /\ CheckedStaysGood(Idle) /\ VerdictIsRight(Idle)
    BY DEF CommandInv, ObserverInit
  <2>. QED  BY <1>1, <1>2 DEF FirstTogether, CheckedStaysGood, VerdictIsRight
<1>. QED  BY <1>3, <1>4, <1>5 DEF ObserverInv

\* The latest session of a chain is that of its last capture, and no session is missing.
LEMMA SessionsOfTheChain ==
    ASSUME ObserverTypes, GoodChain(captures), captures # <<>>
    PROVE  /\ Len(captures) \in Nat \ {0} /\ DOMAIN captures = 1..Len(captures)
           /\ LatestSession = captures[Len(captures)].session
           /\ captures[1].session \in Nat /\ LatestSession \in Nat
           /\ LatestSession = captures[1].session + Len(captures) - 1
           /\ \A s \in Nat : captures[1].session <= s /\ s <= LatestSession =>
                  \E i \in DOMAIN captures : captures[i].session = s
           /\ \A i \in DOMAIN captures : captures[i].session <= LatestSession
<1>1. Len(captures) \in Nat \ {0} /\ DOMAIN captures = 1..Len(captures)
  BY LenProperties, EmptySeq DEF ObserverTypes
<1>2. LatestSession = captures[Len(captures)].session
  BY DEF LatestSession, Last
<1>3. \A i \in DOMAIN captures : captures[i].session \in Nat
  <2>1. \A i \in DOMAIN captures : captures[i] \in Captures
    BY <1>1, ElementOfSeq DEF ObserverTypes
  <2>. QED  BY <2>1 DEF Captures
<1>4. \A i \in DOMAIN captures : captures[i].session = captures[1].session + i - 1
  BY DEF GoodChain, SessionsAreConsecutive
<1>5. LatestSession = captures[1].session + Len(captures) - 1
  BY <1>1, <1>2, <1>4
<1>6. ASSUME NEW s \in Nat, captures[1].session <= s, s <= LatestSession
      PROVE  \E i \in DOMAIN captures : captures[i].session = s
  <2>1. 1 \in DOMAIN captures /\ captures[1].session \in Nat
    BY <1>1, <1>3
  <2>2. s - captures[1].session + 1 \in DOMAIN captures
    BY <1>1, <1>5, <1>6, <2>1
  <2>. QED  BY <1>4, <2>1, <2>2
<1>. QED  BY <1>1, <1>2, <1>3, <1>4, <1>5, <1>6

\* Whatever is appended continues the whole chain by one session.
LEMMA OnlyTheNextIsAppended ==
    ASSUME ObserverInv, NEW p \in Commands, AppendCapture(p), captures' # captures
    PROVE  \E capture \in Captures :
               /\ captures' = Append(captures, capture)
               /\ capture.settled = Settled(captures)
               /\ capture.session = command[p].asof
               /\ captures # <<>> =>
                      /\ capture.session = LatestSession + 1
                      /\ capture.session = captures[Len(captures)].session + 1
                      /\ capture.follows = captures[Len(captures)].session
<1> DEFINE chain == SubSeq(captures, 1, command[p].read)
           capture(lent) ==
               [session |-> command[p].asof,
                follows |-> IF chain = <<>> THEN 0 ELSE Last(chain).session,
                settled |-> Settled(chain), lent |-> lent]
<1>1. PICK lent \in BOOLEAN : captures' = Append1(captures, capture(lent))
  BY DEF AppendCapture
<1>2. /\ captures' = Append(captures, capture(lent))
      /\ \A i \in DOMAIN captures : captures[i].session # command[p].asof
  BY <1>1 DEF Append1
<1>3. /\ command[p].pc = "computing" /\ command[p].read \in Nat /\ command[p].asof \in Nat
      /\ CheckedStaysGood(command[p])
  <2>1. command[p] \in CommandRecords
    BY DEF ObserverInv, ObserverTypes
  <2>2. command[p].pc = "computing"
    BY DEF AppendCapture, Doing
  <2>. QED  BY <2>1, <2>2 DEF ObserverInv, CommandInv, CommandRecords
<1>4. Len(captures) \in Nat /\ (captures = <<>> <=> Len(captures) = 0)
  BY LenProperties, EmptySeq DEF ObserverInv, ObserverTypes
<1>5. captures # <<>> =>
          /\ command[p].asof = LatestSession + 1
          /\ LatestSession = captures[Len(captures)].session
          /\ LatestSession \in Nat
  <2>1. SUFFICES ASSUME captures # <<>>
                 PROVE  /\ command[p].asof = LatestSession + 1
                        /\ LatestSession = captures[Len(captures)].session
                        /\ LatestSession \in Nat
    OBVIOUS
  <2>2. /\ LatestSession = captures[Len(captures)].session
        /\ LatestSession \in Nat
        /\ \A s \in Nat : captures[1].session <= s /\ s <= LatestSession =>
               \E i \in DOMAIN captures : captures[i].session = s
    BY <2>1, SessionsOfTheChain DEF ObserverInv
  <2>3. captures[1].session <= command[p].asof /\ command[p].asof <= LatestSession + 1
    BY <1>3, <2>1 DEF CheckedStaysGood
  <2>4. ~(captures[1].session <= command[p].asof /\ command[p].asof <= LatestSession)
    BY <1>2, <1>3, <2>2
  <2>. QED  BY <1>3, <2>2, <2>3, <2>4
<1>6. chain = captures
  <2>1. command[p].read = Len(captures)
    <3>1. CASE captures = <<>>
      BY <1>3, <1>4, <3>1 DEF CheckedStaysGood
    <3>2. CASE captures # <<>>
      BY <1>3, <1>5, <3>2 DEF CheckedStaysGood
    <3>. QED  BY <3>1, <3>2
  <2>. QED  BY <2>1, SubSeqFull DEF ObserverInv, ObserverTypes
<1>7. capture(lent) \in Captures
  <2>1. Settled(captures) \in Seq(Nat)
    BY SettledIsASequence DEF ObserverInv, ObserverTypes
  <2>. QED  BY <1>3, <1>5, <1>6, <2>1 DEF Captures, Last
<1>8. /\ capture(lent).settled = Settled(captures)
      /\ capture(lent).session = command[p].asof
      /\ captures # <<>> => capture(lent).follows = captures[Len(captures)].session
  BY <1>5, <1>6 DEF Last
<1> HIDE DEF capture
<1>. QED  BY <1>2, <1>5, <1>7, <1>8

\* A step of one command that leaves the chain alone.
LEMMA StepOfACommand ==
    ASSUME ObserverInv, UNCHANGED <<today, captures>>, NEW p \in Commands,
           NEW c \in CommandRecords, command' = [command EXCEPT ![p] = c],
           FirstTogether(c), CheckedStaysGood(c), VerdictIsRight(c)
    PROVE  ObserverInv'
<1>1. ObserverTypes'
  BY DEF ObserverInv, ObserverTypes
<1>2. GoodChain(captures)'
  BY DEF ObserverInv, GoodChain, SessionsAreConsecutive, EachFollowsTheLast, SettledRight,
         LentUpTo
<1>3. CommandInv'
  <2>1. SUFFICES ASSUME NEW q \in Commands
                 PROVE  (FirstTogether(command[q]) /\ CheckedStaysGood(command[q])
                         /\ VerdictIsRight(command[q]))'
    BY DEF CommandInv
  <2>2. /\ FirstTogether(command'[q])
        /\ CheckedStaysGood(command'[q])
        /\ VerdictIsRight(command'[q])
    <3>1. CASE q = p
      BY <3>1 DEF ObserverInv, ObserverTypes
    <3>2. CASE q # p
      BY <3>2 DEF ObserverInv, ObserverTypes, CommandInv
    <3>. QED  BY <3>1, <3>2
  <2>. QED
    BY <2>2 DEF FirstTogether, CheckedStaysGood, VerdictIsRight, LatestSession
<1>. QED  BY <1>1, <1>2, <1>3 DEF ObserverInv

THEOREM ObserverInvStays ==
    ASSUME ObserverInv, [ObserverNext]_shadowBookVars
    PROVE  ObserverInv'
<1> USE DEF ObserverInv
<1>1. CASE UNCHANGED shadowBookVars
  BY <1>1 DEF shadowBookVars, ObserverTypes, GoodChain, SessionsAreConsecutive,
              EachFollowsTheLast, SettledRight, LentUpTo, CommandInv, FirstTogether,
              CheckedStaysGood, VerdictIsRight, LatestSession
<1>2. CASE NextSession
  <2>1. today' \in Nat /\ UNCHANGED <<captures, command>>
    BY <1>2 DEF NextSession, ObserverTypes
  <2>2. captures = <<>> => \A p \in Commands : command[p].pc = "idle"
    BY <1>2 DEF NextSession, Doing
  <2>3. ObserverTypes' /\ GoodChain(captures)'
    BY <2>1 DEF ObserverTypes, GoodChain, SessionsAreConsecutive, EachFollowsTheLast,
                SettledRight, LentUpTo
  <2>4. CommandInv'
    BY <2>1, <2>2 DEF CommandInv, FirstTogether, CheckedStaysGood, VerdictIsRight,
                      LatestSession
  <2>. QED  BY <2>3, <2>4
<1>3. CASE \E p \in Commands : CommandNext(p)
  <2>1. PICK p \in Commands : CommandNext(p)
    BY <1>3
  <2> DEFINE was == command[p]
  <2>2. /\ was \in CommandRecords
        /\ FirstTogether(was) /\ CheckedStaysGood(was) /\ VerdictIsRight(was)
    BY DEF ObserverTypes, CommandInv
  <2>3. Len(captures) \in Nat
    BY LenProperties DEF ObserverTypes
  <2>4. CASE Launch(p)
    <3> DEFINE c == [Idle EXCEPT !.pc = "starting", !.before = Len(captures)]
    <3>1. UNCHANGED <<today, captures>> /\ command' = [command EXCEPT ![p] = c]
      BY <2>4 DEF Launch
    <3>2. c \in CommandRecords
      BY <2>3 DEF Idle, CommandRecords, CommandPlaces
    <3>3. FirstTogether(c) /\ CheckedStaysGood(c) /\ VerdictIsRight(c)
      BY <2>3 DEF Idle, FirstTogether, CheckedStaysGood, VerdictIsRight
    <3>. QED  BY <3>1, <3>2, <3>3, StepOfACommand
  <2>5. CASE Connect(p)
    <3> DEFINE c(place) == [was EXCEPT !.pc = place, !.asof = today]
    <3>1. /\ UNCHANGED <<today, captures>> /\ was.pc = "starting"
          /\ \E place \in {"answering", "collecting"} :
                 command' = [command EXCEPT ![p] = c(place)]
      BY <2>2, <2>5 DEF Connect, Doing, CommandRecords
    <3>2. PICK place \in {"answering", "collecting"} :
              command' = [command EXCEPT ![p] = c(place)]
      BY <3>1
    <3>3. c(place) \in CommandRecords
      BY <2>2, <3>2 DEF CommandRecords, CommandPlaces, ObserverTypes
    <3>4. FirstTogether(c(place)) /\ CheckedStaysGood(c(place)) /\ VerdictIsRight(c(place))
      BY <2>2, <3>1, <3>2
         DEF CommandRecords, FirstTogether, CheckedStaysGood, VerdictIsRight
    <3> HIDE DEF c
    <3>. QED  BY <3>1, <3>2, <3>3, <3>4, StepOfACommand
  <2>6. CASE Collect(p)
    <3> DEFINE c(place) == [was EXCEPT !.pc = place]
    <3>1. /\ UNCHANGED <<today, captures>> /\ was.pc = "collecting"
          /\ \E place \in {"checking", "answering"} :
                 command' = [command EXCEPT ![p] = c(place)]
      BY <2>2, <2>6 DEF Collect, Doing, CommandRecords
    <3>2. PICK place \in {"checking", "answering"} :
              command' = [command EXCEPT ![p] = c(place)]
      BY <3>1
    <3>3. c(place) \in CommandRecords
      BY <2>2, <3>2 DEF CommandRecords, CommandPlaces
    <3>4. FirstTogether(c(place)) /\ CheckedStaysGood(c(place)) /\ VerdictIsRight(c(place))
      BY <2>2, <3>1, <3>2
         DEF CommandRecords, FirstTogether, CheckedStaysGood, VerdictIsRight
    <3> HIDE DEF c
    <3>. QED  BY <3>1, <3>2, <3>3, <3>4, StepOfACommand
  <2>7. CASE CheckAgain(p)
    <3> DEFINE c == [was EXCEPT !.pc = IF TurnsAway(was.asof) THEN "answering" ELSE "reading"]
    <3>1. /\ UNCHANGED <<today, captures>> /\ was.pc = "checking"
          /\ command' = [command EXCEPT ![p] = c]
      BY <2>7 DEF CheckAgain, Doing
    <3>2. c \in CommandRecords
      BY <2>2 DEF CommandRecords, CommandPlaces
    <3>3. FirstTogether(c) /\ VerdictIsRight(c)
      BY <2>2, <3>1 DEF CommandRecords, FirstTogether, VerdictIsRight
    <3>4. CheckedStaysGood(c)
      <4>1. c.asof = was.asof /\ was.asof \in Nat /\ c.pc # "computing"
            /\ (c.pc = "reading" => ~TurnsAway(was.asof))
        BY <2>2 DEF CommandRecords
      <4>2. SUFFICES ASSUME ~TurnsAway(was.asof)
                     PROVE  /\ was.asof > 0
                            /\ captures # <<>> => captures[1].session <= was.asof
                                                  /\ was.asof <= LatestSession + 1
        BY <4>1, Zenon DEF CheckedStaysGood
      <4>3. captures # <<>> => /\ captures[1].session \in Nat /\ LatestSession \in Nat
                               /\ LatestSession = captures[1].session + Len(captures) - 1
                               /\ Len(captures) > 0
        BY SessionsOfTheChain
      <4>. QED  BY <2>3, <4>1, <4>2, <4>3 DEF TurnsAway
    <3>. QED  BY <3>1, <3>2, <3>3, <3>4, StepOfACommand
  <2>8. CASE ReadChain(p)
    <3> DEFINE c == [was EXCEPT !.pc = IF Len(captures) >= 2 /\ was.asof <= LatestSession
                                       THEN "answering" ELSE "computing",
                                !.read = Len(captures)]
    <3>1. /\ UNCHANGED <<today, captures>> /\ was.pc = "reading"
          /\ command' = [command EXCEPT ![p] = c]
      BY <2>8 DEF ReadChain, Doing
    <3>2. c \in CommandRecords
      BY <2>2, <2>3 DEF CommandRecords, CommandPlaces
    <3>3. FirstTogether(c) /\ VerdictIsRight(c)
      BY <2>2, <3>1 DEF CommandRecords, FirstTogether, VerdictIsRight
    <3>4. CheckedStaysGood(c)
      BY <2>2, <2>3, <3>1 DEF CommandRecords, CheckedStaysGood
    <3>. QED  BY <3>1, <3>2, <3>3, <3>4, StepOfACommand
  <2>9. CASE Fail(p)
    <3> DEFINE c == [was EXCEPT !.pc = "answering"]
    <3>1. /\ UNCHANGED <<today, captures>> /\ was.pc = "computing"
          /\ command' = [command EXCEPT ![p] = c]
      BY <2>9 DEF Fail, Doing
    <3>2. c \in CommandRecords
      BY <2>2 DEF CommandRecords, CommandPlaces
    <3>3. FirstTogether(c) /\ CheckedStaysGood(c) /\ VerdictIsRight(c)
      BY <2>2, <3>1 DEF CommandRecords, FirstTogether, CheckedStaysGood, VerdictIsRight
    <3>. QED  BY <3>1, <3>2, <3>3, StepOfACommand
  <2>10. CASE Answer(p)
    <3>1. UNCHANGED <<today, captures>> /\ command' = [command EXCEPT ![p] = Idle]
      BY <2>10 DEF Answer
    <3>2. Idle \in CommandRecords
      BY DEF Idle, CommandRecords, CommandPlaces
    <3>3. FirstTogether(Idle) /\ CheckedStaysGood(Idle) /\ VerdictIsRight(Idle)
      BY <2>3 DEF Idle, FirstTogether, CheckedStaysGood, VerdictIsRight
    <3>. QED  BY <3>1, <3>2, <3>3, StepOfACommand
  <2>11. CASE TimeOut(p)
    <3> DEFINE c == IF Len(captures) > was.before THEN Idle
                    ELSE [Idle EXCEPT !.verdict = "TIMEOUT", !.inserted = was.inserted]
    <3>1. UNCHANGED <<today, captures>> /\ command' = [command EXCEPT ![p] = c]
      BY <2>11 DEF TimeOut
    <3>2. c \in CommandRecords
      BY <2>2 DEF Idle, CommandRecords, CommandPlaces
    <3>3. FirstTogether(c) /\ CheckedStaysGood(c) /\ VerdictIsRight(c)
      BY <2>2, <2>3 DEF Idle, CommandRecords, FirstTogether, CheckedStaysGood, VerdictIsRight
    <3>. QED  BY <3>1, <3>2, <3>3, StepOfACommand
  <2>12. CASE AppendCapture(p)
    <3> DEFINE c == [was EXCEPT !.pc = "answering", !.inserted = captures' # captures]
    <3>1. today' = today /\ was.pc = "computing" /\ command' = [command EXCEPT ![p] = c]
      BY <2>12 DEF AppendCapture, Doing
    <3>2. c \in CommandRecords
      BY <2>2 DEF CommandRecords, CommandPlaces
    <3>3. CASE captures' = captures
      <4>1. FirstTogether(c) /\ CheckedStaysGood(c) /\ VerdictIsRight(c)
        BY <2>2, <3>1, <3>3
           DEF CommandRecords, FirstTogether, CheckedStaysGood, VerdictIsRight
      <4> HIDE DEF c
      <4>. QED  BY <3>1, <3>2, <3>3, <4>1, StepOfACommand
    <3>4. CASE captures' # captures
      <4>1. PICK capture \in Captures :
               /\ captures' = Append(captures, capture)
               /\ capture.settled = Settled(captures)
               /\ capture.session = was.asof
               /\ captures # <<>> =>
                      /\ capture.session = LatestSession + 1
                      /\ capture.session = captures[Len(captures)].session + 1
                      /\ capture.follows = captures[Len(captures)].session
        BY <2>12, <3>4, OnlyTheNextIsAppended
      <4>2. GoodChain(captures')
        BY <4>1, ChainGrows DEF ObserverTypes
      <4>3. captures' \in Seq(Captures) /\ captures' # <<>> /\ Len(captures') = Len(captures) + 1
            /\ captures'[Len(captures')] = capture
            /\ (captures # <<>> => captures'[1] = captures[1])
        <5>1. captures \in Seq(Captures)
          BY DEF ObserverTypes
        <5>2. captures # <<>> => Len(captures) > 0
          BY <2>3, <5>1, EmptySeq
        <5>. QED  BY <2>3, <4>1, <5>1, <5>2, AppendProperties
      <4>4. ObserverTypes'
        BY <3>1, <3>2, <4>3 DEF ObserverTypes
      <4>5. LatestSession' = was.asof /\ was.asof \in Nat
        BY <2>2, <4>1, <4>3 DEF LatestSession, Last, CommandRecords
      <4>6. CommandInv'
        <5>1. SUFFICES ASSUME NEW q \in Commands
                       PROVE  (FirstTogether(command[q]) /\ CheckedStaysGood(command[q])
                               /\ VerdictIsRight(command[q]))'
          BY DEF CommandInv
        <5>2. FirstTogether(command[q])'
          BY <4>3 DEF FirstTogether
        <5>3. CASE q = p
          <6>1. command'[q] = c
            BY <3>1, <5>3 DEF ObserverTypes
          <6>2. /\ c.pc = "answering" /\ c.verdict = was.verdict /\ c.before = was.before
                /\ was.before \in Nat
            BY <2>2 DEF CommandRecords
          <6>3. CheckedStaysGood(command[q])'
            BY <6>1, <6>2, Zenon DEF CheckedStaysGood
          <6>4. VerdictIsRight(command[q])'
            <7>1. was.before <= Len(captures) /\ was.verdict = "none"
              BY <2>2, <3>1 DEF VerdictIsRight
            <7>2. was.before < Len(captures')
              BY <2>3, <4>3, <6>2, <7>1
            <7>3. c.before = was.before /\ c.verdict = "none"
              BY <6>2, <7>1
            <7> HIDE DEF c, was
            <7>. QED  BY <2>3, <4>3, <6>1, <6>2, <7>2, <7>3 DEF VerdictIsRight
          <6>. QED  BY <5>2, <6>3, <6>4
        <5>4. CASE q # p
          <6>1. command'[q] = command[q] /\ command[q] \in CommandRecords
            BY <3>1, <5>4 DEF ObserverTypes
          <6>2. VerdictIsRight(command[q])'
            <7>1. VerdictIsRight(command[q]) /\ command[q].before \in Nat
              BY <6>1 DEF CommandInv, CommandRecords
            <7>. QED  BY <2>3, <4>3, <6>1, <7>1 DEF VerdictIsRight
          <6>3. CheckedStaysGood(command[q])'
            <7>1. /\ CheckedStaysGood(command[q]) /\ FirstTogether(command[q])
                  /\ command[q].asof \in Nat /\ command[q].read \in Nat
              BY <6>1 DEF CommandInv, CommandRecords
            <7>2. CASE captures = <<>>
              <8>1. Len(captures) = 0 /\ was.asof = today
                BY <2>2, <3>1, <7>2 DEF FirstTogether
              <8>2. command[q].pc \in {"reading", "computing"} => command[q].asof = today
                BY <7>1, <7>2 DEF FirstTogether
              <8>3. captures'[1].session = was.asof
                BY <4>1, <4>3, <8>1
              <8>. QED
                BY <4>3, <4>5, <6>1, <7>1, <8>1, <8>2, <8>3 DEF CheckedStaysGood
            <7>3. CASE captures # <<>>
              <8>1. captures'[1].session = captures[1].session /\ LatestSession \in Nat
                    /\ LatestSession' = LatestSession + 1
                BY <4>1, <4>3, <4>5, <7>3, SessionsOfTheChain
              <8>. QED
                BY <2>3, <4>3, <6>1, <7>1, <7>3, <8>1 DEF CheckedStaysGood
            <7>. QED  BY <7>2, <7>3
          <6>. QED  BY <5>2, <6>2, <6>3
        <5>. QED  BY <5>3, <5>4
      <4>. QED  BY <4>2, <4>4, <4>6
    <3>. QED  BY <3>3, <3>4
  <2>. QED
    BY <2>1, <2>4, <2>5, <2>6, <2>7, <2>8, <2>9, <2>10, <2>11, <2>12 DEF CommandNext
<1>. QED  BY <1>1, <1>2, <1>3 DEF ObserverNext

THEOREM ObserverInvAlways == ObserverSpec => []ObserverInv
<1>1. ObserverInit => ObserverInv
  BY ObserverInvHolds
<1>2. ObserverInv /\ [ObserverNext]_shadowBookVars => ObserverInv'
  BY ObserverInvStays
<1>. QED  BY <1>1, <1>2, PTL DEF ObserverSpec

\* The chain of captures has no gap and no fork, whichever commands overlap and die:
\* V9RepoShadowService.capture and the store's append of a session.
THEOREM ChainHasNoGap == ObserverSpec => []CapturesFormAChain
<1>1. ObserverInv => CapturesFormAChain
  <2>1. SUFFICES ASSUME ObserverInv, NEW i \in 2..Len(captures)
                 PROVE  /\ captures[i].session = captures[i - 1].session + 1
                        /\ captures[i].follows = captures[i - 1].session
    BY DEF CapturesFormAChain
  <2>2. /\ Len(captures) \in Nat /\ DOMAIN captures = 1..Len(captures)
    BY <2>1, LenProperties DEF ObserverInv, ObserverTypes
  <2>3. captures # <<>>
    BY <2>1, <2>2, EmptySeq DEF ObserverInv, ObserverTypes
  <2>4. captures[1].session \in Nat
    BY <2>1, <2>3, SessionsOfTheChain DEF ObserverInv
  <2>5. /\ captures[i].session = captures[1].session + i - 1
        /\ captures[i - 1].session = captures[1].session + (i - 1) - 1
    BY <2>1, <2>2 DEF ObserverInv, GoodChain, SessionsAreConsecutive
  <2>6. captures[i].follows = captures[i - 1].session
    BY <2>1, <2>2 DEF ObserverInv, GoodChain, EachFollowsTheLast
  <2>. QED  BY <2>2, <2>4, <2>5, <2>6
<1>. QED  BY <1>1, ObserverInvAlways, PTL

\* Every loan that was made is in the settled ones from the second capture after it on,
\* and once: the settlement in V9RepoShadowService.capture.
THEOREM LoansSettleOnce == ObserverSpec => []EveryLoanSettlesOnce
<1>1. ObserverInv => EveryLoanSettlesOnce
  BY DEF ObserverInv, GoodChain, SettledRight, LentUpTo, EveryLoanSettlesOnce
<1>. QED  BY <1>1, ObserverInvAlways, PTL

\* A command that reports that nothing was stored in time is right: the count of the
\* captures before its process and after the kill.
THEOREM NothingStoredIsLost == ObserverSpec => []StoredIsNotReportedLost
<1>1. ObserverInv => StoredIsNotReportedLost
  BY DEF ObserverInv, CommandInv, VerdictIsRight, StoredIsNotReportedLost
<1>. QED  BY <1>1, ObserverInvAlways, PTL

-------------------------------------------------------------------------------
(* The weekly triangle's ledger.  Scans and refreshes end within their week,  *)
(* and whatever scan records in a week, all of them go by what the first one   *)
(* remembered of it: an outcome found twice in a week is the same outcome.     *)

Statuses == {"PENDING", "NOT_APPLICABLE"} \cup Resolved

Everyone == Refreshers \cup {Scan}

Rows(ledger) ==
    /\ DOMAIN ledger \subseteq Codes \X (1..week)
    /\ \A row \in DOMAIN ledger : ledger[row] \in Statuses

TriangleTypes ==
    /\ shape \in Seq([Codes -> Stages])
    /\ scan \in {"idle", "full", "stratified", "captured", "refreshing"}
    /\ remembered \in [week : 0..week, codes : SUBSET Codes]
    /\ Rows(setups)
    /\ DOMAIN refresh = Everyone
    /\ \A r \in Everyone :
           /\ DOMAIN refresh[r] = {"pc", "looked", "pending"}
           /\ refresh[r].pc = "idle" => refresh[r] = Quiet
           /\ Rows(refresh[r].looked)
           /\ DOMAIN refresh[r].looked \subseteq DOMAIN setups
           /\ refresh[r].pending \subseteq DOMAIN setups

\* The scan has the channel while its own refresh is at work.
OneScanAtATime ==
    /\ scan # "refreshing" => refresh[Scan] = Quiet
    /\ scan # "idle" => week > 0 /\ remembered.week = week

\* What a scan of this week finds of a row that is open.
Outcome(row) ==
    IF \E b \in Candidates("BREAKOUT") : Converts(b, row) THEN "CONVERTED"
    ELSE IF row[2] <= week - Window THEN "NOT_CONVERTED" ELSE "PENDING"

FoundThisWeek(outcome, row) == remembered.week = week /\ outcome = Outcome(row)

\* A refresh may write an outcome back: what it has read is earned as well.
ReadOutcomesAreEarned ==
    \A r \in Everyone : \A row \in DOMAIN refresh[r].looked :
        Earned(refresh[r].looked[row], row)

\* An outcome that a refresh has read is the row's, or was taken back since and is the
\* one that this week's scans find.
ReadOutcomesHold ==
    \A r \in Everyone : \A row \in DOMAIN refresh[r].looked :
        refresh[r].looked[row] \in Resolved =>
            IF setups[row] \in Resolved THEN refresh[r].looked[row] = setups[row]
            ELSE FoundThisWeek(refresh[r].looked[row], row)

\* A refresh can have read a row before its outcome only if it was found this week.
OnlyNewOutcomesAreMissed ==
    \A r \in Everyone : \A row \in DOMAIN setups :
        Stale(r, row) /\ setups[row] \in Resolved => FoundThisWeek(setups[row], row)

TriangleInv ==
    /\ TriangleTypes /\ OneScanAtATime /\ OutcomesAreEarned /\ ReadOutcomesAreEarned
    /\ ReadOutcomesHold /\ OnlyNewOutcomesAreMissed

\* What a step within a week may do to a row that is there: leave it, find its outcome,
\* or reopen it on behalf of a refresh that had read it too early.
RowMoves(row) ==
    \/ setups'[row] = setups[row]
    \/ /\ setups[row] \notin Resolved
       /\ setups'[row] \in Resolved =>
              FoundThisWeek(setups'[row], row) /\ Earned(setups[row], row)'
    \/ setups'[row] \notin Resolved /\ \E r \in Everyone : Stale(r, row)

\* ... and to what a refresh has read: keep it or forget it, or read the rows as they are.
RefreshMoves(r) ==
    \/ /\ refresh'[r].looked \in {refresh[r].looked, NoRows}
       /\ refresh'[r].pending \subseteq refresh[r].pending
    \/ /\ setups' = setups
       /\ \/ refresh'[r].looked = setups /\ refresh'[r].pending = {}
          \/ /\ refresh'[r].looked = NoRows
             /\ refresh'[r].pending = {row \in DOMAIN setups : setups[row] = "PENDING"}

LEMMA TheWeekIsTheSame ==
    ASSUME UNCHANGED <<shape, remembered>>
    PROVE  /\ week' = week
           /\ \A stage : Candidates(stage)' = Candidates(stage)
           /\ \A row : Outcome(row)' = Outcome(row)
           /\ \A outcome, row : FoundThisWeek(outcome, row)' = FoundThisWeek(outcome, row)
BY DEF week, Candidates, Outcome, FoundThisWeek

\* A row added in this week begins no earlier episode.
LEMMA EpisodesStay ==
    ASSUME NEW table, NEW more, NEW now \in Nat, NEW row, row[2] \in Nat, row[2] <= now,
           DOMAIN table \subseteq DOMAIN more,
           \A other \in DOMAIN more \ DOMAIN table : other[2] = now,
           BeginsEpisode(table, row)
    PROVE  BeginsEpisode(more, row)
BY DEF BeginsEpisode

LEMMA RowsAreWithinTheWeek ==
    ASSUME TriangleTypes
    PROVE  /\ week \in Nat
           /\ \A row \in DOMAIN setups : row[2] \in Nat /\ row[2] <= week
<1>1. week \in Nat
  BY LenProperties DEF TriangleTypes, week
<1>2. DOMAIN setups \subseteq Codes \X (1..week)
  BY DEF TriangleTypes, Rows
<1>3. \A row \in Codes \X (1..week) : row[2] \in 1..week
  OBVIOUS
<1>. QED  BY <1>1, <1>2, <1>3

\* What was earned stays earned while rows of this week and breakouts are added.
LEMMA EarnedStays ==
    ASSUME TriangleTypes, week' = week \/ week' = week + 1, NEW outcome, NEW row,
           row[2] \in Nat, row[2] <= week,
           DOMAIN setups \subseteq DOMAIN setups',
           \A other \in DOMAIN setups' \ DOMAIN setups : other[2] = week,
           breakouts \subseteq breakouts', Earned(outcome, row)
    PROVE  Earned(outcome, row)'
<1>1. week \in Nat /\ Window \in Nat
  BY RowsAreWithinTheWeek, TriangleConstants
<1>2. BeginsEpisode(setups, row) => BeginsEpisode(setups', row)
  BY <1>1, EpisodesStay
<1>3. (outcome \in Resolved => BeginsEpisode(setups, row))'
  BY <1>2 DEF Earned, Resolved, BeginsEpisode
<1>4. (outcome = "CONVERTED" => \E b \in breakouts : Converts(b, row))'
  BY DEF Earned, Converts
<1>5. (outcome = "NOT_CONVERTED" => row[2] <= week - Window)'
  <2>1. row[2] <= week - Window => row[2] <= week' - Window
    BY <1>1
  <2>. QED  BY <2>1 DEF Earned
<1>. QED  BY <1>3, <1>4, <1>5 DEF Earned

LEMMA MovesKeepTheLedger ==
    ASSUME TriangleInv, UNCHANGED <<shape, remembered>>, TriangleTypes',
           DOMAIN setups \subseteq DOMAIN setups', breakouts \subseteq breakouts',
           \A row \in DOMAIN setups' \ DOMAIN setups :
               row[2] = week /\ Earned(setups[row], row)',
           \A row \in DOMAIN setups : RowMoves(row),
           \A r \in Everyone : RefreshMoves(r)
    PROVE  /\ OutcomesAreEarned' /\ ReadOutcomesAreEarned'
           /\ ReadOutcomesHold' /\ OnlyNewOutcomesAreMissed'
<1> USE DEF TriangleInv
<1>1. /\ week \in Nat /\ week' = week
      /\ \A row \in DOMAIN setups : row[2] \in Nat /\ row[2] <= week
  BY RowsAreWithinTheWeek, TheWeekIsTheSame
<1>2. \A outcome : \A row \in DOMAIN setups :
          Earned(outcome, row) => Earned(outcome, row)'
  BY <1>1, EarnedStays
<1>3. \A r \in Everyone :
          /\ DOMAIN refresh[r].looked \subseteq DOMAIN setups
          /\ refresh[r].pending \subseteq DOMAIN setups
          /\ DOMAIN refresh'[r].looked \subseteq DOMAIN setups
  <2>1. DOMAIN NoRows = {}
    BY DEF NoRows
  <2>. QED  BY <2>1 DEF TriangleTypes, RefreshMoves
<1>4. \A r \in Everyone : \A row \in DOMAIN setups : row \in DOMAIN refresh'[r].looked =>
          \/ row \in DOMAIN refresh[r].looked /\ refresh'[r].looked[row] = refresh[r].looked[row]
          \/ setups' = setups /\ refresh'[r].looked[row] = setups[row]
  <2>1. DOMAIN NoRows = {}
    BY DEF NoRows
  <2>. QED  BY <2>1 DEF RefreshMoves
<1>5. \A r \in Everyone : \A row \in DOMAIN setups : row \in refresh'[r].pending =>
          \/ row \in refresh[r].pending
          \/ setups' = setups /\ setups[row] = "PENDING"
  BY DEF RefreshMoves
<1>6. OutcomesAreEarned' /\ ReadOutcomesAreEarned'
  <2>1. ASSUME NEW row \in DOMAIN setups'  PROVE Earned(setups[row], row)'
    <3>1. CASE row \notin DOMAIN setups
      BY <3>1
    <3>2. CASE row \in DOMAIN setups
      <4>1. CASE setups'[row] = setups[row]
        <5>1. Earned(setups[row], row)
          BY <3>2 DEF OutcomesAreEarned
        <5>. QED  BY <1>2, <3>2, <4>1, <5>1 DEF Earned
      <4>2. CASE setups'[row] \notin Resolved
        BY <4>2 DEF Earned, Resolved
      <4>. QED  BY <3>2, <4>1, <4>2 DEF RowMoves
    <3>. QED  BY <3>1, <3>2
  <2>2. ASSUME NEW r \in Everyone, NEW row \in DOMAIN refresh'[r].looked
        PROVE  Earned(refresh[r].looked[row], row)'
    <3>1. row \in DOMAIN setups
      BY <1>3
    <3>2. CASE row \in DOMAIN refresh[r].looked /\ refresh'[r].looked[row] = refresh[r].looked[row]
      <4>1. Earned(refresh[r].looked[row], row)
        BY <3>2 DEF ReadOutcomesAreEarned
      <4>. QED  BY <1>2, <3>1, <3>2, <4>1 DEF Earned
    <3>3. CASE refresh'[r].looked[row] = setups[row]
      <4>1. Earned(setups[row], row)
        BY <3>1 DEF OutcomesAreEarned
      <4>. QED  BY <1>2, <3>1, <3>3, <4>1 DEF Earned
    <3>. QED  BY <1>4, <3>1, <3>2, <3>3
  <2>. QED  BY <2>1, <2>2 DEF OutcomesAreEarned, ReadOutcomesAreEarned
<1>7. ASSUME NEW r \in Everyone, NEW row \in DOMAIN refresh'[r].looked,
             refresh'[r].looked[row] \in Resolved
      PROVE  IF setups'[row] \in Resolved THEN refresh'[r].looked[row] = setups'[row]
             ELSE FoundThisWeek(refresh'[r].looked[row], row)
  <2>1. row \in DOMAIN setups
    BY <1>3
  <2>2. CASE setups' = setups /\ refresh'[r].looked[row] = setups[row]
    BY <1>7, <2>2
  <2>3. CASE row \in DOMAIN refresh[r].looked /\ refresh'[r].looked[row] = refresh[r].looked[row]
    <3>1. IF setups[row] \in Resolved THEN refresh[r].looked[row] = setups[row]
          ELSE FoundThisWeek(refresh[r].looked[row], row)
      BY <1>7, <2>3 DEF ReadOutcomesHold
    <3>2. CASE setups'[row] = setups[row]
      BY <2>3, <3>1, <3>2
    <3>3. CASE /\ setups[row] \notin Resolved
               /\ setups'[row] \in Resolved => FoundThisWeek(setups'[row], row)
      BY <2>3, <3>1, <3>3 DEF FoundThisWeek
    <3>4. CASE setups'[row] \notin Resolved /\ \E s \in Everyone : Stale(s, row)
      <4>1. setups[row] \in Resolved => FoundThisWeek(setups[row], row)
        BY <2>1, <3>4 DEF OnlyNewOutcomesAreMissed
      <4>. QED  BY <2>3, <3>1, <3>4, <4>1
    <3>. QED  BY <2>1, <3>2, <3>3, <3>4 DEF RowMoves
  <2>. QED  BY <1>4, <2>1, <2>2, <2>3
<1>8. ASSUME NEW r \in Everyone, NEW row \in DOMAIN setups', Stale(r, row)',
             setups'[row] \in Resolved
      PROVE  FoundThisWeek(setups'[row], row)
  <2>1. row \in DOMAIN setups
    BY <1>3, <1>5, <1>8 DEF Stale, RefreshMoves
  <2>2. Stale(r, row) \/ (setups' = setups /\ setups[row] \notin Resolved)
    BY <1>4, <1>5, <1>8, <2>1 DEF Stale, Resolved
  <2>3. Stale(r, row)
    BY <1>8, <2>2
  <2>4. setups[row] \in Resolved => FoundThisWeek(setups[row], row)
    BY <2>1, <2>3 DEF OnlyNewOutcomesAreMissed
  <2>. QED  BY <1>8, <2>1, <2>4 DEF RowMoves
<1>9. ReadOutcomesHold' /\ OnlyNewOutcomesAreMissed'
  BY <1>7, <1>8, TheWeekIsTheSame DEF ReadOutcomesHold, OnlyNewOutcomesAreMissed
<1>. QED  BY <1>6, <1>9

LEMMA TriangleInvHolds ==
    ASSUME TriangleInit
    PROVE  TriangleInv
<1>1. /\ week = 0 /\ setups = NoRows /\ DOMAIN NoRows = {} /\ scan = "idle"
      /\ remembered = [week |-> 0, codes |-> {}]
      /\ refresh = [r \in Everyone |-> Quiet]
  BY DEF TriangleInit, week, NoRows, Everyone
<1>2. Quiet.pc = "idle" /\ Quiet.looked = NoRows /\ Quiet.pending = {}
  BY DEF Quiet
<1>3. TriangleTypes
  <2>1. shape \in Seq([Codes -> Stages])
    BY DEF TriangleInit
  <2>2. Rows(NoRows)
    BY <1>1 DEF Rows
  <2>3. remembered \in [week : 0..week, codes : SUBSET Codes]
    BY <1>1
  <2>4. DOMAIN Quiet = {"pc", "looked", "pending"}
    BY DEF Quiet
  <2>5. DOMAIN refresh = Everyone /\ \A r \in Everyone : refresh[r] = Quiet
    BY <1>1
  <2>. QED  BY <1>1, <1>2, <2>1, <2>2, <2>3, <2>4, <2>5 DEF TriangleTypes
<1>4. OneScanAtATime
  BY <1>1 DEF OneScanAtATime, Everyone
<1>5. /\ OutcomesAreEarned /\ ReadOutcomesAreEarned
      /\ ReadOutcomesHold /\ OnlyNewOutcomesAreMissed
  BY <1>1, <1>2 DEF OutcomesAreEarned, ReadOutcomesAreEarned, ReadOutcomesHold,
                    OnlyNewOutcomesAreMissed
<1>. QED  BY <1>3, <1>4, <1>5 DEF TriangleInv

\* Another week, or the first look at it: no refresh is at work that has read rows.
LEMMA NextWeekKeepsTheLedger ==
    ASSUME TriangleInv, NextWeek
    PROVE  TriangleInv'
<1> USE DEF TriangleInv
<1>1. PICK shown \in [Codes -> Stages] : shape' = Append(shape, shown)
  BY DEF NextWeek
<1>2. /\ scan = "idle" /\ UNCHANGED <<remembered, setups, breakouts, scan, refresh>>
      /\ \A r \in Everyone : refresh[r] = Quiet
  BY DEF NextWeek, OneScanAtATime, TriangleTypes, Everyone
<1>3. week \in Nat /\ week' = week + 1 /\ shape' \in Seq([Codes -> Stages])
  BY <1>1, AppendProperties, LenProperties DEF TriangleTypes, week
<1>4. Quiet.pc = "idle" /\ Quiet.looked = NoRows /\ Quiet.pending = {} /\ DOMAIN NoRows = {}
  BY DEF Quiet, NoRows
<1>5. TriangleTypes'
  <2>2. Rows(setups)'
    BY <1>2, <1>3 DEF TriangleTypes, Rows
  <2>4. remembered' \in [week : 0..week', codes : SUBSET Codes]
    BY <1>2, <1>3 DEF TriangleTypes
  <2>5. \A r \in Everyone :
            /\ DOMAIN refresh[r] = {"pc", "looked", "pending"}
            /\ refresh[r].pc = "idle" => refresh[r] = Quiet
            /\ Rows(refresh[r].looked)'
            /\ DOMAIN refresh[r].looked \subseteq DOMAIN setups
            /\ refresh[r].pending \subseteq DOMAIN setups
    BY <1>2, <1>3, <1>4 DEF TriangleTypes, Rows
  <2>. QED  BY <1>2, <1>3, <2>2, <2>4, <2>5 DEF TriangleTypes, Rows
<1>6. OneScanAtATime'
  BY <1>2, <1>3 DEF OneScanAtATime, TriangleTypes
<1>7. (ReadOutcomesAreEarned /\ ReadOutcomesHold /\ OnlyNewOutcomesAreMissed)'
  BY <1>2, <1>4 DEF ReadOutcomesAreEarned, ReadOutcomesHold, OnlyNewOutcomesAreMissed, Stale
<1>8. OutcomesAreEarned'
  <2>1. ASSUME NEW row \in DOMAIN setups  PROVE Earned(setups[row], row)'
    <3>1. Earned(setups[row], row) /\ row[2] \in Nat /\ row[2] <= week
      BY RowsAreWithinTheWeek DEF OutcomesAreEarned
    <3>. QED  BY <1>2, <1>3, <3>1, EarnedStays DEF Earned
  <2>. QED  BY <1>2, <2>1 DEF OutcomesAreEarned
<1>. QED  BY <1>5, <1>6, <1>7, <1>8

LEMMA AnalyseKeepsTheLedger ==
    ASSUME TriangleInv, NEW kind \in {"full", "stratified"}, NEW seen \in SUBSET Codes,
           Analyse(kind, seen)
    PROVE  TriangleInv'
<1> USE DEF TriangleInv
<1>1. /\ scan = "idle" /\ week > 0 /\ scan' = kind
      /\ UNCHANGED <<shape, setups, breakouts, refresh>>
      /\ week \in Nat /\ week' = week
  BY RowsAreWithinTheWeek DEF Analyse, week
<1>2. \A r \in Everyone : Rows(refresh[r].looked)'
  BY <1>1 DEF TriangleTypes, Rows
<1>3. Rows(setups)'
  BY <1>1 DEF TriangleTypes, Rows
<1>4. OutcomesAreEarned' /\ ReadOutcomesAreEarned'
  BY <1>1 DEF OutcomesAreEarned, ReadOutcomesAreEarned, Earned, BeginsEpisode, Converts
<1>5. CASE remembered.week = week
  <2>1. UNCHANGED remembered
    BY <1>5 DEF Analyse
  <2>2. TriangleTypes'
    BY <1>1, <1>2, <1>3, <2>1 DEF TriangleTypes
  <2>3. OneScanAtATime'
    BY <1>1, <1>5, <2>1 DEF OneScanAtATime
  <2>4. (ReadOutcomesHold /\ OnlyNewOutcomesAreMissed)'
    BY <1>1, <2>1, TheWeekIsTheSame DEF ReadOutcomesHold, OnlyNewOutcomesAreMissed, Stale
  <2>. QED  BY <1>4, <2>2, <2>3, <2>4
<1>6. CASE remembered.week # week
  <2>1. remembered' = [week |-> week, codes |-> {c \in seen : shape[week][c] # "none"}]
    BY <1>6 DEF Analyse
  <2>2. remembered' \in [week : 0..week', codes : SUBSET Codes]
    BY <1>1, <2>1
  <2>3. TriangleTypes'
    BY <1>1, <1>2, <1>3, <2>2 DEF TriangleTypes
  <2>4. OneScanAtATime'
    BY <1>1, <2>1 DEF OneScanAtATime
  <2>5. \A outcome, row : ~FoundThisWeek(outcome, row)
    BY <1>6 DEF FoundThisWeek
  <2>6. (ReadOutcomesHold /\ OnlyNewOutcomesAreMissed)'
    BY <1>1, <2>5 DEF ReadOutcomesHold, OnlyNewOutcomesAreMissed, Stale
  <2>. QED  BY <1>4, <2>3, <2>4, <2>6
<1>. QED  BY <1>5, <1>6

\* What one transaction of a full scan does to a row.
LEMMA CaptureMoves ==
    ASSUME TriangleInv, Capture
    PROVE  /\ DOMAIN setups' = DOMAIN setups \cup Candidates("SETUP")
           /\ \A row \in DOMAIN setups : RowMoves(row)
           /\ \A row \in DOMAIN setups' \ DOMAIN setups : Earned(setups[row], row)'
           /\ \A row \in DOMAIN setups' : setups'[row] \in Statuses
<1> USE DEF TriangleInv
<1> DEFINE table == With(setups, [row \in Candidates("SETUP") |-> "PENDING"])
           open == Converted(Rebuilt(table), Candidates("BREAKOUT"))
<1>1. setups' = Expired(open)
  BY DEF Capture
<1>2. /\ DOMAIN table = DOMAIN setups \cup Candidates("SETUP")
      /\ \A row \in DOMAIN setups : table[row] = setups[row]
      /\ \A row \in DOMAIN table : table[row] \in Statuses
  BY DEF With, TriangleTypes, Rows, Statuses
<1> HIDE DEF table
<1>3. /\ DOMAIN Rebuilt(table) = DOMAIN table
      /\ \A row \in DOMAIN table :
             Rebuilt(table)[row] = IF ~BeginsEpisode(table, row) THEN "NOT_APPLICABLE"
                                  ELSE IF table[row] \in Resolved THEN table[row] ELSE "PENDING"
  BY DEF Rebuilt
<1>4. /\ DOMAIN open = DOMAIN table
      /\ \A row \in DOMAIN table :
             open[row] = IF /\ Rebuilt(table)[row] = "PENDING"
                            /\ \E b \in Candidates("BREAKOUT") : Converts(b, row)
                         THEN "CONVERTED" ELSE Rebuilt(table)[row]
  BY <1>3 DEF Converted
<1> HIDE DEF open
<1>5. /\ DOMAIN setups' = DOMAIN table
      /\ \A row \in DOMAIN table :
             setups'[row] = IF open[row] = "PENDING" /\ row[2] <= week - Window
                            THEN "NOT_CONVERTED" ELSE open[row]
  BY <1>1, <1>4 DEF Expired
<1>6. \A row \in DOMAIN table :
          BeginsEpisode(setups', row) <=> BeginsEpisode(table, row)
  BY <1>5 DEF BeginsEpisode
<1>7. /\ "PENDING" \notin Resolved /\ "NOT_APPLICABLE" \notin Resolved
      /\ "CONVERTED" \in Resolved /\ "NOT_CONVERTED" \in Resolved
      /\ \A s \in Resolved : s # "PENDING" /\ s # "NOT_APPLICABLE"
  BY DEF Resolved
<1>8. \A row \in DOMAIN table : setups'[row] \in Resolved => BeginsEpisode(setups', row)
  BY <1>3, <1>4, <1>5, <1>6, <1>7
<1>9. \A row \in DOMAIN table : setups'[row] \in Statuses
  BY <1>2, <1>3, <1>4, <1>5 DEF Statuses, Resolved
<1>10. ASSUME NEW row \in DOMAIN table, table[row] \notin Resolved
       PROVE  Earned(setups[row], row)'
  <2>1. breakouts' = breakouts \cup Candidates("BREAKOUT") /\ week' = week
    BY DEF Capture, week
  <2>2. setups'[row] = "CONVERTED" => \E b \in Candidates("BREAKOUT") : Converts(b, row)
    BY <1>3, <1>4, <1>5, <1>7, <1>10
  <2>3. setups'[row] = "NOT_CONVERTED" => row[2] <= week - Window
    BY <1>3, <1>4, <1>5, <1>7, <1>10
  <2>4. (setups[row] \in Resolved => BeginsEpisode(setups, row))'
    BY <1>8 DEF BeginsEpisode, Resolved
  <2>5. (setups[row] = "CONVERTED" => \E b \in breakouts : Converts(b, row))'
    BY <2>1, <2>2 DEF Converts
  <2>6. (setups[row] = "NOT_CONVERTED" => row[2] <= week - Window)'
    BY <2>1, <2>3
  <2>. QED  BY <2>4, <2>5, <2>6 DEF Earned
<1>11. ASSUME NEW row \in DOMAIN setups' \ DOMAIN setups  PROVE Earned(setups[row], row)'
  <2>1. row \in DOMAIN table /\ table[row] = "PENDING"
    BY <1>2, <1>5, <1>11 DEF table, With
  <2>. QED  BY <1>7, <1>10, <2>1
<1>12. ASSUME NEW row \in DOMAIN setups  PROVE RowMoves(row)
  <2>1. row \in DOMAIN table /\ table[row] = setups[row]
    BY <1>2
  <2>2. CASE setups[row] \in Resolved
    <3>1. BeginsEpisode(setups, row)
      BY <2>2 DEF OutcomesAreEarned, Earned
    <3>2. \A other \in DOMAIN table \ DOMAIN setups : other[2] = week
      BY <1>2 DEF Candidates
    <3>3. BeginsEpisode(table, row)
      BY <1>2, <3>1, <3>2, RowsAreWithinTheWeek, EpisodesStay
    <3>4. setups'[row] = setups[row]
      BY <1>3, <1>4, <1>5, <1>7, <2>1, <2>2, <3>3
    <3>. QED  BY <3>4 DEF RowMoves
  <2>3. CASE setups[row] \notin Resolved
    <3>1. setups'[row] \in Resolved => setups'[row] = Outcome(row)
      <4>1. CASE ~BeginsEpisode(table, row)
        BY <1>3, <1>4, <1>5, <1>7, <2>1, <4>1
      <4>2. CASE BeginsEpisode(table, row)
        <5>1. Rebuilt(table)[row] = "PENDING"
          BY <1>3, <2>1, <2>3, <4>2
        <5>. QED  BY <1>4, <1>5, <1>7, <2>1, <5>1 DEF Outcome
      <4>. QED  BY <4>1, <4>2
    <3>2. remembered.week = week
      BY DEF Capture, OneScanAtATime
    <3>3. Earned(setups[row], row)'
      BY <1>10, <2>1, <2>3
    <3>. QED  BY <2>3, <3>1, <3>2, <3>3 DEF RowMoves, FoundThisWeek
  <2>. QED  BY <2>2, <2>3
<1>. QED  BY <1>2, <1>5, <1>9, <1>11, <1>12

\* A refresh that rebuilds from table it has read puts back what they said.
LEMMA RebuildMoves ==
    ASSUME TriangleInv, NEW r \in Everyone, Rebuild(r)
    PROVE  /\ DOMAIN setups' = DOMAIN setups
           /\ \A row \in DOMAIN setups : RowMoves(row) /\ setups'[row] \in Statuses
<1> USE DEF TriangleInv
<1> DEFINE looked == refresh[r].looked
<1>1. setups' = With(Rebuilt(looked), setups)
  BY DEF Rebuild
<1>2. DOMAIN looked \subseteq DOMAIN setups /\ DOMAIN Rebuilt(looked) = DOMAIN looked
  BY DEF TriangleTypes, Rebuilt
<1>3. /\ DOMAIN setups' = DOMAIN setups
      /\ \A row \in DOMAIN setups :
             setups'[row] = IF row \in DOMAIN looked THEN Rebuilt(looked)[row] ELSE setups[row]
  BY <1>1, <1>2 DEF With
<1>4. /\ "PENDING" \notin Resolved /\ "NOT_APPLICABLE" \notin Resolved
      /\ {"PENDING", "NOT_APPLICABLE"} \cup Resolved = Statuses
  BY DEF Resolved, Statuses
<1>5. ASSUME NEW row \in DOMAIN setups
      PROVE  RowMoves(row) /\ setups'[row] \in Statuses
  <2>1. CASE row \notin DOMAIN looked
    BY <1>3, <2>1 DEF RowMoves, TriangleTypes, Rows
  <2>2. CASE row \in DOMAIN looked /\ looked[row] \in Resolved
    <3>1. Earned(looked[row], row)
      BY <2>2 DEF ReadOutcomesAreEarned
    <3>2. BeginsEpisode(looked, row)
      BY <1>2, <2>2, <3>1 DEF Earned, BeginsEpisode
    <3>3. setups'[row] = looked[row]
      BY <1>3, <2>2, <3>2 DEF Rebuilt
    <3>4. IF setups[row] \in Resolved THEN looked[row] = setups[row]
          ELSE FoundThisWeek(looked[row], row)
      BY <2>2 DEF ReadOutcomesHold
    <3>5. Earned(setups[row], row)'
      <4>1. week' = week /\ breakouts' = breakouts /\ DOMAIN setups' = DOMAIN setups
        BY <1>3 DEF Rebuild, week
      <4> HIDE DEF looked
      <4>. QED  BY <3>1, <3>3, <4>1 DEF Earned, BeginsEpisode, Converts
    <3>. QED  BY <1>4, <2>2, <3>3, <3>4, <3>5 DEF RowMoves
  <2>3. CASE row \in DOMAIN looked /\ looked[row] \notin Resolved
    <3>1. setups'[row] \in {"PENDING", "NOT_APPLICABLE"}
      BY <1>3, <2>3 DEF Rebuilt
    <3>2. Stale(r, row)
      BY <2>3 DEF Stale
    <3>. QED  BY <1>4, <3>1, <3>2 DEF RowMoves
  <2>. QED  BY <2>1, <2>2, <2>3
<1>. QED  BY <1>3, <1>5

LEMMA WriteBackMoves ==
    ASSUME TriangleInv, NEW r \in Everyone, WriteBack(r)
    PROVE  /\ DOMAIN setups' = DOMAIN setups
           /\ \A row \in DOMAIN setups : RowMoves(row) /\ setups'[row] \in Statuses
<1>1. PICK fetched \in SUBSET Codes :
          setups' = [row \in DOMAIN setups |->
              IF row \in refresh[r].pending /\ row[1] \in fetched
              THEN "PENDING" ELSE setups[row]]
  BY DEF WriteBack
<1>2. ASSUME NEW row \in DOMAIN setups
      PROVE  RowMoves(row) /\ setups'[row] \in Statuses
  <2>1. CASE row \in refresh[r].pending /\ row[1] \in fetched
    <3>1. setups'[row] = "PENDING" /\ "PENDING" \notin Resolved /\ Stale(r, row)
      BY <1>1, <2>1 DEF Resolved, Stale
    <3>. QED  BY <3>1 DEF RowMoves, Statuses
  <2>2. CASE ~(row \in refresh[r].pending /\ row[1] \in fetched)
    BY <1>1, <2>2 DEF RowMoves, TriangleInv, TriangleTypes, Rows
  <2>. QED  BY <2>1, <2>2
<1>. QED  BY <1>1, <1>2

\* Any step within a week.
LEMMA StepsWithinTheWeek ==
    ASSUME TriangleInv,
           Capture \/ EndScan \/ (\E r \in Everyone : Refresh(r)) \/ UNCHANGED triangleVars
    PROVE  /\ UNCHANGED <<shape, remembered>>
           /\ DOMAIN setups \subseteq DOMAIN setups' /\ breakouts \subseteq breakouts'
           /\ \A row \in DOMAIN setups' \ DOMAIN setups :
                  /\ row \in Codes \X (1..week) /\ row[2] = week
                  /\ Earned(setups[row], row)'
           /\ \A row \in DOMAIN setups : RowMoves(row)
           /\ \A row \in DOMAIN setups' : setups'[row] \in Statuses
           /\ \A r \in Everyone : RefreshMoves(r)
<1> USE DEF TriangleInv
<1>1. /\ \A row \in DOMAIN setups : setups[row] \in Statuses
      /\ DOMAIN refresh = Everyone
      /\ Quiet.looked = NoRows /\ Quiet.pending = {} /\ DOMAIN NoRows = {}
  BY DEF TriangleTypes, Rows, Quiet, NoRows
<1>2. CASE Capture
  <2>1. \A row \in Candidates("SETUP") : row \in Codes \X (1..week) /\ row[2] = week
    <3>1. week \in Nat /\ week > 0 /\ remembered.codes \in SUBSET Codes
      BY <1>2, RowsAreWithinTheWeek DEF Capture, OneScanAtATime, TriangleTypes
    <3>. QED  BY <3>1 DEF Candidates
  <2>2. breakouts \subseteq breakouts'
    BY <1>2 DEF Capture
  <2>. QED  BY <1>2, <2>1, <2>2, CaptureMoves DEF Capture, RefreshMoves
<1>3. CASE EndScan
  <2>1. /\ UNCHANGED <<shape, remembered, setups, breakouts>>
        /\ refresh' = [refresh EXCEPT ![Scan] = Quiet]
    BY <1>3 DEF EndScan
  <2>. QED  BY <1>1, <2>1 DEF RowMoves, RefreshMoves
<1>4. CASE UNCHANGED triangleVars
  BY <1>1, <1>4 DEF triangleVars, RowMoves, RefreshMoves
<1>5. ASSUME NEW r \in Everyone, Look(r)
      PROVE  /\ UNCHANGED <<shape, remembered, setups>>
             /\ \A s \in Everyone : RefreshMoves(s)
  <2>1. /\ UNCHANGED <<shape, remembered, setups>>
        /\ refresh' = [refresh EXCEPT ![r] = [Quiet EXCEPT !.pc = "rebuilding", !.looked = setups]]
    BY <1>5 DEF Look
  <2>2. refresh'[r].looked = setups /\ refresh'[r].pending = {}
    BY <1>1, <2>1 DEF Quiet
  <2>3. \A s \in Everyone : s # r => refresh'[s] = refresh[s]
    BY <1>1, <2>1
  <2>. QED  BY <2>1, <2>2, <2>3 DEF RefreshMoves
<1>6. ASSUME NEW r \in Everyone, Rebuild(r)
      PROVE  UNCHANGED <<shape, remembered>> /\ \A s \in Everyone : RefreshMoves(s)
  <2>1. /\ UNCHANGED <<shape, remembered>>
        /\ refresh' = [refresh EXCEPT ![r] = [Quiet EXCEPT !.pc = "reading"]]
    BY <1>6 DEF Rebuild
  <2>2. refresh'[r].looked = NoRows /\ refresh'[r].pending = {}
    BY <1>1, <2>1 DEF Quiet
  <2>3. \A s \in Everyone : s # r => refresh'[s] = refresh[s]
    BY <1>1, <2>1
  <2>. QED  BY <2>1, <2>2, <2>3 DEF RefreshMoves
<1>7. ASSUME NEW r \in Everyone, ReadPending(r)
      PROVE  /\ UNCHANGED <<shape, remembered, setups>>
             /\ \A s \in Everyone : RefreshMoves(s)
  <2> DEFINE pendingNow == {row \in DOMAIN setups : setups[row] = "PENDING"}
  <2>1. /\ UNCHANGED <<shape, remembered, setups>>
        /\ refresh' = [refresh EXCEPT ![r] =
               IF pendingNow = {} THEN Quiet
               ELSE [Quiet EXCEPT !.pc = IF r = Scan THEN "writing" ELSE "fetching",
                                  !.pending = pendingNow]]
    BY <1>7 DEF ReadPending
  <2>2. refresh'[r].looked = NoRows /\ refresh'[r].pending = pendingNow
    <3> HIDE DEF pendingNow
    <3>. QED  BY <1>1, <2>1 DEF Quiet
  <2>3. \A s \in Everyone : s # r => refresh'[s] = refresh[s]
    BY <1>1, <2>1
  <2>. QED  BY <2>1, <2>2, <2>3 DEF RefreshMoves
<1>8. ASSUME NEW r \in Everyone, Fetch(r)
      PROVE  /\ UNCHANGED <<shape, remembered, setups>>
             /\ \A s \in Everyone : RefreshMoves(s)
  <2>1. /\ UNCHANGED <<shape, remembered, setups>>
        /\ \/ refresh' = [refresh EXCEPT ![r].pc = "writing"]
           \/ refresh' = [refresh EXCEPT ![r] = Quiet]
    BY <1>8 DEF Fetch
  <2>2. /\ refresh'[r].looked \in {refresh[r].looked, NoRows}
        /\ refresh'[r].pending \subseteq refresh[r].pending
    <3>1. DOMAIN refresh[r] = {"pc", "looked", "pending"}
      BY DEF TriangleTypes
    <3>. QED  BY <1>1, <2>1, <3>1
  <2>3. \A s \in Everyone : s # r => refresh'[s] = refresh[s]
    BY <1>1, <2>1
  <2>. QED  BY <2>1, <2>2, <2>3 DEF RefreshMoves
<1>9. ASSUME NEW r \in Everyone, WriteBack(r)
      PROVE  UNCHANGED <<shape, remembered>> /\ \A s \in Everyone : RefreshMoves(s)
  <2>1. UNCHANGED <<shape, remembered>> /\ refresh' = [refresh EXCEPT ![r] = Quiet]
    BY <1>9 DEF WriteBack
  <2>. QED  BY <1>1, <2>1 DEF RefreshMoves
<1>10. CASE \E r \in Everyone : Refresh(r)
  <2>1. PICK r \in Everyone : Refresh(r)
    BY <1>10
  <2>2. /\ UNCHANGED <<shape, remembered>>
        /\ \A s \in Everyone : RefreshMoves(s)
    BY <1>5, <1>6, <1>7, <1>8, <1>9, <2>1 DEF Refresh
  <2>3. breakouts' = breakouts
    BY <2>1 DEF Refresh, Look, Rebuild, ReadPending, Fetch, WriteBack
  <2>4. CASE setups' = setups
    BY <1>1, <2>2, <2>4, <2>3 DEF RowMoves
  <2>5. CASE Rebuild(r) \/ WriteBack(r)
    <3>1. /\ DOMAIN setups' = DOMAIN setups
          /\ \A row \in DOMAIN setups : RowMoves(row) /\ setups'[row] \in Statuses
      BY <2>5, RebuildMoves, WriteBackMoves
    <3>. QED  BY <2>2, <2>3, <3>1
  <2>. QED  BY <1>5, <1>7, <1>8, <2>1, <2>4, <2>5 DEF Refresh
<1>. QED  BY <1>2, <1>3, <1>4, <1>10

LEMMA TypesWithinTheWeek ==
    ASSUME TriangleInv,
           Capture \/ EndScan \/ (\E r \in Everyone : Refresh(r)) \/ UNCHANGED triangleVars
    PROVE  TriangleTypes' /\ OneScanAtATime'
<1> USE DEF TriangleInv
<1>1. /\ UNCHANGED <<shape, remembered>> /\ week' = week
      /\ DOMAIN setups \subseteq DOMAIN setups'
      /\ \A r \in Everyone : RefreshMoves(r)
  BY StepsWithinTheWeek, TheWeekIsTheSame
<1>2. Rows(setups)'
  BY <1>1, StepsWithinTheWeek DEF Rows, TriangleTypes
<1>3. \A r \in Everyone :
          /\ Rows(refresh[r].looked)'
          /\ DOMAIN refresh'[r].looked \subseteq DOMAIN setups'
          /\ refresh'[r].pending \subseteq DOMAIN setups'
  <2>1. DOMAIN NoRows = {}
    BY DEF NoRows
  <2>2. ASSUME NEW r \in Everyone
        PROVE  /\ Rows(refresh[r].looked)'
               /\ DOMAIN refresh'[r].looked \subseteq DOMAIN setups'
               /\ refresh'[r].pending \subseteq DOMAIN setups'
    <3>1. /\ Rows(refresh[r].looked) /\ Rows(setups)
          /\ DOMAIN refresh[r].looked \subseteq DOMAIN setups
          /\ refresh[r].pending \subseteq DOMAIN setups
      BY DEF TriangleTypes
    <3>2. refresh'[r].looked \in {refresh[r].looked, NoRows, setups}
      BY <1>1 DEF RefreshMoves
    <3>3. Rows(refresh[r].looked)'
      BY <1>1, <2>1, <3>1, <3>2 DEF Rows
    <3>4. DOMAIN refresh'[r].looked \subseteq DOMAIN setups'
      BY <1>1, <2>1, <3>1, <3>2
    <3>5. refresh'[r].pending \subseteq DOMAIN setups'
      BY <1>1, <3>1 DEF RefreshMoves
    <3>. QED  BY <3>3, <3>4, <3>5
  <2>. QED  BY <2>2
<1>4. /\ scan' \in {"idle", "full", "stratified", "captured", "refreshing"}
      /\ DOMAIN refresh' = Everyone
      /\ \A r \in Everyone :
             /\ DOMAIN refresh'[r] = {"pc", "looked", "pending"}
             /\ refresh'[r].pc = "idle" => refresh'[r] = Quiet
      /\ OneScanAtATime'
  <2> DEFINE Formed(q) ==
                 /\ DOMAIN q = {"pc", "looked", "pending"}
                 /\ q.pc = "idle" => q = Quiet
  <2>1. /\ DOMAIN refresh = Everyone /\ Scan \in Everyone
        /\ \A r \in Everyone : Formed(refresh[r])
        /\ scan \in {"idle", "full", "stratified", "captured", "refreshing"}
        /\ scan # "refreshing" => refresh[Scan] = Quiet
        /\ scan # "idle" => week > 0 /\ remembered.week = week
        /\ Quiet.pc = "idle"
    BY DEF TriangleTypes, OneScanAtATime, Everyone, Quiet
  <2>2. Formed(Quiet)
    BY DEF Quiet
  <2>3. ASSUME NEW r \in Everyone, NEW q, refresh' = [refresh EXCEPT ![r] = q], Formed(q),
               scan' = scan \/ (r = Scan /\ scan' = "refreshing" /\ scan # "idle")
                            \/ (r = Scan /\ scan' = "idle" /\ q = Quiet),
               r = Scan => scan' = "refreshing" \/ q = Quiet
        PROVE  /\ scan' \in {"idle", "full", "stratified", "captured", "refreshing"}
               /\ DOMAIN refresh' = Everyone
               /\ \A s \in Everyone : Formed(refresh'[s])
               /\ OneScanAtATime'
    <3> HIDE DEF Formed
    <3>1. /\ DOMAIN refresh' = Everyone /\ refresh'[r] = q
          /\ \A s \in Everyone : s # r => refresh'[s] = refresh[s]
      BY <2>1, <2>3
    <3>2. scan' \in {"idle", "full", "stratified", "captured", "refreshing"}
      BY <2>1, <2>3
    <3>3. (scan # "refreshing" => refresh[Scan] = Quiet)'
      BY <2>1, <2>3, <3>1
    <3>4. (scan # "idle" => week > 0 /\ remembered.week = week)'
      BY <1>1, <2>1, <2>3
    <3>. QED  BY <2>1, <2>3, <3>1, <3>2, <3>3, <3>4 DEF OneScanAtATime
  <2>4. CASE Capture \/ UNCHANGED triangleVars
    BY <1>1, <2>1, <2>4 DEF Capture, triangleVars, OneScanAtATime
  <2>5. CASE EndScan
    BY <2>1, <2>2, <2>3, <2>5 DEF EndScan
  <2>6. ASSUME NEW r \in Everyone, Refresh(r)
        PROVE  \E q : /\ refresh' = [refresh EXCEPT ![r] = q]
                      /\ Formed(q)
                      /\ \/ scan' = scan
                         \/ r = Scan /\ scan' = "refreshing" /\ scan # "idle"
                      /\ r = Scan => scan' = "refreshing" \/ q = Quiet
    <3>1. CASE Look(r)
      <4> DEFINE q == [Quiet EXCEPT !.pc = "rebuilding", !.looked = setups]
      <4>1. Formed(q)
        <5>1. q.pc = "rebuilding" /\ DOMAIN q = {"pc", "looked", "pending"}
          BY DEF Quiet
        <5> HIDE DEF q
        <5>. QED  BY <5>1
      <4>2. /\ refresh' = [refresh EXCEPT ![r] = q]
            /\ IF r = Scan THEN scan = "captured" /\ scan' = "refreshing" ELSE scan' = scan
        BY <3>1 DEF Look
      <4> HIDE DEF q, Formed
      <4>. QED  BY <4>1, <4>2
    <3>2. ASSUME refresh[r].pc # "idle", r = Scan  PROVE scan = "refreshing"
      BY <2>1, <3>2
    <3>3. CASE Rebuild(r)
      <4> DEFINE q == [Quiet EXCEPT !.pc = "reading"]
      <4>1. Formed(q)
        BY DEF Quiet
      <4>2. refresh' = [refresh EXCEPT ![r] = q] /\ scan' = scan /\ refresh[r].pc # "idle"
        BY <3>3 DEF Rebuild
      <4> HIDE DEF q, Formed
      <4>. QED  BY <3>2, <4>1, <4>2
    <3>4. CASE ReadPending(r)
      <4> DEFINE pendingNow == {row \in DOMAIN setups : setups[row] = "PENDING"}
                 q == IF pendingNow = {} THEN Quiet
                      ELSE [Quiet EXCEPT !.pc = IF r = Scan THEN "writing" ELSE "fetching",
                                         !.pending = pendingNow]
      <4>1. refresh' = [refresh EXCEPT ![r] = q] /\ scan' = scan /\ refresh[r].pc # "idle"
        BY <3>4 DEF ReadPending
      <4> HIDE DEF pendingNow
      <4>2. ASSUME pendingNow = {}  PROVE Formed(q)
        BY <2>2, <4>2
      <4>3. ASSUME pendingNow # {}  PROVE Formed(q)
        <5> DEFINE place == IF r = Scan THEN "writing" ELSE "fetching"
        <5>1. q = [pc |-> place, looked |-> NoRows, pending |-> pendingNow]
          BY <4>3 DEF Quiet
        <5>2. place # "idle"
          OBVIOUS
        <5> HIDE DEF place, q
        <5>. QED  BY <5>1, <5>2
      <4>4. Formed(q)
        BY <4>2, <4>3
      <4> HIDE DEF q, Formed
      <4>. QED  BY <3>2, <4>1, <4>4
    <3>5. CASE Fetch(r)
      <4>1. PICK q \in {[refresh[r] EXCEPT !.pc = "writing"], Quiet} :
                refresh' = [refresh EXCEPT ![r] = q]
        BY <3>5 DEF Fetch
      <4>2. Formed(q)
        BY <2>1, <2>2
      <4>3. scan' = scan /\ refresh[r].pc # "idle"
        BY <3>5 DEF Fetch
      <4> HIDE DEF Formed
      <4>. QED  BY <3>2, <4>1, <4>2, <4>3
    <3>6. CASE WriteBack(r)
      <4>1. refresh' = [refresh EXCEPT ![r] = Quiet] /\ scan' = scan
        BY <3>6 DEF WriteBack
      <4> HIDE DEF Formed
      <4>. QED  BY <2>2, <4>1
    <3>. QED  BY <2>6, <3>1, <3>3, <3>4, <3>5, <3>6 DEF Refresh
  <2>7. CASE \E r \in Everyone : Refresh(r)
    <3> HIDE DEF Formed
    <3>1. PICK r \in Everyone : Refresh(r)
      BY <2>7
    <3>2. PICK q : /\ refresh' = [refresh EXCEPT ![r] = q]
                   /\ Formed(q)
                   /\ \/ scan' = scan
                      \/ r = Scan /\ scan' = "refreshing" /\ scan # "idle"
                   /\ r = Scan => scan' = "refreshing" \/ q = Quiet
      BY <2>6, <3>1
    <3>3. /\ scan' \in {"idle", "full", "stratified", "captured", "refreshing"}
          /\ DOMAIN refresh' = Everyone
          /\ \A s \in Everyone : Formed(refresh'[s])
          /\ OneScanAtATime'
      BY <2>3, <3>2
    <3>. QED  BY <3>3 DEF Formed
  <2>. QED  BY <2>4, <2>5, <2>7
<1>5. shape' \in Seq([Codes -> Stages])
      /\ remembered' \in [week : 0..week', codes : SUBSET Codes]
  BY <1>1 DEF TriangleTypes
<1>. QED  BY <1>2, <1>3, <1>4, <1>5 DEF TriangleTypes

THEOREM TriangleInvStays ==
    ASSUME TriangleInv, [TriangleNext]_triangleVars
    PROVE  TriangleInv' /\ (UNCHANGED setups \/ \A row \in DOMAIN setups : RowMoves(row))
<1>1. CASE NextWeek
  BY <1>1, NextWeekKeepsTheLedger DEF NextWeek
<1>2. CASE \E kind \in {"full", "stratified"}, seen \in SUBSET Codes : Analyse(kind, seen)
  BY <1>2, AnalyseKeepsTheLedger DEF Analyse
<1>3. CASE Capture \/ EndScan \/ (\E r \in Everyone : Refresh(r)) \/ UNCHANGED triangleVars
  <2>1. /\ UNCHANGED <<shape, remembered>> /\ week' = week
        /\ DOMAIN setups \subseteq DOMAIN setups'
        /\ \A row \in DOMAIN setups : RowMoves(row)
    BY <1>3, StepsWithinTheWeek, TheWeekIsTheSame
  <2>2. TriangleTypes' /\ OneScanAtATime'
    BY <1>3, TypesWithinTheWeek
  <2>3. /\ OutcomesAreEarned' /\ ReadOutcomesAreEarned'
        /\ ReadOutcomesHold' /\ OnlyNewOutcomesAreMissed'
    BY <1>3, <2>2, StepsWithinTheWeek, MovesKeepTheLedger
  <2>. QED  BY <2>1, <2>2, <2>3 DEF TriangleInv
<1>. QED  BY <1>1, <1>2, <1>3 DEF TriangleNext, Everyone

THEOREM TriangleInvAlways == TriangleSpec => []TriangleInv
<1>1. TriangleInit => TriangleInv
  BY TriangleInvHolds
<1>2. TriangleInv /\ [TriangleNext]_triangleVars => TriangleInv'
  BY TriangleInvStays
<1>. QED  BY <1>1, <1>2, PTL DEF TriangleSpec

\* Only an episode's first setup has an outcome, and none without its breakout or before
\* its time: _rebuild_setup_hypotheses and _refresh_setup_conversions of scans, with the
\* refreshes between and beside them.
THEOREM OutcomesHaveGrounds == TriangleSpec => []OutcomesAreEarned
<1>1. TriangleInv => OutcomesAreEarned
  BY DEF TriangleInv
<1>. QED  BY <1>1, TriangleInvAlways, PTL

\* Only a refresh that had read a row before its outcome was recorded takes the outcome
\* back: _refresh_records beside a scan.
THEOREM OutcomesReopenOnlyByOverlap == TriangleSpec => OnlyAnOverlapReopens
<1>1. TriangleInv /\ [TriangleNext]_triangleVars =>
          [\A row \in DOMAIN setups :
              setups[row] \in Resolved /\ setups'[row] # setups[row] =>
                  \E r \in Refreshers \cup {Scan} : Stale(r, row)]_triangleVars
  <2>1. SUFFICES ASSUME TriangleInv, [TriangleNext]_triangleVars, NEW row \in DOMAIN setups,
                        setups[row] \in Resolved, setups'[row] # setups[row]
                 PROVE  \E r \in Everyone : Stale(r, row)
    BY DEF Everyone
  <2>. QED  BY <2>1, TriangleInvStays DEF RowMoves
<1>. QED  BY <1>1, TriangleInvAlways, PTL DEF TriangleSpec, OnlyAnOverlapReopens

-------------------------------------------------------------------------------
(* Market data snapshots: a builder works in a row of its own until it commits. *)

IndexInv ==
    /\ DOMAIN rows = RowKeys
    /\ DOMAIN files = Builders
    /\ \A b \in Builders : IsFiniteSet(files[b])

LEMMA RowsOfTheIndex ==
    ASSUME IndexInv, [Next]_vars
    PROVE  /\ DOMAIN rows' = RowKeys
           /\ \A k \in Keys : rows[k] # None /\ rows'[k] # rows[k] =>
                  \/ rows'[k] # None /\ rows'[k].status = "READY"
                  \/ \E t \in Threads : At(t, "forgetting") /\ Target(t).key = k
<1> USE DEF IndexInv
<1> DEFINE Ready(k) == rows'[k] # None /\ rows'[k].status = "READY"
           Forgotten(k) == \E t \in Threads : At(t, "forgetting") /\ Target(t).key = k
           Fine == /\ DOMAIN rows' = RowKeys
                   /\ \A k \in Keys : rows[k] # None /\ rows'[k] # rows[k] =>
                          Ready(k) \/ Forgotten(k)
<1>1. Keys \subseteq RowKeys /\ Builders \subseteq RowKeys /\ Keys \cap Builders = {}
  BY CacheConstants DEF RowKeys
<1>2. ASSUME rows' = rows  PROVE Fine
  BY <1>2
<1>3. ASSUME NEW b \in Builders, Raise(b)  PROVE Fine
  <2>1. rows' = rows \/ \E row : rows' = [rows EXCEPT ![b] = row]
    BY <1>3 DEF Raise, BuildRow
  <2>. QED  BY <1>1, <2>1
<1>4. ASSUME NEW b \in Builders, BuilderNext(b)  PROVE Fine
  <2>1. CASE Begin(b)
    <3>1. \E row : rows' = [rows EXCEPT ![b] = row]
      BY <2>1 DEF Begin, BuildRow
    <3>. QED  BY <1>1, <3>1
  <2>2. CASE Commit(b)
    <3>1. CASE Raise(b)
      BY <1>3, <3>1
    <3>2. CASE ~Raise(b)
      <4>1. rows' = [k \in RowKeys |->
                CASE k = KeyOf[b] -> [snap |-> b, status |-> "READY", size |-> Cardinality(files[b])]
                  [] k = b -> None
                  [] OTHER -> rows[k]]
        BY <2>2, <3>2 DEF Commit
      <4>2. KeyOf[b] \in Keys /\ KeyOf[b] # b /\ None \notin RowKeys
        BY <1>1, CacheConstants
      <4>3. DOMAIN rows' = RowKeys
        BY <4>1
      <4>4. \A k \in Keys : k # KeyOf[b] => rows'[k] = rows[k]
        BY <1>1, <4>1
      <4>5. rows'[KeyOf[b]] = [snap |-> b, status |-> "READY", size |-> Cardinality(files[b])]
        BY <1>1, <4>1, <4>2
      <4>6. Cardinality(files[b]) \in Nat
        BY FS_CardinalityType
      <4>7. Ready(KeyOf[b])
        <5>1. rows'[KeyOf[b]] \in [snap : Builders, status : {"BUILDING", "READY", "FAILED"},
                                   size : Nat]
          BY <4>5, <4>6
        <5>. QED  BY <4>5, <5>1, CacheConstants
      <4> HIDE DEF Ready
      <4>. QED  BY <4>3, <4>4, <4>7
    <3>. QED  BY <3>1, <3>2
  <2>3. CASE ~Begin(b) /\ ~Commit(b)
    <3>1. rows' = rows \/ Raise(b)
      BY <1>4, <2>3 DEF BuilderNext, Start, Acquire, FindHit, Load, Replay, WriteFile, ListFile,
                        Break, Execute, Record, disk
    <3>. QED  BY <1>2, <1>3, <3>1
  <2>. QED  BY <2>1, <2>2, <2>3
<1>5. ASSUME NEW t \in Threads, PruneNext(t)  PROVE Fine
  <2>1. CASE Forget(t)
    <3>1. rows' = [rows EXCEPT ![Target(t).key] = None] /\ At(t, "forgetting")
      BY <2>1 DEF Forget
    <3>. QED  BY <1>1, <3>1
  <2>2. CASE ~Forget(t)
    <3>1. rows' = rows \/ (t \in Builders /\ Raise(t))
      BY <1>5, <2>2 DEF PruneNext, ListRows, ReadReferences, EndPrune, Skip, Choose, RemoveTree,
                        Threads, disk
    <3>. QED  BY <1>2, <1>3, <3>1
  <2>. QED  BY <2>1, <2>2
<1>6. ASSUME (\E t \in Operators : Ask(t)) \/ Crash \/ UNCHANGED vars  PROVE Fine
  BY <1>2, <1>6 DEF Ask, Crash, vars, disk
<1>. QED  BY <1>4, <1>5, <1>6 DEF Next

LEMMA IndexInvStays ==
    ASSUME IndexInv, [Next]_vars
    PROVE  IndexInv'
<1>1. DOMAIN rows' = RowKeys
  BY RowsOfTheIndex
<1>2. ASSUME \/ files' = files
             \/ \E b \in Builders : \E d : files' = [files EXCEPT ![b] = @ \cup {d}]
             \/ \E s : files' = [files EXCEPT ![s] = {}]
      PROVE  IndexInv'
  <2>1. DOMAIN files' = Builders
    BY <1>2 DEF IndexInv
  <2>2. ASSUME NEW b \in Builders  PROVE IsFiniteSet(files'[b])
    <3>1. IsFiniteSet(files[b]) /\ IsFiniteSet({})
      BY FS_EmptySet DEF IndexInv
    <3>2. \A d : IsFiniteSet(files[b] \cup {d})
      BY <3>1, FS_AddElement
    <3>3. files'[b] = files[b] \/ files'[b] = {} \/ \E d : files'[b] = files[b] \cup {d}
      BY <1>2 DEF IndexInv
    <3>. QED  BY <3>1, <3>2, <3>3
  <2>. QED  BY <1>1, <2>1, <2>2 DEF IndexInv
<1>3. ASSUME NEW b \in Builders, BuilderNext(b)
      PROVE  \/ files' = files
             \/ \E d : files' = [files EXCEPT ![b] = @ \cup {d}]
  BY <1>3 DEF BuilderNext, Start, Acquire, FindHit, Begin, Load, Replay, WriteFile, ListFile,
              Break, Execute, Record, Commit, Raise, disk
<1>4. ASSUME NEW t \in Threads, PruneNext(t)
      PROVE  files' = files \/ \E s : files' = [files EXCEPT ![s] = {}]
  BY <1>4 DEF PruneNext, ListRows, ReadReferences, EndPrune, Skip, Choose, RemoveTree, Forget,
              Raise, disk
<1>5. ASSUME (\E t \in Operators : Ask(t)) \/ Crash \/ UNCHANGED vars  PROVE files' = files
  BY <1>5 DEF Ask, Crash, vars, disk
<1>. QED  BY <1>2, <1>3, <1>4, <1>5 DEF Next

\* A READY entry gives way to another one or to a prune that has listed it, whatever
\* refresh fails or dies meanwhile: DataCacheManager.begin_snapshot, fail_snapshot and
\* commit_snapshot.
THEOREM ReadyRowsLast == Spec => ReadyGivesWayToReady
<1>1. Init => IndexInv
  BY FS_EmptySet DEF Init, IndexInv
<1>2. IndexInv /\ [Next]_vars => IndexInv'
  BY IndexInvStays
<1>3. IndexInv /\ [Next]_vars =>
          [\A k \in Keys :
              (rows[k] # None /\ rows[k].status = "READY" /\ rows'[k] # rows[k])
                  => \/ rows'[k] # None /\ rows'[k].status = "READY"
                     \/ \E t \in Threads : At(t, "forgetting") /\ Target(t).key = k]_vars
  BY RowsOfTheIndex
<1>. QED  BY <1>1, <1>2, <1>3, PTL DEF Spec, ReadyGivesWayToReady

-------------------------------------------------------------------------------
(* The day of a backtest. *)

DailyInv ==
    /\ date \in Nat
    /\ opening \in [Stocks \cup Legs -> Openings]
    /\ owned \in [Stocks -> 1..date \cup {Never}]
    /\ pending \subseteq [code : Stocks, side : {"BUY", "SELL"}, made : 1..date]
    /\ groups \in [Pairs -> 1..date \cup {Never}]
    /\ intents \subseteq [key : Pairs, action : {"OPEN", "CLOSE"}, made : 1..date]

\* A day of single stocks.
LEMMA StocksOfADay ==
    ASSUME DailyInv, NEW day, day = date + 1, NEW at \in [Stocks \cup Legs -> Openings],
           TradeStocks(day, at)
    PROVE  /\ owned' \in [Stocks -> 1..day \cup {Never}]
           /\ pending' \subseteq [code : Stocks, side : {"BUY", "SELL"}, made : 1..day]
           /\ \A s \in pending : s.side = "SELL" =>
                  \/ owned'[s.code] \in {Never, day}
                  \/ /\ at[s.code] \in {"none", "limit down"}
                     /\ \E t \in pending' : t.side = "SELL" /\ t.code = s.code
<1> DEFINE sold == Sellable(day, at)
           kept == [c \in Stocks |-> IF \E s \in sold : s.code = c THEN Never ELSE owned[c]]
<1>1. PICK bought \in SUBSET Buyable(day, at, kept) :
          LET book == [c \in Stocks |-> IF \E s \in bought : s.code = c THEN day ELSE kept[c]]
          IN /\ owned' = book
             /\ \E sells \in SUBSET Present(book), buys \in SUBSET Stocks :
                    pending' = Signal(Signal(Roll(pending \ (sold \cup bought), day, book),
                                             sells, "SELL", day), buys, "BUY", day)
  BY DEF TradeStocks
<1> DEFINE book == [c \in Stocks |-> IF \E s \in bought : s.code = c THEN day ELSE kept[c]]
           rolled == Roll(pending \ (sold \cup bought), day, book)
<1>10. PICK sells \in SUBSET Present(book), buys \in SUBSET Stocks :
           pending' = Signal(Signal(rolled, sells, "SELL", day), buys, "BUY", day)
  BY <1>1
<1>11. sells \subseteq Stocks
  BY DEF Present
<1>2. day \in Nat /\ day >= 1 /\ date \in Nat /\ date < day
  BY DEF DailyInv
<1>3. pending \subseteq [code : Stocks, side : {"BUY", "SELL"}, made : 1..day]
  BY <1>2 DEF DailyInv
<1>4. owned' = book /\ pending' = Signal(Signal(rolled, sells, "SELL", day), buys, "BUY", day)
  BY <1>1, <1>10
<1>5. owned' \in [Stocks -> 1..day \cup {Never}]
  <2>1. \A c \in Stocks : owned[c] \in 1..day \cup {Never}
    BY <1>2 DEF DailyInv
  <2>. QED  BY <1>2, <1>4, <2>1
<1>6. rolled \subseteq pending
  BY DEF Roll
<1>7. pending' \subseteq [code : Stocks, side : {"BUY", "SELL"}, made : 1..day]
  <2> HIDE DEF rolled
  <2>. QED  BY <1>2, <1>3, <1>4, <1>6, <1>11 DEF Signal
<1>8. ASSUME NEW s \in pending, s.side = "SELL", owned'[s.code] \notin {Never, day}
      PROVE  /\ at[s.code] \in {"none", "limit down"}
             /\ \E t \in pending' : t.side = "SELL" /\ t.code = s.code
  <2>1. /\ s.code \in Stocks /\ s.made \in Nat /\ s.made < day
        /\ owned[s.code] \in 1..date \cup {Never}
    BY <1>2 DEF DailyInv
  <2>2. /\ book[s.code] = owned[s.code] /\ owned[s.code] # Never
        /\ ~\E u \in sold : u.code = s.code
    BY <1>4, <1>8, <2>1
  <2>3. owned[s.code] < day /\ s.code \in Present(owned)
    BY <1>2, <2>1, <2>2 DEF Present, DailyInv
  <2>4. at[s.code] \in Openings
    BY <2>1
  <2>5. at[s.code] \in {"none", "limit down"}
    BY <1>8, <2>1, <2>2, <2>3, <2>4 DEF Sellable, Due, Openings
  <2>6. s \notin sold /\ s \notin bought
    BY <1>8, <2>2 DEF Buyable
  <2>7. s.code \in Present(book)
    BY <2>1, <2>2 DEF Present
  <2>8. s \in rolled
    BY <1>8, <2>6, <2>7 DEF Roll
  <2>9. \E t \in pending' : t.side = "SELL" /\ t.code = s.code
    <3> HIDE DEF rolled
    <3>1. \E t \in Signal(rolled, sells, "SELL", day) : t.side = "SELL" /\ t.code = s.code
      <4>1. CASE s.code \in sells
        <5> DEFINE t == [code |-> s.code, side |-> "SELL", made |-> day]
        <5>1. t \in [code : sells, side : {"SELL"}, made : {day}]
          BY <4>1
        <5>2. t.side = "SELL" /\ t.code = s.code
          OBVIOUS
        <5>3. t \in Signal(rolled, sells, "SELL", day)
          BY <5>1 DEF Signal
        <5> HIDE DEF t
        <5>. QED  BY <5>2, <5>3
      <4>2. CASE s.code \notin sells
        BY <1>8, <2>8, <4>2 DEF Signal
      <4>. QED  BY <4>1, <4>2
    <3>. QED  BY <1>4, <3>1 DEF Signal
  <2>. QED  BY <2>5, <2>9
<1>. QED  BY <1>5, <1>7, <1>8

\* A day of groups.
LEMMA GroupsOfADay ==
    ASSUME DailyInv, NEW day, day = date + 1, NEW at, TradeGroups(day, at)
    PROVE  /\ groups' \in [Pairs -> 1..day \cup {Never}]
           /\ intents' \subseteq [key : Pairs, action : {"OPEN", "CLOSE"}, made : 1..day]
           /\ \A n \in intents : n.action = "CLOSE" =>
                  \/ groups'[n.key] \in {Never, day}
                  \/ \E m \in intents' : m.action = "CLOSE" /\ m.key = n.key
<1>1. PICK closed \in SUBSET Closable(day, at) :
          LET kept == [g \in Pairs |-> IF \E n \in closed : n.key = g THEN Never ELSE groups[g]]
          IN \E opened \in SUBSET Openable(day, at, kept) :
               LET book == [g \in Pairs |-> IF \E n \in opened : n.key = g THEN day ELSE kept[g]]
                   rolled == {n \in intents \ (closed \cup opened) : n.action = "CLOSE" \/ n.made >= day}
               IN /\ opened # {} => Cardinality(Present(book)) <= MaxStrategy
                  /\ groups' = book
                  /\ \E closes \in SUBSET Present(book), opens \in SUBSET (Pairs \ Present(book)) :
                       intents' = {n \in rolled : n.key \notin closes \cup opens}
                                  \cup [key : closes, action : {"CLOSE"}, made : {day}]
                                  \cup [key : opens, action : {"OPEN"}, made : {day}]
  BY DEF TradeGroups
<1> DEFINE kept == [g \in Pairs |-> IF \E n \in closed : n.key = g THEN Never ELSE groups[g]]
<1>2. PICK opened \in SUBSET Openable(day, at, kept) :
          LET book == [g \in Pairs |-> IF \E n \in opened : n.key = g THEN day ELSE kept[g]]
              rolled == {n \in intents \ (closed \cup opened) : n.action = "CLOSE" \/ n.made >= day}
          IN /\ groups' = book
             /\ \E closes \in SUBSET Present(book), opens \in SUBSET (Pairs \ Present(book)) :
                  intents' = {n \in rolled : n.key \notin closes \cup opens}
                             \cup [key : closes, action : {"CLOSE"}, made : {day}]
                             \cup [key : opens, action : {"OPEN"}, made : {day}]
  BY <1>1
<1> DEFINE book == [g \in Pairs |-> IF \E n \in opened : n.key = g THEN day ELSE kept[g]]
           rolled == {n \in intents \ (closed \cup opened) : n.action = "CLOSE" \/ n.made >= day}
<1>3. PICK closes \in SUBSET Present(book), opens \in SUBSET (Pairs \ Present(book)) :
          intents' = {n \in rolled : n.key \notin closes \cup opens}
                     \cup [key : closes, action : {"CLOSE"}, made : {day}]
                     \cup [key : opens, action : {"OPEN"}, made : {day}]
  BY <1>2
<1>4. groups' = book
  BY <1>2
<1>5. day \in Nat /\ day >= 1 /\ date \in Nat /\ date < day
  BY DEF DailyInv
<1>6. closes \subseteq Pairs /\ opens \subseteq Pairs
  BY DEF Present
<1>7. groups' \in [Pairs -> 1..day \cup {Never}]
  <2>1. \A g \in Pairs : groups[g] \in 1..day \cup {Never}
    BY <1>5 DEF DailyInv
  <2>. QED  BY <1>4, <1>5, <2>1
<1>8. intents \subseteq [key : Pairs, action : {"OPEN", "CLOSE"}, made : 1..day]
  BY <1>5 DEF DailyInv
<1>9. intents' \subseteq [key : Pairs, action : {"OPEN", "CLOSE"}, made : 1..day]
  <2>1. rolled \subseteq intents
    OBVIOUS
  <2> HIDE DEF rolled
  <2>. QED  BY <1>3, <1>5, <1>6, <1>8, <2>1
<1>10. ASSUME NEW n \in intents, n.action = "CLOSE", groups'[n.key] \notin {Never, day}
       PROVE  \E m \in intents' : m.action = "CLOSE" /\ m.key = n.key
  <2>1. n.key \in Pairs
    BY <1>8
  <2>2. n \notin closed /\ n \notin opened
    BY <1>4, <1>10, <2>1 DEF Openable
  <2>3. n \in rolled
    BY <1>10, <2>2
  <2>4. n.key \in Present(book)
    BY <1>4, <1>10, <2>1 DEF Present
  <2>5. n.key \notin opens
    BY <2>4
  <2>6. CASE n.key \in closes
    <3> DEFINE m == [key |-> n.key, action |-> "CLOSE", made |-> day]
    <3>1. m \in [key : closes, action : {"CLOSE"}, made : {day}]
      BY <2>6
    <3>2. m.action = "CLOSE" /\ m.key = n.key
      OBVIOUS
    <3>3. m \in intents'
      BY <1>3, <3>1
    <3> HIDE DEF m
    <3>. QED  BY <3>2, <3>3
  <2>7. CASE n.key \notin closes
    <3> HIDE DEF rolled
    <3>. QED  BY <1>3, <1>10, <2>3, <2>5, <2>7
  <2>. QED  BY <2>6, <2>7
<1>. QED  BY <1>7, <1>9, <1>10

LEMMA DailyInvInit ==
    DailyInit => DailyInv
<1>. QED  BY DEF DailyInit, DailyInv, Openings

LEMMA DailyInvStays ==
    ASSUME DailyInv, [NextDay]_dailyVars
    PROVE  DailyInv'
<1>1. CASE NextDay
  <2>1. /\ date' = date + 1 /\ opening' \in [Stocks \cup Legs -> Openings]
        /\ TradeStocks(date', opening') /\ TradeGroups(date', opening')
    BY <1>1 DEF NextDay
  <2>2. /\ owned' \in [Stocks -> 1..date' \cup {Never}]
        /\ pending' \subseteq [code : Stocks, side : {"BUY", "SELL"}, made : 1..date']
    BY <2>1, StocksOfADay
  <2>3. /\ groups' \in [Pairs -> 1..date' \cup {Never}]
        /\ intents' \subseteq [key : Pairs, action : {"OPEN", "CLOSE"}, made : 1..date']
    BY <2>1, GroupsOfADay
  <2>4. date' \in Nat
    BY <2>1 DEF DailyInv
  <2>. QED  BY <2>1, <2>2, <2>3, <2>4 DEF DailyInv
<1>2. CASE UNCHANGED dailyVars
  BY <1>2 DEF dailyVars, DailyInv
<1>. QED  BY <1>1, <1>2

\* What a backtest keeps from one day to the next has its types: nothing is owned, pending
\* or intended from a day that has not come.
THEOREM DailyTypeCorrect == DailySpec => []DailyTypeOK
<1>1. DailyInit => date <= LastDay
  BY DailyConstants DEF DailyInit
<1>2. DailyInv /\ date <= LastDay /\ [NextDay]_dailyVars => (date <= LastDay)'
  BY DailyConstants DEF NextDay, dailyVars, DailyInv
<1>3. ASSUME DailyInv, date <= LastDay  PROVE DailyTypeOK
  <2>1. date \in 0..LastDay /\ 1..date \subseteq 1..LastDay
    BY <1>3, DailyConstants DEF DailyInv
  <2>2. /\ opening \in [Stocks \cup Legs -> Openings]
        /\ owned \in [Stocks -> 1..date \cup {Never}]
        /\ groups \in [Pairs -> 1..date \cup {Never}]
        /\ pending \subseteq [code : Stocks, side : {"BUY", "SELL"}, made : 1..date]
        /\ intents \subseteq [key : Pairs, action : {"OPEN", "CLOSE"}, made : 1..date]
    BY <1>3 DEF DailyInv
  <2>3. owned \in [Stocks -> 1..LastDay \cup {Never}] /\ groups \in [Pairs -> 1..LastDay \cup {Never}]
    BY <2>1, <2>2
  <2>4. /\ pending \subseteq [code : Stocks, side : {"BUY", "SELL"}, made : 1..LastDay]
        /\ intents \subseteq [key : Pairs, action : {"OPEN", "CLOSE"}, made : 1..LastDay]
    BY <2>1, <2>2
  <2>. QED  BY <2>1, <2>2, <2>3, <2>4 DEF DailyTypeOK
<1>. QED  BY <1>1, <1>2, <1>3, DailyInvInit, DailyInvStays, PTL DEF DailySpec

\* An exit is filled at the first opening that lets it be, and is pending until then, for
\* single stocks and for pairs: the day of _run_single and of the pair accounts.
THEOREM ExitsAreFilledFirst == DailySpec => ExitsTakeTheFirstOpening
<1>1. DailyInv /\ [NextDay]_dailyVars =>
    [/\ \A s \in pending : s.side = "SELL" =>
            \/ owned'[s.code] \in {Never, date'}
            \/ /\ opening'[s.code] \in {"none", "limit down"}
               /\ \E t \in pending' : t.side = "SELL" /\ t.code = s.code
     /\ \A n \in intents : n.action = "CLOSE" =>
            \/ groups'[n.key] \in {Never, date'}
            \/ \E m \in intents' : m.action = "CLOSE" /\ m.key = n.key]_dailyVars
  <2>1. SUFFICES ASSUME DailyInv, NextDay
                 PROVE  /\ \A s \in pending : s.side = "SELL" =>
                               \/ owned'[s.code] \in {Never, date'}
                               \/ /\ opening'[s.code] \in {"none", "limit down"}
                                  /\ \E t \in pending' : t.side = "SELL" /\ t.code = s.code
                        /\ \A n \in intents : n.action = "CLOSE" =>
                               \/ groups'[n.key] \in {Never, date'}
                               \/ \E m \in intents' : m.action = "CLOSE" /\ m.key = n.key
    OBVIOUS
  <2>2. /\ date' = date + 1 /\ opening' \in [Stocks \cup Legs -> Openings]
        /\ TradeStocks(date', opening') /\ TradeGroups(date', opening')
    BY <2>1 DEF NextDay
  <2>. QED  BY <2>1, <2>2, StocksOfADay, GroupsOfADay
<1>. QED  BY <1>1, DailyInvInit, DailyInvStays, PTL DEF DailySpec, ExitsTakeTheFirstOpening

===============================================================================
