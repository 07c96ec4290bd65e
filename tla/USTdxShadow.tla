------------------------------ MODULE USTdxShadow ------------------------------
(***************************************************************************)
(* The collector of TDX quote evidence (us_tdx_shadow.py) for one session   *)
(* of its window.  A tick takes a lease, looks which symbols of its slot    *)
(* have a row, asks for the quotes of the others outside of any             *)
(* transaction, and writes what it got.  After the close the final raw      *)
(* opens are written once and seal the session.                             *)
(*                                                                         *)
(* Time counts slots of 60 seconds.  The lease compares seconds: in slots   *)
(* it may seem to run out up to one slot early, never late.                 *)
(***************************************************************************)
EXTENDS Integers

CONSTANTS
    Processes,
    WorkerOf,     \* the worker_id of each process; the command gives all of them the same
    Symbols,
    Close,        \* the slots of the session are 0..Close - 1
    OpeningEnd,   \* the last slot of the opening window
    LeaseSlots,   \* how long a lease lasts
    Lag,          \* how old the time of a tick may be when it gets the lease
    LastTime,     \* bound on the clock
    Sources,      \* hashes of final raw opens
    Absent        \* no lease, row, opening or seal

\* What a quote can be: missing or unfit, fresh, or fresh with today's open.
Outcomes == {"failed", "fresh", "opens"}
Slots == 0..Close - 1
Ids == {WorkerOf[p] : p \in Processes}

ASSUME ShadowConstants ==
    /\ Close \in Nat \ {0} /\ LeaseSlots \in Nat /\ Lag \in Nat
    /\ 2 * Lag < LeaseSlots
    /\ Absent \notin Outcomes /\ Absent \notin Slots /\ Absent \notin Sources
    /\ Absent \notin [owner : Ids, expires : Nat]

VARIABLES
    time,
    lease,        \* tdx_shadow_lease: [owner, expires]
    slots,        \* tdx_shadow_slots: what is recorded of each symbol and slot
    openings,     \* tdx_shadow_openings: the slot a symbol's opening was seen in
    raw,          \* tdx_shadow_raw_opens: the source of the final opens, the seal
    tick          \* what each process is doing: [pc, slot, asked]

shadowVars == <<time, lease, slots, openings, raw, tick>>

Resting == [pc |-> "rest", slot |-> 0, asked |-> {}]

ShadowInit ==
    /\ time = 0
    /\ lease = Absent
    /\ slots = [s \in Symbols |-> [i \in Slots |-> Absent]]
    /\ openings = [s \in Symbols |-> Absent]
    /\ raw = Absent
    /\ tick = [p \in Processes |-> Resting]

At(p, place) == tick[p].pc = place
Rest(p) == tick' = [tick EXCEPT ![p] = Resting]

\* Mutant: any worker takes the lease.
FreeAlways(p, now) == TRUE

Free(p, now) == lease # Absent => lease.owner = WorkerOf[p] \/ lease.expires <= now

\* A tick of a regular hour takes the lease with the time it was called with, which
\* is the time at which it begins; or the lease is another's, and it ends here.
TakeLease(p, now) ==
    /\ At(p, "rest")
    /\ now \in Slots /\ now <= time /\ time <= now + Lag
    /\ Free(p, now)
    /\ lease' = [owner |-> WorkerOf[p], expires |-> now + LeaseSlots]
    /\ tick' = [tick EXCEPT ![p] = [pc |-> "leased", slot |-> now, asked |-> {}]]
    /\ UNCHANGED <<time, slots, openings, raw>>

\* Seal and existing rows are read once, before the quotes are asked for.
Look(p) ==
    /\ At(p, "leased")
    /\ IF raw # Absent
       THEN Rest(p)
       ELSE tick' = [tick EXCEPT ![p].pc = "asking",
                                 ![p].asked = {s \in Symbols : slots[s][tick[p].slot] = Absent}]
    /\ UNCHANGED <<time, lease, slots, openings, raw>>

\* Mutant: INSERT OR REPLACE.
FirstReplaced(old, new) == new

\* INSERT OR IGNORE.
First(old, new) == IF old = Absent THEN new ELSE old

\* Only a quote of the opening window brings an opening.
Possible(p) ==
    IF tick[p].slot <= OpeningEnd THEN Outcomes ELSE Outcomes \ {"opens"}

\* The transaction that writes what was asked; it does not look at the seal again.
Record(p, quotes) ==
    /\ At(p, "asking")
    /\ LET i == tick[p].slot
           asked == tick[p].asked
       IN
       /\ slots' = [s \in Symbols |->
                       IF s \in asked
                       THEN [slots[s] EXCEPT ![i] = First(@, quotes[s])]
                       ELSE slots[s]]
       /\ openings' = [s \in Symbols |->
                          IF s \in asked /\ quotes[s] = "opens"
                          THEN First(openings[s], i)
                          ELSE openings[s]]
    /\ Rest(p)
    /\ UNCHANGED <<time, lease, raw>>

\* The process dies, or loses the database, and its lease stays.
TickDies(p) ==
    /\ ~At(p, "rest")
    /\ Rest(p)
    /\ UNCHANGED <<time, lease, slots, openings, raw>>

\* All final opens in one transaction after the close.  A second call changes
\* nothing: it is the same evidence, or it is refused.
ReconcileRawOpens(source) ==
    /\ time >= Close
    /\ raw' = First(raw, source)
    /\ UNCHANGED <<time, lease, slots, openings, tick>>

Pass ==
    /\ time < LastTime
    /\ time' = time + 1
    /\ UNCHANGED <<lease, slots, openings, raw, tick>>

TickNext(p) ==
    \/ \E now \in Slots : TakeLease(p, now)
    \/ Look(p)
    \/ \E quotes \in [tick[p].asked -> Possible(p)] : Record(p, quotes)
    \/ TickDies(p)

ShadowNext ==
    \/ \E p \in Processes : TickNext(p)
    \/ \E source \in Sources : ReconcileRawOpens(source)
    \/ Pass

ShadowSpec == ShadowInit /\ [][ShadowNext]_shadowVars

-------------------------------------------------------------------------------
\* The type invariant of the shadow database and of the running ticks.
ShadowTypeOK ==
    /\ time \in Nat
    /\ lease \in [owner : Ids, expires : Nat] \cup {Absent}
    /\ slots \in [Symbols -> [Slots -> Outcomes \cup {Absent}]]
    /\ openings \in [Symbols -> Slots \cup {Absent}]
    /\ raw \in Sources \cup {Absent}
    /\ tick \in [Processes -> [pc : {"rest", "leased", "asking"}, slot : Slots,
                               asked : SUBSET Symbols]]

InFlight(p) == ~At(p, "rest")

\* "A second worker is rejected by a SQLite lease": no slot is ever asked for by two
\* workers, although the lease is taken with a time already past, is not looked at
\* again, and runs out under a tick whose quotes are slow.
OneWorkerPerSlot ==
    \A p, q \in Processes :
        InFlight(p) /\ InFlight(q) /\ tick[p].slot = tick[q].slot
            => WorkerOf[p] = WorkerOf[q]

\* "Each symbol/60-second slot is write-once", and so are openings and final opens,
\* whatever ticks of one worker id ask for the same slot at the same time.
EvidenceIsWrittenOnce ==
    [][/\ \A s \in Symbols :
             /\ \A i \in Slots : slots[s][i] # Absent => slots'[s][i] = slots[s][i]
             /\ openings[s] # Absent => openings'[s] = openings[s]
       /\ raw # Absent => raw' = raw]_shadowVars

\* "A raw-reconciled session is sealed against additional quote slots": it is not
\* against those of a tick that looked before.
SealedSessionStands ==
    [][raw # Absent => UNCHANGED <<slots, openings>>]_shadowVars
===============================================================================
