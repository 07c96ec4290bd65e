--------------------------- MODULE PaperServicesProofs ---------------------------
(***************************************************************************)
(* What surrounds the orders of the simulated sleeve.                       *)
(*                                                                         *)
(* The month-end decision, for every number of ticks at once, every length  *)
(* of the day and of a slot, and every answer of the vendor.                *)
(*                                                                         *)
(* The lease of the runtime, for every number of ticks, workers and crashes *)
(* and every length of the lease, although it is taken with the time a tick *)
(* began at.                                                                *)
(*                                                                         *)
(* The assumptions only say what the constants are.                         *)
(***************************************************************************)
EXTENDS USPaperDecision, USPaperLease, USPaperActions, FiniteSetTheorems, WellFoundedInduction,
        TLAPS

(* The decision.                                                            *)

DecisionConstants ==
    /\ Midnight \in Nat /\ Earliest \in Nat
    /\ None \notin Decisions

Rows == [pc : {"idle", "fetching", "deciding", "archiving", "writing", "replacing"},
         from : Times, decision : Decisions \cup {None}, status : Statuses \cup {None}]

\* What a decision of the month-end looks like, wherever it is held.
Sound(d) == d \in Decisions /\ d.observed <= d.at /\ Earliest <= d.at /\ d.at < Midnight

\* An archive, written or to be written, is of a committed decision.
Committed(decision, status, p) ==
    p # None /\ (status = "PERIOD_CREATED" => decision = p)

Decided == {"deciding", "archiving", "writing", "replacing"}
Archiving == {"archiving", "writing", "replacing"}

\* What a row of worker says holds of it, with the clock at now and the period p.
RowSound(r, now, p) ==
    /\ r.pc # "idle" => Earliest <= r.from /\ r.from <= now
    /\ r.pc \in Decided => Sound(r.decision)
    /\ r.pc \in Archiving => Committed(r.decision, r.status, p) /\ r.status \in Statuses

DecisionInv ==
    /\ DecisionTypeOK
    /\ period # None => Sound(period)
    /\ \A w \in Workers : RowSound(worker[w], clock, period)
    /\ pointer # None => Committed(pointer.decision, pointer.status, period)
    /\ scratch # None => Committed(scratch.decision, scratch.status, period)

(* Before the first attempt there is no period and no archive. *)
LEMMA DecisionInvInit == DecisionConstants /\ Init => DecisionInv
  <1>. SUFFICES ASSUME DecisionConstants, Init
                PROVE  DecisionInv
    OBVIOUS
  <1>1. Idle \in Rows /\ RowSound(Idle, clock, period) /\ 0 \in Times
    BY DEF DecisionConstants, Idle, Rows, RowSound, Times, Decided, Archiving
  <1>. QED
    BY <1>1 DEF Init, DecisionInv, DecisionTypeOK, Rows

\* The row of a worker changes; the others, and the committed period, stay.
LEMMA RowChanges ==
    ASSUME DecisionConstants, DecisionInv, NEW w \in Workers, NEW r \in Rows,
           worker' = [worker EXCEPT ![w] = r],
           clock' \in Times, clock <= clock', UNCHANGED period,
           RowSound(r, clock', period')
    PROVE  worker' \in [Workers -> Rows] /\ \A v \in Workers : RowSound(worker'[v], clock', period')
  <1>1. worker \in [Workers -> Rows]
    BY DEF DecisionInv, DecisionTypeOK, Rows
  <1>2. worker' \in [Workers -> Rows] /\ worker'[w] = r
        /\ \A v \in Workers \ {w} : worker'[v] = worker[v]
    BY <1>1
  <1>3. ASSUME NEW v \in Workers \ {w}
        PROVE  RowSound(worker'[v], clock', period')
    <2>1. RowSound(worker[v], clock, period) /\ worker[v].from \in Times /\ worker'[v] = worker[v]
      BY <1>1, <1>2 DEF DecisionInv, Rows
    <2>2. clock \in Int /\ clock' \in Int /\ worker[v].from \in Int
      BY <2>1 DEF DecisionInv, DecisionTypeOK, Times, DecisionConstants
    <2>. QED
      BY <2>1, <2>2 DEF RowSound, Sound, Committed
  <1>. QED
    BY <1>2, <1>3

\* A tick that gives up is like one that never began.
LEMMA QuitKeeps ==
    ASSUME DecisionConstants, DecisionInv, NEW w \in Workers, Quit(w),
           clock' \in Times, clock <= clock', UNCHANGED period
    PROVE  worker' \in [Workers -> Rows] /\ \A v \in Workers : RowSound(worker'[v], clock', period')
  <1>1. Idle \in Rows /\ RowSound(Idle, clock', period')
    BY DEF DecisionConstants, Idle, Rows, RowSound, Times, Decided, Archiving
  <1>. QED
    BY <1>1, RowChanges DEF Quit

\* A tick that has called create_period goes on with what it decided.
LEMMA Advance ==
    ASSUME DecisionConstants, DecisionInv, NEW w \in Workers, worker[w].pc \in Archiving,
           NEW place \in Archiving, worker' = [worker EXCEPT ![w].pc = place],
           UNCHANGED <<clock, period>>
    PROVE  worker' \in [Workers -> Rows] /\ \A v \in Workers : RowSound(worker'[v], clock', period')
  <1>. DEFINE r == [worker[w] EXCEPT !.pc = place]
  <1>1. worker \in [Workers -> Rows] /\ RowSound(worker[w], clock, period)
    BY DEF DecisionInv, DecisionTypeOK, Rows
  <1>2. /\ r \in Rows /\ r.pc = place /\ r.from = worker[w].from
        /\ r.decision = worker[w].decision /\ r.status = worker[w].status
    BY <1>1 DEF Rows, Archiving
  <1>3. RowSound(r, clock', period')
    BY <1>1, <1>2 DEF RowSound, Archiving, Decided, Sound, Committed
  <1>4. worker' = [worker EXCEPT ![w] = r]
    BY <1>1
  <1>5. clock' \in Times /\ clock <= clock'
    BY DEF DecisionInv, DecisionTypeOK, Times, DecisionConstants
  <1>. HIDE DEF r
  <1>. QED
    BY <1>2, <1>3, <1>4, <1>5, RowChanges

\* The clock only goes forward.
LEMMA LaterIsLater ==
    ASSUME DecisionConstants, clock \in Times
    PROVE  Later \in Times /\ clock <= Later
  BY DEF DecisionConstants, Times, Later

\* Every step keeps the decision sound.
LEMMA DecisionInvStep ==
    ASSUME DecisionConstants, DecisionInv, [Next]_vars
    PROVE  DecisionInv'
  <1>0. /\ clock \in Times /\ clock \in Int /\ clock <= clock /\ Midnight \in Int /\ Earliest \in Int
        /\ worker \in [Workers -> Rows] /\ Later \in Times /\ clock <= Later
    BY LaterIsLater DEF DecisionInv, DecisionTypeOK, Rows, Times, DecisionConstants
  <1>1. ASSUME NEW w \in Workers, Begin(w)
        PROVE  DecisionInv'
    <2>. DEFINE r == [Idle EXCEPT !.pc = "fetching", !.from = clock]
    <2>1. r.pc = "fetching" /\ r.from = clock /\ r \in Rows
      BY <1>0 DEF Idle, Rows
    <2>2. Earliest <= clock
      BY <1>1 DEF Begin, MayDecide, IsRetrySlot
    <2>3. RowSound(r, clock', period')
      BY <1>0, <1>1, <2>1, <2>2 DEF RowSound, Begin, Decided, Archiving
    <2>4. worker' = [worker EXCEPT ![w] = r]
      BY <1>1 DEF Begin
    <2>. HIDE DEF r
    <2>5. worker' \in [Workers -> Rows] /\ \A v \in Workers : RowSound(worker'[v], clock', period')
      BY <1>0, <1>1, <2>1, <2>3, <2>4, RowChanges DEF Begin
    <2>. QED
      BY <1>0, <1>1, <2>5 DEF Begin, DecisionInv, DecisionTypeOK, Rows, Sound, Committed
  <1>2. ASSUME NEW w \in Workers, NEW answer \in Bars \cup {Bad}, Fetch(w, answer)
        PROVE  DecisionInv'
    <2>1. clock' = Later /\ UNCHANGED <<planned, killed, period, pointer, scratch>>
      BY <1>2 DEF Fetch
    <2>2. worker' \in [Workers -> Rows] /\ \A v \in Workers : RowSound(worker'[v], clock', period')
      <3>1. CASE Quit(w)
        BY <1>0, <2>1, <3>1, QuitKeeps
      <3>2. CASE ~Quit(w)
        <4>. DEFINE at == ProcessedAt(w, Later)
                    d == [at |-> at, observed |-> Later, bars |-> answer]
                    r == [worker[w] EXCEPT !.pc = "deciding", !.decision = d]
        <4>1. /\ answer # Bad /\ Later <= at /\ at < Midnight
              /\ worker' = [worker EXCEPT ![w].pc = "deciding", ![w].decision = d]
          BY <1>2, <3>2 DEF Fetch, Causal
        <4>2. /\ worker[w] \in Rows /\ Earliest <= worker[w].from /\ worker[w].from <= clock
              /\ worker[w].from \in Times
          BY <1>0, <1>2 DEF Fetch, At, DecisionInv, RowSound, Rows
        <4>3. at \in Times /\ Earliest <= at
          BY <1>0, <4>2 DEF ProcessedAt, Times
        <4>4. d \in Decisions
          BY <1>0, <4>1, <4>3 DEF Decisions
        <4>5. Sound(d)
          BY <4>1, <4>3, <4>4 DEF Sound
        <4>. HIDE DEF at, d
        <4>6. r \in Rows /\ r.pc = "deciding" /\ r.decision = d /\ r.from = worker[w].from
          BY <4>2, <4>4 DEF Rows
        <4>7. worker' = [worker EXCEPT ![w] = r]
          BY <1>0, <4>1
        <4>8. RowSound(r, clock', period')
          <5>1. Earliest <= r.from /\ r.from <= clock'
            BY <1>0, <2>1, <4>2, <4>6 DEF Times
          <5>. QED
            BY <4>5, <4>6, <5>1 DEF RowSound, Archiving, Sound
        <4>. HIDE DEF r
        <4>. QED
          BY <1>0, <2>1, <4>6, <4>7, <4>8, RowChanges
      <3>. QED
        BY <3>1, <3>2
    <2>. QED
      BY <1>0, <2>1, <2>2 DEF DecisionInv, DecisionTypeOK, Rows, Sound, Committed
  <1>3. ASSUME NEW w \in Workers, Create(w)
        PROVE  DecisionInv'
    <2>1. UNCHANGED <<clock, planned, killed, pointer, scratch>>
      BY <1>3 DEF Create
    <2>2. CASE Refused
      <3>1. Quit(w) /\ UNCHANGED period
        BY <1>3, <2>2 DEF Create
      <3>2. worker' \in [Workers -> Rows] /\ \A v \in Workers : RowSound(worker'[v], clock', period')
        BY <1>0, <2>1, <3>1, QuitKeeps
      <3>. QED
        BY <1>0, <2>1, <3>1, <3>2 DEF DecisionInv, DecisionTypeOK, Rows, Sound, Committed
    <2>3. CASE ~Refused
      <3>. DEFINE d == worker[w].decision
                  r == [worker[w] EXCEPT !.pc = "archiving", !.status = Verdict(d)]
      <3>1. worker[w].pc = "deciding" /\ worker[w] \in Rows /\ Sound(d)
        BY <1>0, <1>3 DEF Create, At, DecisionInv, RowSound, Decided
      <3>2. /\ period' = IF period = None THEN d ELSE period
            /\ worker' = [worker EXCEPT ![w].pc = "archiving", ![w].status = Verdict(d)]
        BY <1>3, <2>3 DEF Create, Commits
      <3>3. d \in Decisions /\ d # None /\ Verdict(d) \in Statuses
        BY <3>1 DEF Sound, DecisionConstants, Verdict, Statuses
      <3>4. period' # None /\ Sound(period)' /\ (Verdict(d) = "PERIOD_CREATED" => d = period')
        BY <3>1, <3>2, <3>3 DEF DecisionInv, Sound, Verdict, Commits
      <3>5. period # None => period' = period
        BY <3>2
      <3>. HIDE DEF d
      <3>6. /\ r \in Rows /\ r.pc = "archiving" /\ r.decision = worker[w].decision
            /\ r.status = Verdict(d) /\ r.from = worker[w].from
        BY <3>1, <3>3 DEF Rows
      <3>7. worker' = [worker EXCEPT ![w] = r]
        BY <1>0, <3>2
      <3>8. RowSound(r, clock', period')
        <4>1. Earliest <= r.from /\ r.from <= clock'
          BY <2>1, <3>1, <3>6 DEF DecisionInv, RowSound
        <4>. QED
          BY <3>1, <3>3, <3>4, <3>6, <4>1 DEF RowSound, Sound, Committed, d
      <3>. HIDE DEF r
      <3>9. worker' \in [Workers -> Rows] /\ worker'[w] = r
            /\ \A v \in Workers \ {w} : worker'[v] = worker[v]
        BY <1>0, <3>6, <3>7
      <3>10. ASSUME NEW v \in Workers \ {w}
             PROVE  RowSound(worker'[v], clock', period')
        BY <2>1, <3>5, <3>9 DEF DecisionInv, RowSound, Sound, Committed
      <3>. QED
        BY <1>0, <2>1, <3>3, <3>4, <3>5, <3>8, <3>9, <3>10
           DEF DecisionInv, DecisionTypeOK, Rows, Sound, Committed
    <2>. QED
      BY <2>2, <2>3
  <1>4. ASSUME NEW w \in Workers, CheckPointer(w)
        PROVE  DecisionInv'
    <2>1. UNCHANGED <<clock, planned, killed, period, pointer, scratch>>
      BY <1>4 DEF CheckPointer
    <2>2. CASE Quit(w)
      <3>1. worker' \in [Workers -> Rows] /\ \A v \in Workers : RowSound(worker'[v], clock', period')
        BY <1>0, <2>1, <2>2, QuitKeeps
      <3>. QED
        BY <1>0, <2>1, <3>1 DEF DecisionInv, DecisionTypeOK, Rows, Sound, Committed
    <2>3. CASE worker' = [worker EXCEPT ![w].pc = "writing"]
      <3>1. worker' \in [Workers -> Rows] /\ \A v \in Workers : RowSound(worker'[v], clock', period')
        BY <1>0, <1>4, <2>1, <2>3, Advance DEF CheckPointer, At, Archiving, Rows
      <3>. QED
        BY <1>0, <2>1, <3>1 DEF DecisionInv, DecisionTypeOK, Rows, Sound, Committed
    <2>. QED
      BY <1>4, <2>2, <2>3 DEF CheckPointer
  <1>5. ASSUME NEW w \in Workers, WriteScratch(w)
        PROVE  DecisionInv'
    <2>1. UNCHANGED <<clock, planned, killed, period, pointer>> /\ scratch' = Archive(w)
      BY <1>5 DEF WriteScratch
    <2>2. worker' \in [Workers -> Rows] /\ \A v \in Workers : RowSound(worker'[v], clock', period')
      BY <1>0, <1>5, <2>1, Advance DEF WriteScratch, At, Archiving
    <2>3. Archive(w) \in Archived /\ Committed(Archive(w).decision, Archive(w).status, period)
      BY <1>0, <1>5 DEF WriteScratch, At, DecisionInv, RowSound, Archiving, Decided, Archive,
                        Archived, Sound
    <2>. QED
      BY <1>0, <2>1, <2>2, <2>3 DEF DecisionInv, DecisionTypeOK, Rows, Sound, Committed
  <1>6. ASSUME NEW w \in Workers, Replace(w)
        PROVE  DecisionInv'
    <2>1. UNCHANGED <<clock, planned, killed, period>> /\ Quit(w)
      BY <1>6 DEF Replace
    <2>2. worker' \in [Workers -> Rows] /\ \A v \in Workers : RowSound(worker'[v], clock', period')
      BY <1>0, <2>1, QuitKeeps
    <2>3. scratch' = None /\ pointer' = IF scratch # None THEN scratch ELSE pointer
      BY <1>6 DEF Replace
    <2>. QED
      BY <1>0, <2>1, <2>2, <2>3 DEF DecisionInv, DecisionTypeOK, Rows, Sound, Committed
  <1>7. ASSUME NEW w \in Workers, Crash(w)
        PROVE  DecisionInv'
    <2>1. UNCHANGED <<clock, planned, killed, period, pointer, scratch>> /\ Quit(w)
      BY <1>7 DEF Crash
    <2>2. worker' \in [Workers -> Rows] /\ \A v \in Workers : RowSound(worker'[v], clock', period')
      BY <1>0, <2>1, QuitKeeps
    <2>. QED
      BY <1>0, <2>1, <2>2 DEF DecisionInv, DecisionTypeOK, Rows, Sound, Committed
  <1>8. CASE Kill
    BY <1>8 DEF Kill, DecisionInv, DecisionTypeOK, Sound, Committed, RowSound
  <1>9. CASE Pass
    <2>1. clock' = Later /\ UNCHANGED <<planned, killed, period, pointer, scratch, worker>>
      BY <1>9 DEF Pass
    <2>2. ASSUME NEW v \in Workers
          PROVE  RowSound(worker'[v], clock', period')
      <3>1. RowSound(worker[v], clock, period) /\ worker[v].from \in Int /\ clock' \in Int
        BY <1>0, <2>1 DEF DecisionInv, Rows, Times
      <3>. QED
        BY <1>0, <2>1, <3>1 DEF RowSound, Sound, Committed
    <2>. QED
      BY <1>0, <2>1, <2>2 DEF DecisionInv, DecisionTypeOK, Sound, Committed
  <1>10. CASE UNCHANGED vars
    BY <1>10 DEF vars, DecisionInv, DecisionTypeOK, Sound, Committed, RowSound
  <1>. QED
    BY <1>1, <1>2, <1>3, <1>4, <1>5, <1>6, <1>7, <1>8, <1>9, <1>10 DEF Next, WorkerNext

\* What a tick holds, and what is committed and archived, keeps its type.
THEOREM DecisionTypeCorrect ==
    ASSUME DecisionConstants
    PROVE  Spec => []DecisionTypeOK
  <1>1. DecisionInv => DecisionTypeOK
    BY DEF DecisionInv
  <1>. QED
    BY <1>1, DecisionInvInit, DecisionInvStep, PTL DEF Spec

\* The period of the month is decided on its last session, after the close, and is not
\* older than the bars it rests on, for any number of ticks, slots and answers.
THEOREM PeriodNeverLooksAhead ==
    ASSUME DecisionConstants
    PROVE  Spec => []PeriodIsCausal
  <1>1. DecisionInv => PeriodIsCausal
    BY DEF DecisionInv, Sound, PeriodIsCausal
  <1>. QED
    BY <1>1, DecisionInvInit, DecisionInvStep, PTL DEF Spec

\* Whatever ticks race or die, only a committed decision is ever archived.
THEOREM ArchiveFollowsPeriod ==
    ASSUME DecisionConstants
    PROVE  Spec => []ArchiveIsCommitted
  <1>1. DecisionInv => ArchiveIsCommitted
    BY DEF DecisionInv, Committed, ArchiveIsCommitted
  <1>. QED
    BY <1>1, DecisionInvInit, DecisionInvStep, PTL DEF Spec

-----------------------------------------------------------------------------
(* The lease.                                                               *)

LeaseConstants ==
    /\ LeaseLength \in Nat /\ LastTime \in Nat /\ MaxCrashes \in Nat
    /\ Nothing \notin [owner : Ids, expires : Nat]

\* A tick never knows a time that is still to come, and publishes only what it judged.
NoFutureTime ==
    \A p \in Ticks : tick[p].at <= time /\ (In(p, "judged") => tick[p].verdict \in Displays)

LeaseInv == LeaseTypeOK /\ NoFutureTime

TickRows == [pc : {"rest", "begun", "leased", "judged"}, at : 0..LastTime,
             verdict : Displays \cup {Nothing}]

\* A process that gives up, or has published, is like one that never began.
LEMMA RestKeeps ==
    ASSUME LastTime \in Nat, LeaseInv, NEW p \in Ticks, Rest(p), time' = time
    PROVE  tick' \in [Ticks -> TickRows] /\ NoFutureTime'
  BY DEF LeaseInv, LeaseTypeOK, NoFutureTime, In, Rest, Resting, TickRows

(* A free lease and resting ticks satisfy the invariant. *)
LEMMA LeaseInvInit == LeaseConstants /\ LeaseInit => LeaseInv
  <1>. SUFFICES ASSUME LeaseConstants, LeaseInit
                PROVE  LeaseInv
    OBVIOUS
  <1>1. Resting \in TickRows /\ Resting.at = 0 /\ Resting.pc = "rest"
    BY DEF LeaseConstants, Resting, TickRows
  <1>2. tick \in [Ticks -> TickRows] /\ NoFutureTime
    BY <1>1 DEF LeaseInit, NoFutureTime, In, LeaseConstants
  <1>3. time \in 0..LastTime /\ crashes \in 0..MaxCrashes
    BY DEF LeaseConstants, LeaseInit
  <1>4. account \in Accounts /\ display \in Displays /\ lease = Nothing /\ killing \in BOOLEAN
    BY DEF LeaseInit, Accounts, Displays
  <1>. QED
    BY <1>2, <1>3, <1>4 DEF LeaseInv, LeaseTypeOK, TickRows

\* Every step keeps the types and the order of times.
LEMMA LeaseInvStep ==
    ASSUME LeaseConstants, LeaseInv, [LeaseNext]_leaseVars
    PROVE  LeaseInv'
  <1>. USE DEF LeaseConstants, LeaseInv, LeaseTypeOK, NoFutureTime, In
  <1>1. ASSUME NEW p \in Ticks, BeginTick(p)
        PROVE  LeaseInv'
    <2>1. tick' = [tick EXCEPT ![p] = [pc |-> "begun", at |-> time, verdict |-> Nothing]]
      BY <1>1 DEF BeginTick
    <2>0. tick \in [Ticks -> TickRows] /\ [pc |-> "begun", at |-> time, verdict |-> Nothing] \in TickRows
      BY DEF TickRows
    <2>2. tick' \in [Ticks -> TickRows]
      BY <2>0, <2>1
    <2>3. tick'[p] = [pc |-> "begun", at |-> time, verdict |-> Nothing]
          /\ \A q \in Ticks \ {p} : tick'[q] = tick[q]
      BY <2>0, <2>1
    <2>4. time' = time /\ time \in Int
      BY <1>1 DEF BeginTick
    <2>5. NoFutureTime'
      <3>1. ASSUME NEW q \in Ticks
            PROVE  tick'[q].at <= time /\ (tick'[q].pc = "judged" => tick'[q].verdict \in Displays)
        BY <2>3, <2>4
      <3>. QED
        BY <3>1, <2>4
    <2>. QED
      BY <1>1, <2>2, <2>5 DEF BeginTick, TickRows
  <1>2. ASSUME NEW p \in Ticks, Acquire(p)
        PROVE  LeaseInv'
    <2>1. CASE Free(p)
      <3>1. WorkerOf[p] \in Ids /\ tick[p].at + LeaseLength \in Nat
        BY DEF Ids
      <3>. QED
        BY <1>2, <2>1, <3>1 DEF Acquire, Resting
    <2>2. CASE ~Free(p)
      BY <1>2, <2>2, RestKeeps DEF Acquire, TickRows
    <2>. QED
      BY <2>1, <2>2
  <1>3. ASSUME NEW p \in Ticks, NEW ready \in BOOLEAN, NEW gap \in BOOLEAN, Judge(p, ready, gap)
        PROVE  LeaseInv'
    <2>1. account' \in Accounts
      BY <1>3 DEF Judge, Accounts
    <2>2. Status(ready)' \in Displays
      BY <2>1 DEF Status, Displays
    <2>. QED
      BY <1>3, <2>1, <2>2 DEF Judge
  <1>4. ASSUME NEW p \in Ticks, Refuse(p)
        PROVE  LeaseInv'
    BY <1>4 DEF Refuse, Displays
  <1>5. ASSUME NEW p \in Ticks, Publish(p)
        PROVE  LeaseInv'
    <2>1. display' \in Displays
      BY <1>5 DEF Publish
    <2>. QED
      BY <1>5, <2>1, RestKeeps DEF Publish, TickRows
  <1>6. ASSUME NEW p \in Ticks, CrashTick(p)
        PROVE  LeaseInv'
    BY <1>6, RestKeeps DEF CrashTick, TickRows
  <1>7. CASE KillAccount
    BY <1>7 DEF KillAccount, Accounts
  <1>8. CASE ShowKill
    BY <1>8 DEF ShowKill, Displays, Accounts
  <1>9. CASE LoseKill
    <2>1. crashes' \in 0..MaxCrashes
      <3>1. crashes \in Nat /\ crashes < MaxCrashes /\ crashes' = crashes + 1
        BY <1>9 DEF LoseKill
      <3>. QED
        BY <3>1
    <2>2. killing' \in BOOLEAN /\ UNCHANGED <<time, lease, account, display, tick>>
      BY <1>9 DEF LoseKill
    <2>. QED
      BY <2>1, <2>2
  <1>10. CASE PassTime
    BY <1>10 DEF PassTime
  <1>11. CASE UNCHANGED leaseVars
    BY <1>11 DEF leaseVars
  <1>. QED
    BY <1>1, <1>2, <1>3, <1>4, <1>5, <1>6, <1>7, <1>8, <1>9, <1>10, <1>11
       DEF LeaseNext, TickNext

\* The runtime's row of the lease, its status and the running ticks keep their types.
THEOREM LeaseTypeCorrect ==
    ASSUME LeaseConstants
    PROVE  LeaseSpec => []LeaseTypeOK
  <1>1. LeaseInit => LeaseInv
    BY LeaseInvInit
  <1>2. LeaseInv /\ [LeaseNext]_leaseVars => LeaseInv'
    BY LeaseInvStep
  <1>3. LeaseInv => LeaseTypeOK
    BY DEF LeaseInv
  <1>. QED
    BY <1>1, <1>2, <1>3, PTL DEF LeaseSpec

\* Another worker's tick gets the lease only after it has run out, for any number of
\* ticks that wait however long between their time and the lease.
THEOREM LeaseIsNotStolen ==
    ASSUME LeaseConstants
    PROVE  LeaseSpec => LeaseRunsOutFirst
  <1>1. LeaseInit => LeaseInv
    BY LeaseInvInit
  <1>2. LeaseInv /\ [LeaseNext]_leaseVars => LeaseInv'
    BY LeaseInvStep
  <1>3. LeaseInv /\ [LeaseNext]_leaseVars
        => [(lease # Nothing /\ lease'.owner # lease.owner) => lease.expires <= time]_leaseVars
    <2>. SUFFICES ASSUME LeaseInv, LeaseNext, lease # Nothing, lease'.owner # lease.owner
                  PROVE  lease.expires <= time
      OBVIOUS
    <2>1. lease' # lease
      OBVIOUS
    <2>2. PICK p \in Ticks : Acquire(p)
      BY <2>1 DEF LeaseNext, TickNext, BeginTick, Refuse, Publish, Judge, CrashTick, KillAccount, ShowKill,
                  LoseKill, PassTime
    <2>3. Free(p) /\ lease'.owner = WorkerOf[p]
      BY <2>1, <2>2 DEF Acquire
    <2>4. lease.expires <= tick[p].at
      BY <2>3 DEF Free
    <2>5. tick[p].at <= time /\ tick[p].at \in Int /\ time \in Int /\ lease.expires \in Int
      BY DEF LeaseInv, NoFutureTime, LeaseTypeOK
    <2>. QED
      BY <2>4, <2>5
  <1>. QED
    BY <1>1, <1>2, <1>3, PTL DEF LeaseSpec, LeaseRunsOutFirst

-------------------------------------------------------------------------------
(* The corporate actions and the money.  Two things are needed besides the   *)
(* rows and the book: what a sum over a set is when the set grows (the       *)
(* library has no fact about folds), and what the book is before each row of *)
(* a transaction has its turn.  Both are recursive functions, unfolded by a   *)
(* least counterexample.                                                     *)

LEMMA LeastNatural ==
    ASSUME NEW T, T \subseteq Nat, T # {}
    PROVE  \E x \in T : \A y \in T : x <= y
<1> DEFINE below == OpToRel(<, Nat)
<1>1. IsWellFoundedOn(below, Nat)
  BY NatLessThanWellFounded, Zenon
<1>2. \A x, y \in Nat : y < x => <<y, x>> \in below
  BY SMT DEF OpToRel
<1> HIDE DEF below
<1>3. PICK x \in T : \A y \in T : ~ (<<y, x>> \in below)
  BY <1>1, WFMin
<1>4. ASSUME NEW y \in T  PROVE x <= y
  <2>1. x \in Nat /\ y \in Nat
    OBVIOUS
  <2>2. ~(y < x)
    BY <1>2, <1>3, <2>1
  <2>. QED  BY <2>1, <2>2
<1>. QED  BY <1>4

-------------------------------------------------------------------------------
(* Sums.  SumFunction adds the values of a function in the order of some     *)
(* choice: it is shown not to depend on it.                                  *)

Chosen(s) == CHOOSE x \in s : TRUE

\* One step of the sum over s, with the sums over smaller sets in part.
Added(part, f, s) == IF s = {} THEN 0 ELSE f[Chosen(s)] + part[s \ {Chosen(s)}]

Sums(sum, f, D) == sum = [s \in SUBSET D |-> Added(sum, f, s)]

Ints(f, D) == f \in [D -> Int]

Parts(D, n) == {s \in SUBSET D : Cardinality(s) <= n}

LEMMA SumUnfolds ==
    ASSUME NEW f
    PROVE  SumFunction(f) =
             (CHOOSE sum : sum = [s \in SUBSET DOMAIN f |-> Added(sum, f, s)])[DOMAIN f]
  BY DEF SumFunction, SumFunctionOnSet, FoldFunctionOnSet, MapThenFoldSet, Added, Chosen

LEMMA Smaller ==
    ASSUME NEW s, IsFiniteSet(s), NEW x \in s
    PROVE  /\ IsFiniteSet(s \ {x}) /\ Cardinality(s \ {x}) \in Nat /\ Cardinality(s) \in Nat
           /\ Cardinality(s) = Cardinality(s \ {x}) + 1
<1>1. IsFiniteSet(s \ {x}) /\ x \notin s \ {x} /\ s = (s \ {x}) \cup {x}
  BY FS_Subset
<1>2. Cardinality((s \ {x}) \cup {x}) = Cardinality(s \ {x}) + 1
  BY <1>1, FS_AddElement
<1>. QED  BY <1>1, <1>2, FS_CardinalityType

LEMMA ChosenIn ==
    ASSUME NEW s, s # {}
    PROVE  Chosen(s) \in s
  BY DEF Chosen

LEMMA SumsExist ==
    ASSUME NEW f, NEW D, IsFiniteSet(D)
    PROVE  \E sum : sum = [s \in SUBSET D |-> Added(sum, f, s)]
<1> DEFINE Wrong == {n \in Nat : ~ \E sum : sum = [s \in Parts(D, n) |-> Added(sum, f, s)]}
<1>1. Wrong = {}
  <2>1. SUFFICES ASSUME Wrong # {}  PROVE FALSE
    OBVIOUS
  <2>2. PICK n \in Wrong : \A m \in Wrong : n <= m
    <3>1. Wrong \subseteq Nat
      OBVIOUS
    <3> HIDE DEF Wrong
    <3>. QED  BY <2>1, <3>1, LeastNatural
  <2>3. n \in Nat /\ ~ \E sum : sum = [s \in Parts(D, n) |-> Added(sum, f, s)]
    BY <2>2
  <2>4. \A s \in Parts(D, n) : s \in SUBSET D /\ IsFiniteSet(s) /\ Cardinality(s) \in Nat
    BY FS_Subset, FS_CardinalityType DEF Parts
  <2>5. CASE n = 0
    <3> DEFINE d == [s \in Parts(D, n) |-> 0]
    <3>1. ASSUME NEW s \in Parts(D, n)  PROVE s = {}
      BY <2>4, <2>5, FS_EmptySet DEF Parts
    <3>2. d = [s \in Parts(D, n) |-> Added(d, f, s)]
      BY <3>1 DEF Added
    <3> HIDE DEF d
    <3>. QED  BY <2>3, <3>2
  <2>6. CASE n # 0
    <3>1. n - 1 \in Nat /\ n - 1 \notin Wrong
      BY <2>2, <2>3, <2>6
    <3>2. PICK e : e = [s \in Parts(D, n - 1) |-> Added(e, f, s)]
      BY <3>1
    <3> DEFINE d == [s \in Parts(D, n) |-> Added(e, f, s)]
    <3>3. ASSUME NEW s \in Parts(D, n)  PROVE d[s] = Added(d, f, s)
      <4>1. CASE s = {}
        BY <4>1 DEF Added
      <4>2. CASE s # {}
        <5> DEFINE t == s \ {Chosen(s)}
        <5>1. Chosen(s) \in s
          BY <4>2, ChosenIn
        <5>2. t \in SUBSET D /\ Cardinality(t) \in Nat /\ Cardinality(s) = Cardinality(t) + 1
          BY <2>4, <5>1, Smaller
        <5>3. t \in Parts(D, n - 1) /\ t \in Parts(D, n)
          BY <2>3, <5>2 DEF Parts
        <5>4. d[t] = Added(e, f, t) /\ e[t] = Added(e, f, t)
          BY <3>2, <5>3
        <5>5. d[s] = f[Chosen(s)] + e[t]
          BY <4>2 DEF Added
        <5>6. Added(d, f, s) = f[Chosen(s)] + d[t]
          BY <4>2 DEF Added
        <5>. QED  BY <5>4, <5>5, <5>6
      <4>. QED  BY <4>1, <4>2
    <3>4. d = [s \in Parts(D, n) |-> Added(d, f, s)]
      <4>1. d = [s \in Parts(D, n) |-> d[s]]
        OBVIOUS
      <4> HIDE DEF d
      <4>. QED  BY <3>3, <4>1
    <3> HIDE DEF d
    <3>. QED  BY <2>3, <3>4
  <2>. QED  BY <2>5, <2>6
<1>2. Cardinality(D) \in Nat
  BY FS_CardinalityType
<1>3. PICK sum : sum = [s \in Parts(D, Cardinality(D)) |-> Added(sum, f, s)]
  BY <1>1, <1>2
<1>4. Parts(D, Cardinality(D)) = SUBSET D
  BY FS_Subset DEF Parts
<1>. QED  BY <1>3, <1>4

LEMMA SumsAgree ==
    ASSUME NEW f, NEW g, NEW D, NEW E, NEW d, NEW e,
           Sums(d, f, D), Sums(e, g, E),
           NEW T, IsFiniteSet(T), T \subseteq D, T \subseteq E, \A x \in T : f[x] = g[x]
    PROVE  d[T] = e[T]
<1> DEFINE Wrong == {n \in Nat : \E t \in SUBSET T : Cardinality(t) = n /\ d[t] # e[t]}
<1>1. Wrong = {}
  <2>1. SUFFICES ASSUME Wrong # {}  PROVE FALSE
    OBVIOUS
  <2>2. PICK n \in Wrong : \A m \in Wrong : n <= m
    <3>1. Wrong \subseteq Nat
      OBVIOUS
    <3> HIDE DEF Wrong
    <3>. QED  BY <2>1, <3>1, LeastNatural
  <2>3. PICK t \in SUBSET T : Cardinality(t) = n /\ d[t] # e[t]
    BY <2>2
  <2>4. t \in SUBSET D /\ t \in SUBSET E /\ IsFiniteSet(t)
    BY FS_Subset
  <2>5. d[t] = Added(d, f, t) /\ e[t] = Added(e, g, t)
    BY <2>4 DEF Sums
  <2>6. t # {}
    BY <2>3, <2>5 DEF Added
  <2> DEFINE u == t \ {Chosen(t)}
  <2>7. Chosen(t) \in t
    BY <2>6, ChosenIn
  <2>8. u \in SUBSET T /\ Cardinality(u) \in Nat /\ n = Cardinality(u) + 1
    BY <2>3, <2>4, <2>7, Smaller
  <2>9. d[u] = e[u]
    <3>1. Cardinality(u) \notin Wrong
      <4>1. n \in Nat /\ ~(n <= Cardinality(u))
        BY <2>8
      <4> HIDE DEF Wrong, u
      <4>. QED  BY <2>2, <4>1
    <3>. QED  BY <2>8, <3>1
  <2>10. d[t] = f[Chosen(t)] + d[u] /\ e[t] = g[Chosen(t)] + e[u]
    BY <2>5, <2>6 DEF Added
  <2>11. f[Chosen(t)] = g[Chosen(t)]
    BY <2>7
  <2>. QED  BY <2>3, <2>9, <2>10, <2>11
<1>2. Cardinality(T) \in Nat
  BY FS_CardinalityType
<1>. QED  BY <1>1, <1>2

\* The sum of nothing, and what one chosen value adds.
LEMMA SumOfNothing ==
    ASSUME NEW f, DOMAIN f = {}
    PROVE  SumFunction(f) = 0
<1> DEFINE sum == CHOOSE sum : sum = [s \in SUBSET DOMAIN f |-> Added(sum, f, s)]
<1>1. sum = [s \in SUBSET DOMAIN f |-> Added(sum, f, s)]
  BY SumsExist, FS_EmptySet
<1>2. SumFunction(f) = sum[DOMAIN f]
  BY SumUnfolds
<1> HIDE DEF sum
<1>. QED  BY <1>1, <1>2 DEF Added

Less(f, x) == [y \in DOMAIN f \ {x} |-> f[y]]

LEMMA SumChosen ==
    ASSUME NEW f, IsFiniteSet(DOMAIN f), DOMAIN f # {}
    PROVE  SumFunction(f) = f[Chosen(DOMAIN f)] + SumFunction(Less(f, Chosen(DOMAIN f)))
<1> DEFINE D == DOMAIN f
           x == Chosen(DOMAIN f)
           g == Less(f, x)
           d == CHOOSE sum : sum = [s \in SUBSET DOMAIN f |-> Added(sum, f, s)]
           e == CHOOSE sum : sum = [s \in SUBSET DOMAIN g |-> Added(sum, g, s)]
<1>1. x \in D /\ DOMAIN g = D \ {x} /\ IsFiniteSet(DOMAIN g)
      /\ \A y \in D \ {x} : f[y] = g[y]
  BY ChosenIn, FS_Subset DEF Less
<1>2. d = [s \in SUBSET DOMAIN f |-> Added(d, f, s)]
  BY SumsExist
<1>3. e = [s \in SUBSET DOMAIN g |-> Added(e, g, s)]
  BY <1>1, SumsExist
<1>4. SumFunction(f) = d[D] /\ SumFunction(g) = e[DOMAIN g]
  BY SumUnfolds
<1> HIDE DEF d, e, g
<1>5. d[D \ {x}] = e[D \ {x}]
  <2> DEFINE T == D \ {x}
  <2>1. IsFiniteSet(T) /\ T \subseteq DOMAIN f /\ T \subseteq DOMAIN g
        /\ \A y \in T : f[y] = g[y]
    BY <1>1
  <2>2. Sums(d, f, DOMAIN f) /\ Sums(e, g, DOMAIN g)
    BY <1>2, <1>3 DEF Sums
  <2> HIDE DEF T, x, D
  <2>3. d[T] = e[T]
    BY <2>1, <2>2, SumsAgree
  <2>. QED  BY <2>3 DEF T
<1>6. d[D] = f[x] + d[D \ {x}]
  BY <1>2 DEF Added
<1>. QED  BY <1>1, <1>4, <1>5, <1>6 DEF g

\* The sum over D is one value and the sum over the rest, whichever value it is.
LEMMA SumTaken ==
    ASSUME NEW D, IsFiniteSet(D), NEW f \in [D -> Int]
    PROVE  /\ SumFunction(f) \in Int
           /\ \A x \in D : SumFunction(f) = f[x] + SumFunction(Less(f, x))
<1> DEFINE Holds(g) == /\ SumFunction(g) \in Int
                       /\ \A x \in DOMAIN g : SumFunction(g) = g[x] + SumFunction(Less(g, x))
           Wrong == {n \in Nat : \E C \in SUBSET D : Cardinality(C) = n /\ ~ \A g \in [C -> Int] : Holds(g)}
<1>1. Wrong = {}
  <2>1. SUFFICES ASSUME Wrong # {}  PROVE FALSE
    OBVIOUS
  <2>2. PICK n \in Wrong : \A m \in Wrong : n <= m
    <3>1. Wrong \subseteq Nat
      OBVIOUS
    <3> HIDE DEF Wrong
    <3>. QED  BY <2>1, <3>1, LeastNatural
  <2>3. PICK C \in SUBSET D : Cardinality(C) = n /\ ~ \A g \in [C -> Int] : Holds(g)
    BY <2>2
  <2>4. PICK g \in [C -> Int] : ~ Holds(g)
    BY <2>3
  <2>5. IsFiniteSet(C) /\ DOMAIN g = C
    BY FS_Subset
  <2>6. CASE C = {}
    BY <2>4, <2>5, <2>6, SumOfNothing
  <2>7. CASE C # {}
    <3> DEFINE c == Chosen(C)
    <3>1. c \in C /\ g[c] \in Int
      BY <2>7, ChosenIn
    <3>2. SumFunction(g) = g[c] + SumFunction(Less(g, c))
      BY <2>5, <2>7, SumChosen
    <3> HIDE DEF c
    <3>3. ASSUME NEW x \in C, NEW h \in [C \ {x} -> Int]  PROVE Holds(h)
      <4>1. Cardinality(C \ {x}) \in Nat /\ n = Cardinality(C \ {x}) + 1
        BY <2>3, <2>5, Smaller
      <4>2. Cardinality(C \ {x}) \notin Wrong
        BY <2>2, <4>1
      <4>. QED  BY <4>1, <4>2, <3>3
    <3>4. \A x \in C : Less(g, x) \in [C \ {x} -> Int]
      BY <2>5 DEF Less
    <3>5. SumFunction(g) \in Int
      <4>1. Less(g, c) \in [C \ {c} -> Int]
        BY <3>1, <3>4
      <4>2. SumFunction(Less(g, c)) \in Int
        BY <3>1, <3>3, <4>1
      <4>. QED  BY <3>1, <3>2, <4>2
    <3>6. ASSUME NEW x \in C  PROVE SumFunction(g) = g[x] + SumFunction(Less(g, x))
      <4>1. CASE x = c
        BY <3>2, <4>1
      <4>2. CASE x # c
        <5> DEFINE both == Less(Less(g, c), x)
        <5>1. Less(g, c) \in [C \ {c} -> Int] /\ x \in DOMAIN Less(g, c) /\ Less(g, c)[x] = g[x]
          BY <2>5, <3>4, <4>2 DEF Less
        <5>2. Less(g, x) \in [C \ {x} -> Int] /\ c \in DOMAIN Less(g, x) /\ Less(g, x)[c] = g[c]
          BY <2>5, <3>1, <3>4, <4>2 DEF Less
        <5>3. Less(Less(g, x), c) = both
          BY <2>5 DEF Less
        <5> HIDE DEF both
        <5>4. SumFunction(Less(g, c)) = g[x] + SumFunction(both)
          BY <3>1, <3>3, <5>1 DEF both
        <5>5. SumFunction(Less(g, x)) = g[c] + SumFunction(both)
          BY <3>3, <5>2, <5>3
        <5>6. SumFunction(both) \in Int
          <6>1. both \in [(C \ {c}) \ {x} -> Int]
            BY <2>5 DEF both, Less
          <6>2. Cardinality((C \ {c}) \ {x}) \in Nat /\ Cardinality((C \ {c}) \ {x}) < n
            <7>1. IsFiniteSet(C \ {c}) /\ x \in C \ {c}
              BY <2>5, <4>2, FS_Subset
            <7>2. /\ Cardinality(C \ {c}) \in Nat
                  /\ Cardinality(C) = Cardinality(C \ {c}) + 1
              BY <2>5, <3>1, Smaller
            <7>3. /\ Cardinality((C \ {c}) \ {x}) \in Nat
                  /\ Cardinality(C \ {c}) = Cardinality((C \ {c}) \ {x}) + 1
              BY <7>1, Smaller
            <7>. QED  BY <2>3, <7>2, <7>3
          <6>3. Cardinality((C \ {c}) \ {x}) \notin Wrong
            BY <2>2, <2>3, <6>2
          <6>. QED  BY <6>1, <6>2, <6>3
        <5>7. g[x] \in Int
          OBVIOUS
        <5>. QED  BY <3>1, <3>2, <5>4, <5>5, <5>6, <5>7
      <4>. QED  BY <4>1, <4>2
    <3>. QED  BY <2>4, <2>5, <3>5, <3>6
  <2>. QED  BY <2>6, <2>7
<1>2. Cardinality(D) \in Nat /\ DOMAIN f = D
  BY FS_CardinalityType
<1>3. Holds(f)
  BY <1>1, <1>2
<1>. QED  BY <1>2, <1>3

\* One value more.
LEMMA SumGrows ==
    ASSUME NEW D, IsFiniteSet(D), NEW f, Ints(f, D), NEW x, x \notin D,
           NEW g, Ints(g, D \cup {x}), \A y \in D : g[y] = f[y]
    PROVE  SumFunction(g) = SumFunction(f) + g[x] /\ SumFunction(f) \in Int
<1> USE DEF Ints
<1>1. IsFiniteSet(D \cup {x})
  BY FS_AddElement
<1>2. SumFunction(g) = g[x] + SumFunction(Less(g, x))
  BY <1>1, SumTaken
<1>3. Less(g, x) = f
  BY DEF Less
<1>4. SumFunction(f) \in Int /\ g[x] \in Int
  BY SumTaken
<1>. QED  BY <1>2, <1>3, <1>4

\* What is posted once for every r of R adds what the r's add up to.
LEMMA SumPosted ==
    ASSUME NEW D, IsFiniteSet(D), NEW f \in [D -> Int],
           NEW R, IsFiniteSet(R), NEW amount \in [R -> Int],
           NEW post, \A r \in R : post[r] \notin D,
           \A r, q \in R : post[r] = post[q] => r = q,
           NEW g \in [D \cup {post[r] : r \in R} -> Int],
           \A y \in D : g[y] = f[y], \A r \in R : g[post[r]] = amount[r]
    PROVE  /\ SumFunction(g) = SumFunction(f) + SumFunction(amount)
           /\ SumFunction(f) \in Int /\ SumFunction(amount) \in Int
           /\ IsFiniteSet(D \cup {post[r] : r \in R})
<1> DEFINE On(S) == D \cup {post[r] : r \in S}
           G(S) == [y \in On(S) |-> g[y]]
           A(S) == [r \in S |-> amount[r]]
           Wrong == {n \in Nat : \E S \in SUBSET R : Cardinality(S) = n
                      /\ ~ (IsFiniteSet(On(S)) /\ SumFunction(G(S)) = SumFunction(f) + SumFunction(A(S)))}
<1>0. SumFunction(f) \in Int
  BY SumTaken
<1>1. Wrong = {}
  <2>1. SUFFICES ASSUME Wrong # {}  PROVE FALSE
    OBVIOUS
  <2>2. PICK n \in Wrong : \A m \in Wrong : n <= m
    <3>1. Wrong \subseteq Nat
      OBVIOUS
    <3> HIDE DEF Wrong
    <3>. QED  BY <2>1, <3>1, LeastNatural
  <2>3. PICK S \in SUBSET R : Cardinality(S) = n
          /\ ~ (IsFiniteSet(On(S)) /\ SumFunction(G(S)) = SumFunction(f) + SumFunction(A(S)))
    BY <2>2
  <2>4. IsFiniteSet(S)
    BY FS_Subset
  <2>5. CASE S = {}
    <3>1. On(S) = D /\ G(S) = f /\ DOMAIN A(S) = {}
      BY <2>5
    <3>2. SumFunction(A(S)) = 0
      BY <3>1, SumOfNothing
    <3>. QED  BY <1>0, <2>3, <3>1, <3>2
  <2>6. CASE S # {}
    <3>1. PICK r \in S : TRUE
      BY <2>6
    <3> DEFINE T == S \ {r}
    <3>2. Cardinality(T) \in Nat /\ n = Cardinality(T) + 1 /\ T \in SUBSET R /\ IsFiniteSet(T)
      BY <2>3, <2>4, Smaller
    <3>3. Cardinality(T) \notin Wrong
      <4>1. n \in Nat /\ ~(n <= Cardinality(T))
        BY <3>2
      <4> HIDE DEF Wrong, T
      <4>. QED  BY <2>2, <4>1
    <3>4. IsFiniteSet(On(T)) /\ SumFunction(G(T)) = SumFunction(f) + SumFunction(A(T))
      BY <3>2, <3>3
    <3>5. On(S) = On(T) \cup {post[r]} /\ post[r] \notin On(T)
      OBVIOUS
    <3>6. G(T) \in [On(T) -> Int] /\ G(S) \in [On(T) \cup {post[r]} -> Int]
          /\ G(S)[post[r]] = amount[r] /\ \A y \in On(T) : G(S)[y] = G(T)[y]
      <4>1. \A y \in On(S) : g[y] \in Int
        OBVIOUS
      <4>. QED  BY <3>5, <4>1
    <3>7. A(T) \in [T -> Int] /\ A(S) \in [T \cup {r} -> Int] /\ r \notin T /\ A(S)[r] = amount[r]
          /\ \A q \in T : A(S)[q] = A(T)[q]
      OBVIOUS
    <3> HIDE DEF On, G, A, T
    <3>8. SumFunction(G(S)) = SumFunction(G(T)) + amount[r] /\ IsFiniteSet(On(S))
      <4> DEFINE big == G(S)
                 small == G(T)
                 at == post[r]
                 dom == On(T)
      <4>1. /\ IsFiniteSet(dom) /\ at \notin dom
            /\ Ints(small, dom) /\ Ints(big, dom \cup {at})
            /\ \A y \in dom : big[y] = small[y]
        BY <3>4, <3>5, <3>6 DEF Ints
      <4> HIDE DEF big, small, at, dom
      <4>2. SumFunction(big) = SumFunction(small) + big[at] /\ SumFunction(small) \in Int
        BY <4>1, SumGrows
      <4>3. IsFiniteSet(dom \cup {at})
        BY <4>1, FS_AddElement
      <4>. QED  BY <3>5, <3>6, <4>2, <4>3 DEF big, small, at, dom
    <3>9. SumFunction(A(S)) = SumFunction(A(T)) + amount[r] /\ SumFunction(A(T)) \in Int
      <4> DEFINE big == A(S)
                 small == A(T)
      <4>1. /\ IsFiniteSet(T) /\ r \notin T
            /\ Ints(small, T) /\ Ints(big, T \cup {r})
            /\ \A q \in T : big[q] = small[q]
        BY <3>2, <3>7 DEF Ints
      <4> HIDE DEF big, small
      <4>2. SumFunction(big) = SumFunction(small) + big[r] /\ SumFunction(small) \in Int
        BY <4>1, SumGrows
      <4>. QED  BY <3>7, <4>2 DEF big, small
    <3>10. amount[r] \in Int
      OBVIOUS
    <3>. QED  BY <1>0, <2>3, <3>4, <3>8, <3>9, <3>10
  <2>. QED  BY <2>5, <2>6
<1>2. Cardinality(R) \in Nat
  BY FS_CardinalityType
<1>3. IsFiniteSet(On(R)) /\ SumFunction(G(R)) = SumFunction(f) + SumFunction(A(R))
  BY <1>1, <1>2
<1>4. G(R) = g /\ A(R) = amount
  OBVIOUS
<1>5. SumFunction(amount) \in Int
  BY SumTaken
<1>. QED  BY <1>0, <1>3, <1>4, <1>5

-------------------------------------------------------------------------------
(* Settling an action.                                                      *)

Keys == {"CASH_IN_LIEU", "TERMINATION", "DIVIDEND_PAYMENT"} \X ActionIds
Posting == [key : Keys, amount : Nat]
Claim == [id : ActionIds, amount : Nat, pay : Nat, paid : BOOLEAN]
Books == [cash : Int, ledger : SUBSET Posting, owed : SUBSET Claim,
          held : [Securities -> Nat], buys : SUBSET Securities, account : Accounts]

\* The book between two settlements of day d, when the dividends that can be owed are
\* those of the actions in known.
BookSound(b, d, known) ==
    /\ b \in Books
    /\ IsFiniteSet(b.ledger) /\ IsFiniteSet(b.owed)
    /\ \A r \in b.owed : r.id \in known /\ (r.paid => r.pay <= d)
    /\ \A r, q \in b.owed : r.id = q.id => r = q
    /\ \A e \in b.ledger : e.key[1] = "DIVIDEND_PAYMENT" =>
          \E r \in b.owed : r.id = e.key[2] /\ r.paid

Amounts(ledger) == [e \in ledger |-> e.amount]

\* The cash that does not come from the ledger.
Unposted(b) == b.cash - SumFunction(Amounts(b.ledger))

LEMMA LedgerSums ==
    ASSUME NEW ledger, ledger \subseteq Posting, IsFiniteSet(ledger)
    PROVE  SumFunction(Amounts(ledger)) \in Int /\ Amounts(ledger) \in [ledger -> Int]
<1>1. Amounts(ledger) \in [ledger -> Int]
  BY DEF Amounts, Posting
<1>. QED  BY <1>1, SumTaken

\* A credit, once for each key, is cash and entry.
LEMMA CreditBalances ==
    ASSUME NEW d, NEW known, NEW b, BookSound(b, d, known),
           NEW key \in Keys, key[1] # "DIVIDEND_PAYMENT", NEW amount \in Nat
    PROVE  /\ BookSound(Credit(b, key, amount), d, known)
           /\ Unposted(Credit(b, key, amount)) = Unposted(b)
           /\ Credit(b, key, amount).held = b.held
           /\ Credit(b, key, amount).buys = b.buys
           /\ Credit(b, key, amount).owed = b.owed
<1> DEFINE entry == [key |-> key, amount |-> amount]
           c == Credit(b, key, amount)
<1>1. CASE \E e \in b.ledger : e.key = key
  BY <1>1 DEF Credit
<1>2. CASE ~ \E e \in b.ledger : e.key = key
  <2>1. c = [b EXCEPT !.ledger = @ \cup {entry}, !.cash = @ + amount]
    BY <1>2 DEF Credit
  <2>2. b \in Books
    BY DEF BookSound
  <2>3. /\ c.ledger = b.ledger \cup {entry} /\ c.cash = b.cash + amount
        /\ c.held = b.held /\ c.buys = b.buys /\ c.owed = b.owed /\ c.account = b.account
    BY <2>1, <2>2 DEF Books
  <2>4. entry \in Posting /\ entry \notin b.ledger /\ entry.key[1] # "DIVIDEND_PAYMENT"
        /\ entry.amount = amount
    BY <1>2 DEF Posting
  <2>5. b.ledger \subseteq Posting /\ b.cash \in Int /\ IsFiniteSet(b.ledger)
    BY <2>2 DEF Books, BookSound
  <2>6. c \in Books
    <3> DEFINE X == b.ledger \cup {entry}
               Y == b.cash + amount
    <3>1. X \in SUBSET Posting /\ Y \in Int
      BY <2>4, <2>5
    <3>2. c = [[b EXCEPT !.ledger = X] EXCEPT !.cash = Y]
      BY <2>1
    <3> HIDE DEF X, Y, c
    <3>3. [b EXCEPT !.ledger = X] \in Books
      BY <2>2, <3>1 DEF Books
    <3>. QED  BY <3>1, <3>2, <3>3 DEF Books
  <2> HIDE DEF entry, c
  <2>7. IsFiniteSet(c.ledger)
    BY <2>3, <2>5, FS_AddElement
  <2>8. BookSound(c, d, known)
    BY <2>3, <2>4, <2>6, <2>7 DEF BookSound
  <2>9. SumFunction(Amounts(c.ledger)) = SumFunction(Amounts(b.ledger)) + amount
    <3>1. Ints(Amounts(b.ledger), b.ledger) /\ Ints(Amounts(c.ledger), b.ledger \cup {entry})
      BY <2>3, <2>4, <2>5, LedgerSums, FS_AddElement DEF Ints
    <3>2. Amounts(c.ledger)[entry] = amount
          /\ \A e \in b.ledger : Amounts(c.ledger)[e] = Amounts(b.ledger)[e]
      BY <2>3, <2>4 DEF Amounts
    <3> DEFINE old == Amounts(b.ledger)
               new == Amounts(c.ledger)
               led == b.ledger
    <3>3. IsFiniteSet(led) /\ entry \notin led /\ Ints(old, led) /\ Ints(new, led \cup {entry})
          /\ \A e \in led : new[e] = old[e]
      BY <2>4, <2>5, <3>1, <3>2
    <3> HIDE DEF old, new, led
    <3>4. SumFunction(new) = SumFunction(old) + new[entry] /\ SumFunction(old) \in Int
      BY <3>3, SumGrows
    <3>. QED  BY <3>2, <3>4 DEF old, new
  <2>10. SumFunction(Amounts(b.ledger)) \in Int
    BY <2>5, LedgerSums
  <2>11. Unposted(c) = Unposted(b)
    <3> DEFINE s == SumFunction(Amounts(b.ledger))
               t == SumFunction(Amounts(c.ledger))
    <3>1. s \in Int /\ t = s + amount
      BY <2>9, <2>10
    <3> HIDE DEF s, t
    <3>2. (b.cash + amount) - t = b.cash - s
      BY <2>5, <3>1
    <3>. QED  BY <2>3, <3>2 DEF Unposted, s, t
  <2>. QED  BY <2>3, <2>8, <2>11 DEF c
<1>. QED  BY <1>1, <1>2

\* Shares and orders are not money.
LEMMA SharesOnly ==
    ASSUME NEW d, NEW known, NEW b, BookSound(b, d, known), NEW c, c \in Books,
           c.ledger = b.ledger, c.cash = b.cash, c.owed = b.owed
    PROVE  BookSound(c, d, known) /\ Unposted(c) = Unposted(b)
  BY DEF BookSound, Unposted

\* What settling an action may do to a book of day d: the money stays explained, orders
\* to buy are only cancelled, and of the dividends only that of the action is new.
Settles(b, c, d, known, a) ==
    /\ BookSound(c, d, known \cup {a.id})
    /\ Unposted(c) = Unposted(b)
    /\ c.buys \subseteq b.buys

LEMMA KnownGrows ==
    ASSUME NEW d, NEW known, NEW b, BookSound(b, d, known), NEW more, known \subseteq more
    PROVE  BookSound(b, d, more)
  BY DEF BookSound

LEMMA FractionIsPaid ==
    ASSUME NEW d, NEW known, NEW b, BookSound(b, d, known), NEW a \in Actions, ~Unpriced(b, a)
    PROVE  /\ BookSound(PayFraction(b, a), d, known)
           /\ Unposted(PayFraction(b, a)) = Unposted(b)
           /\ PayFraction(b, a).held = b.held
           /\ PayFraction(b, a).buys = b.buys
           /\ PayFraction(b, a).owed = b.owed
           /\ Whole(b, a) \in Nat
<1>1. /\ a.num \in Nat /\ a.den \in Nat \ {0} /\ a.security \in Securities /\ a.id \in ActionIds
      /\ a.cash \in Nat \cup {Absent}
  BY ActionsConstants DEF ActionIds
<1>2. b.held[a.security] \in Nat
  BY <1>1 DEF BookSound, Books
<1>3. Exact(b, a) \in Nat
  BY <1>1, <1>2 DEF Exact
<1>4. Whole(b, a) \in Nat /\ Exact(b, a) % a.den \in Nat
  BY <1>1, <1>3 DEF Whole
<1>5. CASE HasFraction(b, a)
  <2>1. a.cash \in Nat
    BY <1>1, <1>5 DEF Unpriced
  <2> DEFINE amount == ((Exact(b, a) % a.den) * a.cash) \div a.den
  <2>2. amount \in Nat
    <3>1. (Exact(b, a) % a.den) * a.cash \in Nat
      BY <1>4, <2>1
    <3>. QED  BY <1>1, <3>1
  <2>3. PayFraction(b, a) = Credit(b, <<"CASH_IN_LIEU", a.id>>, amount)
    BY <1>5 DEF PayFraction
  <2> DEFINE key == <<"CASH_IN_LIEU", a.id>>
  <2>4. PayFraction(b, a) = Credit(b, key, amount) /\ key \in Keys
        /\ key[1] # "DIVIDEND_PAYMENT"
    BY <1>1, <2>3 DEF Keys
  <2> HIDE DEF amount, key
  <2>. QED  BY <1>4, <2>2, <2>4, CreditBalances
<1>6. CASE ~HasFraction(b, a)
  BY <1>4, <1>6 DEF PayFraction
<1>. QED  BY <1>5, <1>6

LEMMA OrdersCancelled ==
    ASSUME NEW d, NEW known, NEW b, BookSound(b, d, known), NEW s
    PROVE  /\ BookSound(CancelOrders(b, s), d, known)
           /\ Unposted(CancelOrders(b, s)) = Unposted(b)
           /\ CancelOrders(b, s).held = b.held /\ CancelOrders(b, s).owed = b.owed
           /\ CancelOrders(b, s).buys = b.buys \ {s}
<1> DEFINE c == CancelOrders(b, s)
<1>1. b \in Books
  BY DEF BookSound
<1>2. c \in Books /\ c.ledger = b.ledger /\ c.cash = b.cash /\ c.owed = b.owed
      /\ c.held = b.held /\ c.buys = b.buys \ {s}
  BY <1>1 DEF CancelOrders, Books
<1> HIDE DEF c
<1>3. BookSound(c, d, known) /\ Unposted(c) = Unposted(b)
  BY <1>2, SharesOnly
<1>. QED  BY <1>2, <1>3 DEF c

Hold(b, s, quantity) == [b EXCEPT !.held[s] = quantity]

LEMMA SharesMoved ==
    ASSUME NEW d, NEW known, NEW b, BookSound(b, d, known), NEW s, NEW quantity \in Nat
    PROVE  /\ BookSound(Hold(b, s, quantity), d, known)
           /\ Unposted(Hold(b, s, quantity)) = Unposted(b)
           /\ Hold(b, s, quantity).buys = b.buys
           /\ Hold(b, s, quantity).owed = b.owed
<1> DEFINE c == Hold(b, s, quantity)
<1>1. b \in Books
  BY DEF BookSound
<1>2. [b.held EXCEPT ![s] = quantity] \in [Securities -> Nat]
  BY <1>1 DEF Books
<1>3. c \in Books /\ c.ledger = b.ledger /\ c.cash = b.cash /\ c.owed = b.owed
      /\ c.buys = b.buys
  BY <1>1, <1>2 DEF Books, Hold
<1> HIDE DEF c
<1>4. BookSound(c, d, known) /\ Unposted(c) = Unposted(b)
  BY <1>3, SharesOnly
<1>. QED  BY <1>3, <1>4 DEF c

LEMMA SharesReplaced ==
    ASSUME NEW d, NEW known, NEW b, BookSound(b, d, known), NEW a \in Actions, Whole(b, a) \in Nat
    PROVE  /\ BookSound(ReplaceShares(b, a), d, known)
           /\ Unposted(ReplaceShares(b, a)) = Unposted(b)
           /\ ReplaceShares(b, a).buys \subseteq b.buys
<1> DEFINE c == CancelOrders(b, a.security)
           e == Hold(c, a.security, 0)
           f == Hold(e, a.other, Whole(b, a))
<1>1. BookSound(c, d, known) /\ Unposted(c) = Unposted(b) /\ c.buys \subseteq b.buys
  BY OrdersCancelled
<1>2. ReplaceShares(b, a) = f
  BY DEF ReplaceShares, Hold
<1> HIDE DEF c
<1>3. BookSound(e, d, known) /\ Unposted(e) = Unposted(c) /\ e.buys = c.buys
  BY <1>1, SharesMoved
<1> HIDE DEF e
<1>4. BookSound(f, d, known) /\ Unposted(f) = Unposted(e) /\ f.buys = e.buys
  BY <1>3, SharesMoved
<1>. QED  BY <1>1, <1>2, <1>3, <1>4

LEMMA RatioSettles ==
    ASSUME NEW d, NEW known, NEW b, BookSound(b, d, known), NEW a \in Actions
    PROVE  Settles(b, ShareRatio(b, a).book, d, known, a)
<1> DEFINE paid == PayFraction(b, a)
<1>0. known \subseteq known \cup {a.id}
  OBVIOUS
<1>1. CASE Unpriced(b, a)
  <2>1. ShareRatio(b, a).book = b
    BY <1>1 DEF ShareRatio, Unsafe
  <2>. QED  BY <1>0, <2>1, KnownGrows DEF Settles
<1>2. CASE ~Unpriced(b, a)
  <2>1. /\ BookSound(paid, d, known) /\ Unposted(paid) = Unposted(b) /\ paid.held = b.held
        /\ paid.buys = b.buys /\ Whole(b, a) \in Nat
    BY <1>2, FractionIsPaid
  <2>2. Whole(paid, a) = Whole(b, a)
    BY <2>1 DEF Whole, Exact
  <2> DEFINE kept == Hold(paid, a.security, Whole(b, a))
  <2>3. \/ ShareRatio(b, a).book = paid \/ ShareRatio(b, a).book = ReplaceShares(paid, a)
        \/ ShareRatio(b, a).book = kept
    BY <1>2 DEF ShareRatio, Unsafe, Settlement, Hold
  <2> HIDE DEF paid
  <2>4. /\ BookSound(ReplaceShares(paid, a), d, known)
        /\ Unposted(ReplaceShares(paid, a)) = Unposted(b)
        /\ ReplaceShares(paid, a).buys \subseteq b.buys
    BY <2>1, <2>2, SharesReplaced
  <2>5. /\ BookSound(kept, d, known) /\ Unposted(kept) = Unposted(b) /\ kept.buys = b.buys
    BY <2>1, SharesMoved
  <2> HIDE DEF kept
  <2>. QED  BY <1>0, <2>1, <2>3, <2>4, <2>5, KnownGrows DEF Settles
<1>. QED  BY <1>1, <1>2

LEMMA MergerSettles ==
    ASSUME NEW d, NEW known, NEW b, BookSound(b, d, known), NEW a \in Actions
    PROVE  Settles(b, StockMerger(b, a).book, d, known, a)
<1> DEFINE paid == PayFraction(b, a)
<1>0. known \subseteq known \cup {a.id}
  OBVIOUS
<1>1. CASE Taken(b, a) \/ Unpriced(b, a)
  <2>1. StockMerger(b, a).book = b
    BY <1>1 DEF StockMerger, Unsafe
  <2>. QED  BY <1>0, <2>1, KnownGrows DEF Settles
<1>2. CASE ~(Taken(b, a) \/ Unpriced(b, a))
  <2>1. /\ BookSound(paid, d, known) /\ Unposted(paid) = Unposted(b) /\ paid.held = b.held
        /\ paid.buys = b.buys /\ Whole(b, a) \in Nat
    BY <1>2, FractionIsPaid
  <2>2. Whole(paid, a) = Whole(b, a)
    BY <2>1 DEF Whole, Exact
  <2>3. StockMerger(b, a).book = ReplaceShares(paid, a)
    BY <1>2 DEF StockMerger, Settlement
  <2> HIDE DEF paid
  <2>4. /\ BookSound(ReplaceShares(paid, a), d, known)
        /\ Unposted(ReplaceShares(paid, a)) = Unposted(b)
        /\ ReplaceShares(paid, a).buys \subseteq b.buys
    BY <2>1, <2>2, SharesReplaced
  <2>. QED  BY <1>0, <2>3, <2>4, KnownGrows DEF Settles
<1>. QED  BY <1>1, <1>2

LEMMA SpinoffSettles ==
    ASSUME NEW d, NEW known, NEW b, BookSound(b, d, known), NEW a \in Actions
    PROVE  Settles(b, Spinoff(b, a).book, d, known, a)
<1> DEFINE paid == PayFraction(b, a)
<1>0. known \subseteq known \cup {a.id}
  OBVIOUS
<1>1. CASE Taken(b, a) \/ Unpriced(b, a)
  <2>1. Spinoff(b, a).book = b
    BY <1>1 DEF Spinoff, Unsafe
  <2>. QED  BY <1>0, <2>1, KnownGrows DEF Settles
<1>2. CASE ~(Taken(b, a) \/ Unpriced(b, a))
  <2>1. /\ BookSound(paid, d, known) /\ Unposted(paid) = Unposted(b)
        /\ paid.buys = b.buys /\ Whole(b, a) \in Nat
    BY <1>2, FractionIsPaid
  <2> DEFINE child == Hold(paid, a.other, Whole(b, a))
  <2>2. Spinoff(b, a).book = child
    BY <1>2 DEF Spinoff, Settlement, Hold
  <2> HIDE DEF paid
  <2>3. /\ BookSound(child, d, known) /\ Unposted(child) = Unposted(b) /\ child.buys = b.buys
    BY <2>1, SharesMoved
  <2> HIDE DEF child
  <2>. QED  BY <1>0, <2>2, <2>3, KnownGrows DEF Settles
<1>. QED  BY <1>1, <1>2

\* The one dividend an action can owe: none is owed under its id yet.
LEMMA DividendSettles ==
    ASSUME NEW d, NEW known, NEW b, BookSound(b, d, known), NEW a \in Actions,
           a.id \notin known, a.cash \in Nat
    PROVE  Settles(b, Dividend(b, a).book, d, known, a)
<1> DEFINE claim == [id |-> a.id, amount |-> b.held[a.security] * a.cash,
                     pay |-> a.pay, paid |-> FALSE]
           c == [b EXCEPT !.owed = @ \cup {claim}]
<1>1. Dividend(b, a).book = c
  BY DEF Dividend, Settlement
<1>2. b \in Books
  BY DEF BookSound
<1>3. claim \in Claim /\ claim.id = a.id /\ ~ claim.paid
  <2>1. a.id \in ActionIds /\ a.security \in Securities /\ a.pay \in Nat
    BY ActionsConstants DEF ActionIds
  <2>2. b.held[a.security] \in Nat
    BY <1>2, <2>1 DEF Books
  <2>3. b.held[a.security] * a.cash \in Nat
    BY <2>2
  <2>. QED  BY <2>1, <2>3 DEF Claim
<1> HIDE DEF claim
<1>4. c \in Books /\ c.ledger = b.ledger /\ c.cash = b.cash /\ c.buys = b.buys
      /\ c.owed = b.owed \cup {claim}
  BY <1>2, <1>3 DEF Books
<1> HIDE DEF c
<1>5. IsFiniteSet(c.owed)
  BY <1>4, FS_AddElement DEF BookSound
<1>6. \A r \in c.owed : r \in b.owed \/ r = claim
  BY <1>4
<1>7. \A r, q \in c.owed : r.id = q.id => r = q
  BY <1>3, <1>6 DEF BookSound
<1>8. \A r \in c.owed : r.id \in known \cup {a.id} /\ (r.paid => r.pay <= d)
  BY <1>3, <1>6 DEF BookSound
<1>9. \A e \in c.ledger : e.key[1] = "DIVIDEND_PAYMENT" =>
          \E r \in c.owed : r.id = e.key[2] /\ r.paid
  BY <1>4 DEF BookSound
<1>10. BookSound(c, d, known \cup {a.id})
  BY <1>4, <1>5, <1>7, <1>8, <1>9 DEF BookSound
<1>11. Unposted(c) = Unposted(b)
  BY <1>4 DEF Unposted
<1>. QED  BY <1>1, <1>4, <1>10, <1>11 DEF Settles

LEMMA TerminationSettles ==
    ASSUME NEW d, NEW known, NEW b, BookSound(b, d, known), NEW a \in Actions, a.cash \in Nat
    PROVE  Settles(b, Termination(b, a).book, d, known, a)
<1> DEFINE key == <<"TERMINATION", a.id>>
           amount == b.held[a.security] * a.cash
           paid == Credit(b, key, amount)
           c == CancelOrders(paid, a.security)
           e == Hold(c, a.security, 0)
<1>1. Termination(b, a).book = e
  BY DEF Termination, Settlement, Hold
<1>2. amount \in Nat /\ key \in Keys /\ key[1] # "DIVIDEND_PAYMENT"
  <2>1. a.id \in ActionIds /\ a.security \in Securities
    BY ActionsConstants DEF ActionIds
  <2>2. b.held[a.security] \in Nat
    BY <2>1 DEF BookSound, Books
  <2>. QED  BY <2>1, <2>2 DEF Keys
<1> HIDE DEF key, amount
<1>3. BookSound(paid, d, known) /\ Unposted(paid) = Unposted(b) /\ paid.buys = b.buys
  BY <1>2, CreditBalances
<1> HIDE DEF paid
<1>4. BookSound(c, d, known) /\ Unposted(c) = Unposted(paid) /\ c.buys \subseteq paid.buys
  BY <1>3, OrdersCancelled
<1> HIDE DEF c
<1>5. BookSound(e, d, known) /\ Unposted(e) = Unposted(c) /\ e.buys = c.buys
  BY <1>4, SharesMoved
<1> HIDE DEF e
<1>6. known \subseteq known \cup {a.id}
  OBVIOUS
<1>. QED  BY <1>1, <1>3, <1>4, <1>5, <1>6, KnownGrows DEF Settles

LEMMA EconomicSettles ==
    ASSUME NEW d, NEW known, NEW b, BookSound(b, d, known), NEW a \in Actions,
           a.id \notin known, a.sound
    PROVE  Settles(b, Economic(b, a).book, d, known, a)
<1>1. a.kind \in Kinds /\ (a.kind \in {"CASH_DIVIDEND", "TERMINATION"} => a.cash \in Nat)
  BY ActionsConstants
<1>2. CASE a.kind = "SPLIT"
  BY <1>2, RatioSettles DEF Economic
<1>3. CASE a.kind = "CASH_DIVIDEND"
  BY <1>1, <1>3, DividendSettles DEF Economic
<1>4. CASE a.kind = "TERMINATION"
  BY <1>1, <1>4, TerminationSettles DEF Economic
<1>5. CASE a.kind = "STOCK_MERGER"
  BY <1>5, MergerSettles DEF Economic
<1>6. CASE a.kind = "SPINOFF"
  BY <1>6, SpinoffSettles DEF Economic
<1>7. CASE a.kind = "TICKER_CHANGE"
  <2>1. Economic(b, a).book = b
    BY <1>7 DEF Economic, Settlement
  <2>2. known \subseteq known \cup {a.id}
    OBVIOUS
  <2>. QED  BY <2>1, <2>2, KnownGrows DEF Settles
<1>. QED  BY <1>1, <1>2, <1>3, <1>4, <1>5, <1>6, <1>7 DEF Kinds

LEMMA DegradeSettles ==
    ASSUME NEW d, NEW known, NEW b, BookSound(b, d, known)
    PROVE  /\ BookSound(Degrade(b), d, known) /\ Unposted(Degrade(b)) = Unposted(b)
           /\ Degrade(b).buys = b.buys /\ Degrade(b).held = b.held
<1> DEFINE c == Degrade(b)
<1>1. b \in Books
  BY DEF BookSound
<1>2. c \in Books /\ c.ledger = b.ledger /\ c.cash = b.cash /\ c.owed = b.owed
      /\ c.held = b.held /\ c.buys = b.buys
  BY <1>1 DEF Degrade, Books, Accounts
<1> HIDE DEF c
<1>3. BookSound(c, d, known) /\ Unposted(c) = Unposted(b)
  BY <1>2, SharesOnly
<1>. QED  BY <1>2, <1>3 DEF c

\* A pending action, settled or blocked.
LEMMA EffectSettles ==
    ASSUME NEW known, NEW b, BookSound(b, day, known), NEW a \in Actions, a.id \notin known
    PROVE  /\ Settles(b, Effect(b, a), day, known, a)
           /\ phase # "morning" => Effect(b, a).held = b.held
<1> DEFINE e == Economic(b, a).book
<1>0. known \subseteq known \cup {a.id}
  OBVIOUS
<1>1. CASE a.day < day \/ ~a.sound \/ phase # "morning"
  <2>1. Effect(b, a) = Degrade(b)
    BY <1>1 DEF Effect
  <2>2. /\ BookSound(Degrade(b), day, known) /\ Unposted(Degrade(b)) = Unposted(b)
        /\ Degrade(b).buys = b.buys /\ Degrade(b).held = b.held
    BY DegradeSettles
  <2>. QED  BY <1>0, <2>1, <2>2, KnownGrows DEF Settles
<1>2. CASE ~(a.day < day \/ ~a.sound \/ phase # "morning")
  <2>1. Settles(b, e, day, known, a)
    BY <1>2, EconomicSettles
  <2>2. BookSound(b, day, known \cup {a.id})
    BY <1>0, KnownGrows
  <2>3. \/ Effect(b, a) = b \/ Effect(b, a) = e \/ Effect(b, a) = Degrade(e)
    BY <1>2 DEF Effect
  <2> HIDE DEF e
  <2>4. /\ BookSound(Degrade(e), day, known \cup {a.id})
        /\ Unposted(Degrade(e)) = Unposted(e) /\ Degrade(e).buys = e.buys
    BY <2>1, DegradeSettles DEF Settles
  <2>. QED  BY <1>2, <2>1, <2>2, <2>3, <2>4 DEF Settles
<1>. QED  BY <1>1, <1>2

-------------------------------------------------------------------------------
(* The transaction of a tick.                                               *)

\* The turn of row n, and the books between the turns.
Turn(n, b) ==
    IF Inserted[n] # Absent /\ Pending(Inserted, Inserted[n].terms)
    THEN Effect(b, Inserted[n].terms)
    ELSE b

Turns(done, last) == done = [n \in 1..last |-> IF n = 1 THEN book ELSE Turn(n - 1, done[n - 1])]

LEMMA TurnsUnfold ==
    ASSUME NEW last \in Nat
    PROVE  \E done : Turns(done, last)
<1> DEFINE Wrong == {n \in 0..last : ~ \E done : Turns(done, n)}
<1>1. SUFFICES Wrong = {}
  OBVIOUS
<1>2. SUFFICES ASSUME Wrong # {}  PROVE FALSE
  OBVIOUS
<1>3. PICK n \in Wrong : \A y \in Wrong : n <= y
  <2>1. Wrong \subseteq Nat
    OBVIOUS
  <2> HIDE DEF Wrong
  <2>. QED  BY <1>2, <2>1, LeastNatural
<1>4. n \in 0..last /\ ~ \E done : Turns(done, n)
  BY <1>3
<1>5. CASE n = 0
  <2> DEFINE d == [k \in 1..0 |-> book]
             f == [k \in 1..0 |-> IF k = 1 THEN book ELSE Turn(k - 1, d[k - 1])]
  <2>1. \A k \in 1..0 : FALSE
    OBVIOUS
  <2>2. d = f
    BY <2>1
  <2>3. Turns(d, 0)
    BY <2>2 DEF Turns
  <2>. QED  BY <1>4, <1>5, <2>3
<1>6. CASE n # 0
  <2>1. n - 1 \in 0..last /\ n - 1 \notin Wrong
    BY <1>3, <1>4, <1>6
  <2>2. PICK e : Turns(e, n - 1)
    BY <2>1
  <2> DEFINE d == [k \in 1..n |-> IF k = n THEN IF n = 1 THEN book ELSE Turn(n - 1, e[n - 1])
                                  ELSE e[k]]
             f == [k \in 1..n |-> IF k = 1 THEN book ELSE Turn(k - 1, d[k - 1])]
  <2>3. ASSUME NEW k \in 1..n  PROVE d[k] = f[k]
    <3>1. CASE k = n
      <4>1. n # 1 => d[n - 1] = e[n - 1]
        BY <1>4, <1>6
      <4>. QED  BY <3>1, <4>1, <1>4, <1>6
    <3>2. CASE k # n
      <4>1. k \in 1..(n - 1) /\ d[k] = e[k]
        BY <3>2, <1>4
      <4>2. k # 1 => d[k - 1] = e[k - 1]
        BY <4>1, <1>4
      <4>3. e[k] = IF k = 1 THEN book ELSE Turn(k - 1, e[k - 1])
        BY <2>2, <4>1 DEF Turns
      <4>. QED  BY <4>1, <4>2, <4>3
    <3>. QED  BY <3>1, <3>2
  <2>4. d = f
    BY <2>3
  <2>5. Turns(d, n)
    BY <2>4 DEF Turns
  <2> HIDE DEF d
  <2>. QED  BY <1>4, <2>5
<1>. QED  BY <1>5, <1>6

Last == Cardinality(ActionIds) + 1

LEMMA BeforeUnfolds ==
    ASSUME TRUE
    PROVE  Turns(Before, Last)
<1>1. Last \in Nat
  BY ActionsConstants DEF Last
<1>2. PICK e : Turns(e, Last)
  BY <1>1, TurnsUnfold
<1>3. Before = CHOOSE done : Turns(done, Last)
  BY DEF Before, Turns, Turn, Last
<1>. QED  BY <1>2, <1>3

\* What the rows are between transactions.
RowsSound ==
    \A i \in ActionIds : rows[i] # Absent =>
        /\ rows[i].terms \in Actions /\ rows[i].terms.id = i
        /\ rows[i].release \in 1..Releases
        /\ rows[i].status \in Settled \cup {"BLOCKED"}

Known == {i \in ActionIds : rows[i] # Absent}

LEMMA InsertedRows ==
    ASSUME RowsSound, head \in 1..Releases, NEW i \in ActionIds
    PROVE  /\ rows[i] # Absent => Inserted[i] = rows[i] /\ Inserted[i].status # "PENDING"
           /\ Inserted[i] # Absent => Inserted[i].terms \in Actions /\ Inserted[i].terms.id = i
           /\ Inserted[i] # Absent /\ rows[i] = Absent =>
                 Inserted[i] = [terms |-> Inserted[i].terms, release |-> head, status |-> "PENDING"]
<1>1. CASE rows[i] # Absent
  BY <1>1 DEF RowsSound, Inserted, Settled
<1>2. CASE rows[i] = Absent /\ \E a \in Batch : a.id = i
  <2> DEFINE a == CHOOSE a \in Batch : a.id = i
  <2>1. a \in Batch /\ a.id = i
    BY <1>2
  <2>2. Inserted[i] = [terms |-> a, release |-> head, status |-> "PENDING"]
    BY <1>2 DEF Inserted
  <2> HIDE DEF a
  <2>. QED  BY <1>2, <2>1, <2>2 DEF Batch
<1>3. CASE rows[i] = Absent /\ ~ \E a \in Batch : a.id = i
  BY <1>3 DEF Inserted
<1>. QED  BY <1>1, <1>2, <1>3

\* The rows a dividend can be owed for when row n has its turn.
Reached(n) == {i \in ActionIds : rows[i] # Absent \/ (i < n /\ Inserted[i] # Absent)}

\* The book when row n has its turn.
TurnedUpTo(b, n) ==
    /\ BookSound(b, day, Reached(n))
    /\ Unposted(b) = Unposted(book)
    /\ b.buys \subseteq book.buys
    /\ phase # "morning" => b.held = book.held

LEMMA OneTurn ==
    ASSUME RowsSound, head \in 1..Releases, NEW n \in ActionIds, NEW b, TurnedUpTo(b, n)
    PROVE  TurnedUpTo(Turn(n, b), n + 1)
<1> DEFINE known == Reached(n)
           more == Reached(n + 1)
<1>1. /\ n \in Nat /\ known \subseteq more /\ (Inserted[n] # Absent => n \in more)
      /\ (rows[n] = Absent => n \notin known)
  BY ActionsConstants DEF Reached
<1>2. BookSound(b, day, known)
  BY DEF TurnedUpTo
<1>3. CASE Inserted[n] # Absent /\ Inserted[n].status = "PENDING"
  <2> DEFINE a == Inserted[n].terms
  <2>1. a \in Actions /\ a.id = n /\ rows[n] = Absent
    BY <1>3, InsertedRows
  <2>2. Turn(n, b) = Effect(b, a)
    BY <1>3, <2>1 DEF Turn, Pending
  <2>3. n \notin known
    BY <1>1, <2>1
  <2> HIDE DEF a
  <2>4. Settles(b, Effect(b, a), day, known, a) /\ (phase # "morning" => Effect(b, a).held = b.held)
    BY <1>2, <2>1, <2>3, EffectSettles
  <2> DEFINE e == Effect(b, a)
  <2>5. BookSound(e, day, known \cup {n}) /\ Unposted(e) = Unposted(b) /\ e.buys \subseteq b.buys
    BY <2>1, <2>4 DEF Settles
  <2>6. known \cup {n} \subseteq more
    BY <1>1, <1>3
  <2> HIDE DEF e, more, known
  <2>7. BookSound(e, day, more)
    BY <2>5, <2>6, KnownGrows
  <2>. QED  BY <2>2, <2>4, <2>5, <2>7 DEF TurnedUpTo, more, e
<1>4. CASE ~(Inserted[n] # Absent /\ Inserted[n].status = "PENDING")
  <2>1. Turn(n, b) = b
    BY <1>4, InsertedRows DEF Turn, Pending
  <2> HIDE DEF more, known
  <2>2. BookSound(b, day, more)
    BY <1>1, <1>2, KnownGrows
  <2>. QED  BY <2>1, <2>2 DEF TurnedUpTo, more
<1>. QED  BY <1>3, <1>4

LEMMA AllTurns ==
    ASSUME RowsSound, head \in 1..Releases, BookSound(book, day, Known)
    PROVE  \A n \in 1..Last : TurnedUpTo(Before[n], n)
<1> DEFINE Wrong == {n \in 1..Last : ~ TurnedUpTo(Before[n], n)}
<1>1. SUFFICES Wrong = {}
  OBVIOUS
<1>2. SUFFICES ASSUME Wrong # {}  PROVE FALSE
  OBVIOUS
<1>3. Last \in Nat /\ ActionIds = 1..(Last - 1)
  BY ActionsConstants DEF Last
<1>4. PICK n \in Wrong : \A y \in Wrong : n <= y
  <2>1. Wrong \subseteq Nat
    BY <1>3
  <2> HIDE DEF Wrong
  <2>. QED  BY <1>2, <2>1, LeastNatural
<1>5. n \in 1..Last /\ ~ TurnedUpTo(Before[n], n)
  BY <1>4
<1>6. Before[n] = IF n = 1 THEN book ELSE Turn(n - 1, Before[n - 1])
  BY <1>5, BeforeUnfolds DEF Turns
<1>7. CASE n = 1
  <2>1. Known \subseteq Reached(n)
    BY DEF Known, Reached
  <2>2. BookSound(book, day, Reached(n))
    BY <2>1, KnownGrows
  <2>3. Before[n] = book
    BY <1>6, <1>7
  <2>4. TurnedUpTo(book, n)
    BY <2>2 DEF TurnedUpTo
  <2>. QED  BY <1>5, <2>3, <2>4
<1>8. CASE n # 1
  <2> DEFINE p == n - 1
  <2>1. p \in 1..Last /\ p \in ActionIds /\ p \notin Wrong /\ p + 1 = n
    BY <1>3, <1>4, <1>5, <1>8
  <2>2. TurnedUpTo(Before[p], p)
    BY <2>1
  <2>3. Before[n] = Turn(p, Before[p])
    BY <1>6, <1>8
  <2> HIDE DEF p
  <2>4. TurnedUpTo(Turn(p, Before[p]), p + 1)
    BY <2>1, <2>2, OneTurn
  <2>. QED  BY <1>5, <2>1, <2>3, <2>4
<1>. QED  BY <1>7, <1>8

LEMMA RowsSettled ==
    ASSUME RowsSound, head \in 1..Releases, NEW i \in ActionIds
    PROVE  /\ rows[i] # Absent => SettledRows[i] = rows[i]
           /\ Inserted[i] = Absent => SettledRows[i] = Absent
           /\ Inserted[i] # Absent /\ rows[i] = Absent =>
                 /\ SettledRows[i] # Absent
                 /\ SettledRows[i].terms = Inserted[i].terms /\ SettledRows[i].release = head
                 /\ SettledRows[i].status \in Settled \cup {"BLOCKED"}
<1>1. CASE rows[i] # Absent
  BY <1>1, InsertedRows DEF SettledRows, Pending
<1>2. CASE Inserted[i] = Absent
  BY <1>2, InsertedRows DEF SettledRows
<1>3. CASE Inserted[i] # Absent /\ rows[i] = Absent
  <2> DEFINE a == Inserted[i].terms
             s == StatusOf(Before[i], a)
  <2>1. /\ a \in Actions /\ a.id = i
        /\ Inserted[i] = [terms |-> a, release |-> head, status |-> "PENDING"]
    BY <1>3, InsertedRows
  <2>2. SettledRows[i] = [Inserted[i] EXCEPT !.status = s]
    BY <1>3, <2>1 DEF SettledRows, Pending
  <2>3. s \in Settled \cup {"BLOCKED"}
    BY DEF StatusOf, Settled
  <2> HIDE DEF a, s
  <2>4. SettledRows[i] = [terms |-> a, release |-> head, status |-> s]
    BY <2>1, <2>2
  <2>5. SettledRows[i] \in [terms : Actions, release : Nat, status : Settled \cup {"PENDING", "BLOCKED"}]
    BY <2>1, <2>3, <2>4
  <2>. QED  BY <1>3, <2>3, <2>4, <2>5, ActionsConstants DEF a
<1>. QED  BY <1>1, <1>2, <1>3

\* A transaction leaves the rows sound, and the dividends are of rows that are there.
LEMMA TransactionSettles ==
    ASSUME RowsSound, head \in 1..Releases, BookSound(book, day, Known), rows' = SettledRows
    PROVE  /\ RowsSound'
           /\ BookSound(Before[Last], day, Known')
           /\ Unposted(Before[Last]) = Unposted(book)
           /\ Before[Last].buys \subseteq book.buys
           /\ phase # "morning" => Before[Last].held = book.held
<1>1. Last \in 1..Last /\ ActionIds = 1..(Last - 1) /\ Last \in Nat
  BY ActionsConstants DEF Last
<1>2. TurnedUpTo(Before[Last], Last)
  BY <1>1, AllTurns
<1>3. RowsSound'
  <2>1. ASSUME NEW i \in ActionIds, SettledRows[i] # Absent
        PROVE  /\ SettledRows[i].terms \in Actions /\ SettledRows[i].terms.id = i
               /\ SettledRows[i].release \in 1..Releases
               /\ SettledRows[i].status \in Settled \cup {"BLOCKED"}
    BY <2>1, RowsSettled, InsertedRows DEF RowsSound
  <2>. QED  BY <2>1 DEF RowsSound
<1>4. Reached(Last) \subseteq Known'
  <2>1. ASSUME NEW i \in Reached(Last)  PROVE SettledRows[i] # Absent
    BY RowsSettled DEF Reached
  <2>. QED  BY <2>1 DEF Known, Reached
<1>5. BookSound(Before[Last], day, Known')
  BY <1>2, <1>4, KnownGrows DEF TurnedUpTo
<1>. QED  BY <1>2, <1>3, <1>5 DEF TurnedUpTo

\* What is due in b, and what paying makes of a receivable.
Due(b) == {r \in b.owed : FallsDue(r)}
Cleared(r) == IF FallsDue(r) THEN [r EXCEPT !.paid = TRUE] ELSE r
EntryOf(r) == [key |-> <<"DIVIDEND_PAYMENT", r.id>>, amount |-> r.amount]

LEMMA ImageIsFinite ==
    ASSUME NEW S, IsFiniteSet(S), NEW f
    PROVE  IsFiniteSet({f[x] : x \in S})
<1> DEFINE T == {f[x] : x \in S}
           F == [x \in S |-> f[x]]
<1>1. F \in Surjection(S, T)
  BY DEF Surjection, Range
<1> HIDE DEF F
<1>. QED  BY <1>1, FS_Surjection

LEMMA PaymentBalances ==
    ASSUME NEW known, NEW b, BookSound(b, day, known), day \in Int
    PROVE  /\ BookSound(Pay(b), day, known)
           /\ Unposted(Pay(b)) = Unposted(b)
           /\ Pay(b).held = b.held /\ Pay(b).buys = b.buys
           /\ \A r \in Pay(b).owed : r.pay <= day => r.paid
<1> DEFINE D == b.ledger
           R == Due(b)
           amount == [r \in R |-> r.amount]
           post == [r \in R |-> EntryOf(r)]
           O == {Cleared(r) : r \in b.owed}
           L == D \cup {post[r] : r \in R}
           C == b.cash + SumFunction(amount)
           c == Pay(b)
<1>1. c = [b EXCEPT !.owed = O, !.ledger = L, !.cash = C]
  <2>1. {r \in b.owed : FallsDue(r)} = R
    BY DEF Due
  <2>2. \A r \in b.owed : Cleared(r) = IF r \in R THEN [r EXCEPT !.paid = TRUE] ELSE r
    BY DEF Due, Cleared
  <2>3. {IF r \in R THEN [r EXCEPT !.paid = TRUE] ELSE r : r \in b.owed} = O
    BY <2>2
  <2>4. {[key |-> <<"DIVIDEND_PAYMENT", r.id>>, amount |-> r.amount] : r \in R} = {post[r] : r \in R}
    BY DEF EntryOf
  <2>. QED  BY <2>1, <2>3, <2>4 DEF Pay
<1>2. /\ b \in Books /\ IsFiniteSet(D) /\ IsFiniteSet(b.owed)
      /\ \A r \in b.owed : r.id \in known /\ (r.paid => r.pay <= day)
      /\ \A r, q \in b.owed : r.id = q.id => r = q
      /\ \A e \in D : e.key[1] = "DIVIDEND_PAYMENT" => \E r \in b.owed : r.id = e.key[2] /\ r.paid
  BY DEF BookSound
<1>3. D \subseteq Posting /\ b.owed \subseteq Claim /\ b.cash \in Int
  BY <1>2 DEF Books
<1>4. R \subseteq b.owed /\ IsFiniteSet(R) /\ \A r \in R : ~ r.paid /\ r.pay <= day
  BY <1>2, FS_Subset DEF Due, FallsDue
<1>5. amount \in [R -> Int]
  BY <1>3, <1>4 DEF Claim
<1>6. \A r \in R : /\ post[r] \in Posting /\ post[r].key = <<"DIVIDEND_PAYMENT", r.id>>
                   /\ post[r].key[1] = "DIVIDEND_PAYMENT" /\ post[r].key[2] = r.id
                   /\ post[r].amount = r.amount
  BY <1>3, <1>4 DEF EntryOf, Posting, Keys, Claim
<1>7. \A r \in R : post[r] \notin D
  <2>1. ASSUME NEW r \in R, post[r] \in D  PROVE FALSE
    <3> DEFINE e == post[r]
    <3>1. e \in D /\ e.key[1] = "DIVIDEND_PAYMENT" /\ e.key[2] = r.id
      BY <1>6, <2>1
    <3> HIDE DEF e
    <3>2. PICK q \in b.owed : q.id = e.key[2] /\ q.paid
      BY <1>2, <3>1
    <3>3. r \in b.owed /\ q.id = r.id
      BY <1>4, <3>1, <3>2
    <3>4. r = q
      BY <1>2, <3>2, <3>3
    <3>. QED  BY <1>4, <3>2, <3>4
  <2>. QED  BY <2>1
<1>8. \A r, q \in R : post[r] = post[q] => r = q
  BY <1>2, <1>4, <1>6
<1>9. \A r \in b.owed : /\ Cleared(r) \in Claim /\ Cleared(r).id = r.id /\ Cleared(r).pay = r.pay
                        /\ (r.paid => Cleared(r).paid) /\ (r.pay <= day => Cleared(r).paid)
                        /\ (Cleared(r).paid => r.pay <= day) /\ (r \in R => Cleared(r).paid)
  BY <1>2, <1>3 DEF Cleared, FallsDue, Claim, Due
<1> HIDE DEF R, amount, post
<1>10. L \subseteq Posting /\ O \subseteq Claim
  BY <1>3, <1>6, <1>9
<1>11. IsFiniteSet(O)
  <2> DEFINE F == [r \in b.owed |-> Cleared(r)]
  <2>1. O = {F[r] : r \in b.owed}
    OBVIOUS
  <2> HIDE DEF F, O
  <2>. QED  BY <1>2, <2>1, ImageIsFinite
<1> DEFINE f == Amounts(D)
           g == Amounts(L)
<1>12. /\ f \in [D -> Int] /\ g \in [D \cup {post[r] : r \in R} -> Int]
       /\ \A y \in D : g[y] = f[y]
       /\ \A r \in R : g[post[r]] = amount[r]
  <2>1. Amounts(D) \in [D -> Int] /\ Amounts(L) \in [L -> Int]
    BY <1>3, <1>10 DEF Amounts, Posting
  <2>2. \A r \in R : amount[r] = r.amount
    BY DEF amount
  <2>. QED  BY <1>6, <2>1, <2>2 DEF Amounts
<1> HIDE DEF f, g, D
<1>13. /\ SumFunction(g) = SumFunction(f) + SumFunction(amount)
       /\ SumFunction(f) \in Int /\ SumFunction(amount) \in Int
       /\ IsFiniteSet(D \cup {post[r] : r \in R})
  BY <1>2, <1>4, <1>5, <1>7, <1>8, <1>12, SumPosted
<1> HIDE DEF O, L, C
<1>14. C \in Int
  BY <1>3, <1>13 DEF C
<1>15. c \in Books /\ c.owed = O /\ c.ledger = L /\ c.cash = C /\ c.held = b.held /\ c.buys = b.buys
  <2>1. c = [[[b EXCEPT !.owed = O] EXCEPT !.ledger = L] EXCEPT !.cash = C]
    BY <1>1
  <2>2. [b EXCEPT !.owed = O] \in Books
    BY <1>2, <1>10 DEF Books
  <2>3. [[b EXCEPT !.owed = O] EXCEPT !.ledger = L] \in Books
    BY <1>10, <2>2 DEF Books
  <2> HIDE DEF c
  <2>4. c \in Books
    BY <1>14, <2>1, <2>3 DEF Books
  <2>5. c.owed = O /\ c.ledger = L /\ c.cash = C /\ c.held = b.held /\ c.buys = b.buys
    BY <1>2, <2>1 DEF Books
  <2>. QED  BY <2>4, <2>5
<1> HIDE DEF c
<1>16. /\ IsFiniteSet(c.ledger) /\ IsFiniteSet(c.owed)
  BY <1>11, <1>13, <1>15 DEF L
<1>17. \A q \in c.owed : \E r \in b.owed : q = Cleared(r)
  BY <1>15 DEF O
<1>18. \A q \in c.owed : q.id \in known /\ (q.paid => q.pay <= day) /\ (q.pay <= day => q.paid)
  BY <1>2, <1>9, <1>17
<1>19. \A r, q \in c.owed : r.id = q.id => r = q
  BY <1>2, <1>9, <1>17
<1>20. ASSUME NEW e \in c.ledger, e.key[1] = "DIVIDEND_PAYMENT"
       PROVE  \E q \in c.owed : q.id = e.key[2] /\ q.paid
  <2>1. CASE e \in D
    <3>1. PICK r \in b.owed : r.id = e.key[2] /\ r.paid
      BY <1>2, <1>20, <2>1
    <3>2. Cleared(r) \in c.owed
      BY <1>15 DEF O
    <3>. QED  BY <1>9, <3>1, <3>2
  <2>2. CASE e \notin D
    <3>1. PICK r \in R : e = post[r]
      BY <1>15, <2>2 DEF L
    <3>2. r \in b.owed /\ e.key[2] = r.id
      BY <1>4, <1>6, <3>1
    <3>3. Cleared(r) \in c.owed
      BY <1>15, <3>2 DEF O
    <3>. QED  BY <1>9, <3>1, <3>2, <3>3
  <2>. QED  BY <2>1, <2>2
<1>21. BookSound(c, day, known)
  BY <1>15, <1>16, <1>18, <1>19, <1>20 DEF BookSound
<1>22. Unposted(c) = Unposted(b)
  <2> DEFINE s == SumFunction(f)
             t == SumFunction(amount)
  <2>1. s \in Int /\ t \in Int /\ SumFunction(g) = s + t /\ C = b.cash + t
    BY <1>13 DEF C
  <2>2. Unposted(c) = C - SumFunction(g) /\ Unposted(b) = b.cash - s
    BY <1>15 DEF Unposted, f, g, D
  <2> HIDE DEF s, t
  <2>3. (b.cash + t) - (s + t) = b.cash - s
    BY <1>3, <2>1
  <2>. QED  BY <2>1, <2>2, <2>3
<1>. QED  BY <1>15, <1>18, <1>21, <1>22 DEF c

-------------------------------------------------------------------------------
(* The steps.                                                               *)

FillRows == [security : Securities, day : Days, phase : {"capture", "day"}, side : {"BUY", "SELL"},
             quantity : Nat]

\* A fill of today leaves its mark on the book, so that no fill is ever there twice.
MarksTheBook(f) ==
    /\ f.day <= day
    /\ f.day = day =>
          /\ phase # "morning"
          /\ f.phase = "day" => phase = "day"
          /\ f.side = "BUY" => f.security \notin book.buys
          /\ f.side = "SELL" /\ f.phase = "day" => book.held[f.security] <= 0

ProceedsOf(set) == [f \in set |-> Proceeds(f)]

PaidUp == ticking => \A r \in book.owed : r.pay <= day => r.paid

FillsAreMoney == Unposted(book) = InitialCash + SumFunction(ProceedsOf(fills))

FillsSound ==
    /\ fills \subseteq FillRows /\ IsFiniteSet(fills)
    /\ \A f \in fills : MarksTheBook(f)

Clock ==
    /\ day \in Days /\ head \in 1..Releases /\ ticking \in BOOLEAN
    /\ phase \in {"morning", "capture", "day"}

ActionsInv ==
    /\ Clock
    /\ RowsSound
    /\ BookSound(book, day, Known)
    /\ PaidUp
    /\ FillsSound
    /\ FillsAreMoney

LEMMA DaysAndReleases ==
    /\ LastDay \in Nat \ {0} /\ Releases \in Nat \ {0} /\ 1 \in Days /\ 1 \in 1..Releases
    /\ \A d \in Days : d \in Int /\ (d < LastDay => d + 1 \in Days)
    /\ \A r \in 1..Releases : r < Releases => r + 1 \in 1..Releases
<1>1. LastDay \in Nat \ {0} /\ Releases \in Nat \ {0}
  BY ActionsConstants
<1>. QED  BY <1>1 DEF Days

LEMMA ActionsInvInit ==
    ActionsInit => ActionsInv
<1>. SUFFICES ASSUME ActionsInit  PROVE ActionsInv
  OBVIOUS
<1>1. Clock /\ ticking = FALSE /\ fills = {} /\ RowsSound
  BY DaysAndReleases DEF ActionsInit, Clock, RowsSound
<1>2. /\ book.ledger = {} /\ book.owed = {} /\ book.cash = InitialCash
      /\ InitialCash \in Int /\ book \in Books
  <2>1. PICK buys \in Plans :
          book = [cash |-> InitialCash, ledger |-> {}, owed |-> {},
                  held |-> [s \in Securities |-> IF s \in Portfolio THEN Wanted ELSE 0],
                  buys |-> buys, account |-> "RUNNING"]
    BY DEF ActionsInit
  <2>2. InitialCash \in Int /\ Wanted \in Nat /\ buys \subseteq Securities
    BY ActionsConstants
  <2>. QED  BY <2>1, <2>2 DEF Books, Accounts
<1>3. BookSound(book, day, Known)
  BY <1>2, FS_EmptySet DEF BookSound
<1>4. FillsSound
  BY <1>1, FS_EmptySet DEF FillsSound
<1>5. SumFunction(ProceedsOf({})) = 0 /\ SumFunction(Amounts({})) = 0
  BY SumOfNothing DEF ProceedsOf, Amounts
<1>6. FillsAreMoney
  BY <1>1, <1>2, <1>5 DEF FillsAreMoney, Unposted
<1>. QED  BY <1>1, <1>3, <1>4, <1>6 DEF ActionsInv, PaidUp

\* Money that is paid or received outside the ledger.
LEMMA CashMoves ==
    ASSUME NEW d, NEW known, NEW b, BookSound(b, d, known), NEW c, c \in Books,
           c.ledger = b.ledger, c.owed = b.owed
    PROVE  BookSound(c, d, known) /\ Unposted(c) = Unposted(b) + (c.cash - b.cash)
<1>1. BookSound(c, d, known)
  BY DEF BookSound
<1>2. b \in Books /\ b.ledger \subseteq Posting /\ IsFiniteSet(b.ledger)
  BY DEF BookSound, Books
<1>3. SumFunction(Amounts(b.ledger)) \in Int
  BY <1>2, LedgerSums
<1>4. b.cash \in Int /\ c.cash \in Int
  BY <1>2 DEF Books
<1>. QED  BY <1>1, <1>3, <1>4 DEF Unposted

\* Most of a set of numbers up to Wanted.
LEMMA MostIsThere ==
    ASSUME NEW S, S \subseteq 1..Wanted, S # {}
    PROVE  Max(S) \in S /\ Max(S) \in Nat
<1>1. Wanted \in Nat
  BY ActionsConstants
<1> DEFINE T == {Wanted - q : q \in S}
<1>2. ASSUME NEW q \in S  PROVE q \in Nat /\ Wanted - q \in Nat
  <2>1. q \in 1..Wanted
    OBVIOUS
  <2>. QED  BY <1>1, <2>1
<1>3. T \subseteq Nat /\ T # {}
  BY <1>2
<1>4. PICK m \in T : \A y \in T : m <= y
  <2> HIDE DEF T
  <2>. QED  BY <1>3, LeastNatural
<1>5. PICK q \in S : m = Wanted - q
  BY <1>4
<1>6. ASSUME NEW p \in S  PROVE q >= p
  <2>1. m <= Wanted - p
    BY <1>4
  <2>2. p \in Int /\ q \in Int /\ Wanted \in Int
    BY <1>1, <1>2
  <2>. QED  BY <1>5, <2>1, <2>2
<1>7. Max(S) \in S
  BY <1>6 DEF Max
<1>. QED  BY <1>7, <1>2

LEMMA ProceedsSum ==
    ASSUME NEW S, S \subseteq FillRows, IsFiniteSet(S)
    PROVE  SumFunction(ProceedsOf(S)) \in Int /\ Ints(ProceedsOf(S), S)
<1>1. Price \in Int /\ Commission \in Int
  BY ActionsConstants
<1>2. ASSUME NEW e \in S  PROVE Proceeds(e) \in Int
  <2>1. e.quantity \in Int
    BY DEF FillRows
  <2>2. e.quantity * Price \in Int
    BY <1>1, <2>1
  <2>. QED  BY <1>1, <2>2 DEF Proceeds
<1>3. ProceedsOf(S) \in [S -> Int]
  BY <1>2 DEF ProceedsOf
<1>. QED  BY <1>3, SumTaken DEF Ints

\* A fill that is new is one more term of the sum.
LEMMA FillAdds ==
    ASSUME FillsSound, NEW f \in FillRows, f \notin fills, fills' = fills \cup {f}
    PROVE  /\ SumFunction(ProceedsOf(fills')) = SumFunction(ProceedsOf(fills)) + Proceeds(f)
           /\ SumFunction(ProceedsOf(fills)) \in Int /\ Proceeds(f) \in Int
           /\ fills' \subseteq FillRows /\ IsFiniteSet(fills')
<1>2. fills \subseteq FillRows /\ IsFiniteSet(fills)
  BY DEF FillsSound
<1>3. IsFiniteSet(fills \cup {f})
  BY <1>2, FS_AddElement
<1> DEFINE old == ProceedsOf(fills)
           new == ProceedsOf(fills \cup {f})
<1>1. Ints(old, fills) /\ Ints(new, fills \cup {f})
  BY <1>2, <1>3, ProceedsSum
<1>4. (\A y \in fills : new[y] = old[y]) /\ new[f] = Proceeds(f) /\ Proceeds(f) \in Int
  BY <1>1 DEF Ints, ProceedsOf
<1> HIDE DEF old, new
<1>5. SumFunction(new) = SumFunction(old) + new[f] /\ SumFunction(old) \in Int
  BY <1>1, <1>2, <1>4, SumGrows
<1>6. ProceedsOf(fills') = new
  BY DEF new
<1>. QED  BY <1>2, <1>3, <1>4, <1>5, <1>6 DEF old

\* A fill is booked once, at what it costs or brings.
LEMMA FillIsBooked ==
    ASSUME ActionsInv, NEW f \in FillRows, f \notin fills, fills' = fills \cup {f},
           UNCHANGED <<day, phase, head, ticking, rows>>,
           book' \in Books, book'.ledger = book.ledger, book'.owed = book.owed,
           book'.cash = book.cash + Proceeds(f),
           \A e \in fills' : MarksTheBook(e)'
    PROVE  ActionsInv'
<1>1. /\ Clock /\ RowsSound /\ BookSound(book, day, Known) /\ PaidUp /\ FillsSound /\ FillsAreMoney
      /\ book \in Books
  BY DEF ActionsInv, BookSound
<1>2. BookSound(book', day, Known) /\ Unposted(book') = Unposted(book) + (book'.cash - book.cash)
  BY <1>1, CashMoves
<1>3. BookSound(book, day, Known)'
  BY <1>2 DEF BookSound, Books, Posting, Claim, Keys, Accounts, Known
<1>4. /\ SumFunction(ProceedsOf(fills')) = SumFunction(ProceedsOf(fills)) + Proceeds(f)
      /\ SumFunction(ProceedsOf(fills)) \in Int /\ Proceeds(f) \in Int
      /\ fills' \subseteq FillRows /\ IsFiniteSet(fills')
  BY <1>1, FillAdds
<1>5. Clock' /\ RowsSound' /\ PaidUp'
  BY <1>1 DEF Clock, RowsSound, PaidUp
<1>6. FillsSound'
  BY <1>4 DEF FillsSound, FillRows
<1>7. FillsAreMoney'
  <2>1. book.cash \in Int /\ InitialCash \in Int
    BY <1>1, ActionsConstants DEF Books
  <2>2. ProceedsOf(fills)' = ProceedsOf(fills')
    BY DEF ProceedsOf, Proceeds
  <2>3. Unposted(book)' = Unposted(book')
    BY DEF Unposted, Amounts
  <2> DEFINE s == SumFunction(ProceedsOf(fills))
             t == SumFunction(ProceedsOf(fills'))
             p == Proceeds(f)
  <2>4. s \in Int /\ p \in Int /\ t = s + p /\ Unposted(book) = InitialCash + s
        /\ Unposted(book') = Unposted(book) + (book'.cash - book.cash)
        /\ book'.cash = book.cash + p
    BY <1>1, <1>2, <1>4 DEF FillsAreMoney
  <2> HIDE DEF s, t, p
  <2>5. (book.cash + p) - book.cash = p /\ (InitialCash + s) + p = InitialCash + (s + p)
    BY <2>1, <2>4
  <2>6. Unposted(book') = InitialCash + t
    BY <2>4, <2>5
  <2>. QED  BY <2>2, <2>3, <2>6 DEF FillsAreMoney, t
<1>. QED  BY <1>3, <1>5, <1>6, <1>7 DEF ActionsInv

\* Every step keeps the money explained and the dividends paid.
LEMMA ActionsInvStep ==
    ActionsInv /\ [ActionsNext]_actionVars => ActionsInv'
<1>. SUFFICES ASSUME ActionsInv, [ActionsNext]_actionVars  PROVE ActionsInv'
  OBVIOUS
<1>0. /\ Clock /\ RowsSound /\ BookSound(book, day, Known) /\ PaidUp /\ FillsSound /\ FillsAreMoney
      /\ book \in Books
  BY DEF ActionsInv, BookSound
<1>1. CASE Apply
  <2> DEFINE b == Before[Last]
  <2>1. /\ book' = Pay(b) /\ rows' = SettledRows /\ ticking' = TRUE
        /\ UNCHANGED <<day, phase, head, fills>>
    BY <1>1 DEF Apply, Last
  <2>2. head \in 1..Releases /\ day \in Int
    BY <1>0 DEF Clock, Days
  <2>3. /\ RowsSound' /\ BookSound(b, day, Known') /\ Unposted(b) = Unposted(book)
        /\ b.buys \subseteq book.buys /\ (phase # "morning" => b.held = book.held)
    BY <1>0, <2>1, <2>2, TransactionSettles
  <2> HIDE DEF b
  <2>4. /\ BookSound(book', day, Known') /\ Unposted(book') = Unposted(b)
        /\ book'.held = b.held /\ book'.buys = b.buys
        /\ \A r \in book'.owed : r.pay <= day => r.paid
    BY <2>1, <2>2, <2>3, PaymentBalances
  <2>5. BookSound(book, day, Known)'
    BY <2>1, <2>4 DEF BookSound, Books, Posting, Claim, Keys, Accounts
  <2>6. PaidUp'
    BY <2>1, <2>4 DEF PaidUp
  <2>7. FillsSound'
    BY <1>0, <2>1, <2>3, <2>4 DEF FillsSound, MarksTheBook
  <2>8. FillsAreMoney'
    BY <1>0, <2>1, <2>3, <2>4 DEF FillsAreMoney, Unposted, ProceedsOf, Proceeds
  <2>. QED  BY <1>0, <2>1, <2>3, <2>5, <2>6, <2>7, <2>8 DEF ActionsInv, Clock
<1>2. CASE EndTick \/ PhaseEnds \/ Roll \/ UNCHANGED actionVars
  <2>1. UNCHANGED <<day, rows, book, fills>>
    BY <1>2 DEF EndTick, PhaseEnds, Roll, actionVars
  <2>2. Clock'
    BY <1>0, <1>2, DaysAndReleases DEF EndTick, PhaseEnds, Roll, actionVars, Clock
  <2>3. (ticking' => ticking) /\ ((phase' = phase) \/ (phase' # "morning" /\ (phase' = "day" \/ phase = "morning")))
    BY <1>2 DEF EndTick, PhaseEnds, Roll, actionVars
  <2>4. PaidUp'
    BY <1>0, <2>1, <2>3 DEF PaidUp
  <2>5. FillsSound'
    BY <1>0, <2>1, <2>3 DEF FillsSound, MarksTheBook
  <2>6. FillsAreMoney' /\ RowsSound' /\ BookSound(book, day, Known)'
    BY <1>0, <2>1 DEF FillsAreMoney, Unposted, RowsSound, BookSound, Known, Books, Posting,
                      Claim, Keys, Accounts, ProceedsOf, Proceeds, Amounts
  <2>. QED  BY <2>2, <2>4, <2>5, <2>6 DEF ActionsInv
<1>3. CASE KillSwitch
  <2>1. /\ book' = [book EXCEPT !.account = "KILLED", !.buys = {}]
        /\ UNCHANGED <<day, phase, head, ticking, rows, fills>>
    BY <1>3 DEF KillSwitch
  <2>2. /\ book' \in Books /\ book'.ledger = book.ledger /\ book'.owed = book.owed
        /\ book'.held = book.held /\ book'.buys = {} /\ book'.cash = book.cash
    BY <1>0, <2>1 DEF Books, Accounts
  <2>3. BookSound(book', day, Known) /\ Unposted(book') = Unposted(book)
    BY <1>0, <2>2, SharesOnly
  <2>. QED
    BY <1>0, <2>1, <2>2, <2>3
    DEF ActionsInv, Clock, RowsSound, PaidUp, FillsSound, FillsAreMoney, MarksTheBook, Known,
        BookSound, Books, Posting, Claim, Keys, Accounts, Unposted, ProceedsOf, Proceeds
<1>4. ASSUME NEW buys \in Plans, NextDay(buys)  PROVE ActionsInv'
  <2>1. /\ book' = [book EXCEPT !.buys = IF book.account = "KILLED" THEN {} ELSE buys]
        /\ day' = day + 1 /\ phase' = "morning" /\ ticking' = FALSE
        /\ UNCHANGED <<head, rows, fills>>
    BY <1>4 DEF NextDay
  <2>2. buys \subseteq Securities
    BY ActionsConstants
  <2>3. /\ book' \in Books /\ book'.ledger = book.ledger /\ book'.owed = book.owed
        /\ book'.cash = book.cash
    BY <1>0, <2>1, <2>2 DEF Books
  <2>4. BookSound(book', day, Known) /\ Unposted(book') = Unposted(book)
    BY <1>0, <2>3, SharesOnly
  <2>5. \A r \in book'.owed : r.pay <= day => r.pay <= day + 1
    BY <1>0, <2>3, ActionsConstants DEF Books, Claim, Clock, Days
  <2>6. BookSound(book', day', Known)
    BY <2>1, <2>4, <2>5 DEF BookSound
  <2>7. Clock' /\ RowsSound' /\ PaidUp'
    <3>1. day < LastDay
      BY <1>4 DEF NextDay
    <3>. QED  BY <1>0, <2>1, <3>1, DaysAndReleases DEF Clock, RowsSound, PaidUp
  <2>8. FillsSound'
    <3>1. \A f \in fills : f.day < day + 1
      BY <1>0, ActionsConstants DEF FillsSound, MarksTheBook, FillRows, Days, Clock
    <3>2. \A f \in fills : f.day \in Int /\ day \in Int
      BY <1>0, ActionsConstants DEF FillsSound, FillRows, Days, Clock
    <3>. QED  BY <1>0, <2>1, <3>1, <3>2 DEF FillsSound, MarksTheBook
  <2>9. FillsAreMoney'
    BY <1>0, <2>1, <2>4 DEF FillsAreMoney, Unposted, ProceedsOf, Proceeds
  <2>10. BookSound(book, day, Known)'
    BY <2>1, <2>6 DEF BookSound, Books, Posting, Claim, Keys, Accounts, Known
  <2>. QED  BY <2>7, <2>8, <2>9, <2>10 DEF ActionsInv
<1>5. ASSUME NEW s \in Securities, Buy(s)  PROVE ActionsInv'
  <2>1. phase = "capture" /\ s \in book.buys
    BY <1>5 DEF Buy
  <2>2. CASE /\ book' = CancelOrders(book, s)
             /\ UNCHANGED <<day, phase, head, ticking, rows, fills>>
    <3>1. /\ BookSound(book', day, Known) /\ Unposted(book') = Unposted(book)
          /\ book'.held = book.held /\ book'.owed = book.owed /\ book'.buys \subseteq book.buys
      BY <1>0, <2>2, OrdersCancelled
    <3>. QED
      BY <1>0, <2>2, <3>1
      DEF ActionsInv, Clock, RowsSound, PaidUp, FillsSound, FillsAreMoney, MarksTheBook, Known,
          BookSound, Books, Posting, Claim, Keys, Accounts, Unposted, ProceedsOf, Proceeds
  <2>3. CASE /\ s \notin HeldNow /\ Affordable(book.cash) # {}
             /\ book' = [CancelOrders(book, s)
                           EXCEPT !.held[s] = Max(Affordable(book.cash)),
                                  !.cash = @ - Max(Affordable(book.cash)) * Price - Commission]
             /\ Fill(s, "BUY", Max(Affordable(book.cash)))
    <3> DEFINE q == Max(Affordable(book.cash))
               c == CancelOrders(book, s)
    <3>1. q \in Nat /\ Price \in Int /\ Commission \in Int
      <4>1. Affordable(book.cash) \subseteq 1..Wanted
        BY DEF Affordable
      <4>. QED  BY <2>3, <4>1, MostIsThere, ActionsConstants
    <3>0. PICK f : f = [security |-> s, day |-> day, phase |-> phase, side |-> "BUY", quantity |-> q]
      OBVIOUS
    <3>2. book' = [c EXCEPT !.held[s] = q, !.cash = @ - q * Price - Commission]
          /\ fills' = fills \cup {f} /\ UNCHANGED <<day, phase, head, ticking, rows>>
      BY <2>3, <3>0 DEF Fill
    <3> HIDE DEF q
    <3>3. c \in Books /\ c.ledger = book.ledger /\ c.owed = book.owed /\ c.cash = book.cash
          /\ c.held = book.held /\ c.buys = book.buys \ {s}
      BY <1>0 DEF CancelOrders, Books
    <3> DEFINE paid == (book.cash - q * Price) - Commission
               shares == [book.held EXCEPT ![s] = q]
    <3>4. paid \in Int /\ paid = book.cash + (-(q * Price) - Commission)
      <4>1. q * Price \in Int /\ book.cash \in Int
        BY <1>0, <3>1 DEF Books
      <4>. QED  BY <3>1, <4>1
    <3>5. shares \in [Securities -> Nat]
      BY <1>0, <3>1 DEF Books
    <3>6. book' = [[c EXCEPT !.held = shares] EXCEPT !.cash = paid]
      BY <3>2, <3>3 DEF Books
    <3> HIDE DEF c, shares, paid
    <3>7. [c EXCEPT !.held = shares] \in Books
      BY <3>3, <3>5 DEF Books
    <3>8. book' \in Books
      BY <3>4, <3>6, <3>7 DEF Books
    <3>9. /\ book'.ledger = book.ledger /\ book'.owed = book.owed /\ book'.cash = paid
          /\ book'.held = shares /\ book'.buys = book.buys \ {s}
      BY <3>3, <3>6 DEF Books
    <3>10. f \in FillRows /\ Proceeds(f) = -(q * Price) - Commission
      BY <1>0, <2>1, <3>0, <3>1 DEF FillRows, Proceeds, Clock
    <3>11. f \notin fills
      BY <1>0, <2>1, <3>0 DEF FillsSound, MarksTheBook
    <3>12. \A e \in fills : MarksTheBook(e)'
      BY <1>0, <2>1, <3>2, <3>9 DEF FillsSound, MarksTheBook
    <3>13. MarksTheBook(f)'
      BY <1>0, <2>1, <3>0, <3>2, <3>9, ActionsConstants DEF MarksTheBook, Clock, Days
    <3>14. \A e \in fills' : MarksTheBook(e)'
      BY <3>2, <3>12, <3>13
    <3>15. book'.cash = book.cash + Proceeds(f)
      BY <3>4, <3>9, <3>10
    <3>. QED  BY <3>2, <3>8, <3>9, <3>10, <3>11, <3>14, <3>15, FillIsBooked
  <2>. QED  BY <1>5, <2>2, <2>3 DEF Buy
<1>6. ASSUME NEW s \in Securities, Sell(s)  PROVE ActionsInv'
  <2> DEFINE q == book.held[s]
  <2>0. PICK f : f = [security |-> s, day |-> day, phase |-> phase, side |-> "SELL", quantity |-> q]
    OBVIOUS
  <2>1. /\ phase # "morning" /\ s \in HeldNow
        /\ phase = "capture" => ~\E e \in fills : e.security = s /\ e.day = day
        /\ book' = [book EXCEPT !.held[s] = 0, !.cash = @ + q * Price - Commission]
        /\ fills' = fills \cup {f} /\ UNCHANGED <<day, phase, head, ticking, rows>>
    BY <1>6, <2>0 DEF Sell, Fill
  <2>2. q \in Nat /\ q > 0 /\ Price \in Int /\ Commission \in Int
    BY <1>0, <2>1, ActionsConstants DEF HeldNow, Books
  <2> DEFINE got == book.cash + (q * Price - Commission)
             shares == [book.held EXCEPT ![s] = 0]
  <2>3. got \in Int
    <3>1. q * Price \in Int /\ book.cash \in Int
      BY <1>0, <2>2 DEF Books
    <3>. QED  BY <2>2, <3>1
  <2>4. shares \in [Securities -> Nat]
    BY <1>0 DEF Books
  <2>5. book' = [[book EXCEPT !.held = shares] EXCEPT !.cash = got]
    <3> HIDE DEF q
    <3>. QED  BY <1>0, <2>1 DEF Books
  <2> HIDE DEF shares, got
  <2>6. [book EXCEPT !.held = shares] \in Books
    BY <1>0, <2>4 DEF Books
  <2>7. book' \in Books
    BY <2>3, <2>5, <2>6 DEF Books
  <2>8. /\ book'.ledger = book.ledger /\ book'.owed = book.owed /\ book'.cash = got
        /\ book'.held = shares /\ book'.buys = book.buys
    BY <1>0, <2>5 DEF Books
  <2>9. f \in FillRows /\ Proceeds(f) = q * Price - Commission
    BY <1>0, <2>0, <2>1, <2>2 DEF FillRows, Proceeds, Clock
  <2>10. f \notin fills
    BY <1>0, <2>0, <2>1, <2>2 DEF FillsSound, MarksTheBook, Clock
  <2>11. \A i \in Securities : shares[i] = IF i = s THEN 0 ELSE book.held[i]
    BY <1>0 DEF shares, Books
  <2>12. \A e \in fills : MarksTheBook(e)'
    BY <1>0, <2>1, <2>8, <2>11 DEF FillsSound, MarksTheBook, FillRows
  <2>13. MarksTheBook(f)'
    <3>1. f.security = s /\ f.day = day /\ f.phase = phase /\ f.side = "SELL"
      BY <2>0
    <3>2. book'.held[s] = 0 /\ day' = day /\ phase' = phase /\ day \in Int
      BY <1>0, <2>1, <2>8, <2>11, DaysAndReleases DEF Clock
    <3>. QED  BY <2>1, <3>1, <3>2 DEF MarksTheBook
  <2> HIDE DEF q
  <2>14. \A e \in fills' : MarksTheBook(e)'
    BY <2>1, <2>12, <2>13
  <2>15. book'.cash = book.cash + Proceeds(f)
    BY <2>8, <2>9 DEF got
  <2>. QED  BY <2>1, <2>7, <2>8, <2>9, <2>10, <2>14, <2>15, FillIsBooked
<1>. QED  BY <1>1, <1>2, <1>3, <1>4, <1>5, <1>6 DEF ActionsNext

\* CashIsExplained: the cash is what the fills and the ledger of credits add up to.
THEOREM CashIsAccountedFor ==
    ActionsSpec => []CashIsExplained
<1>1. ActionsInv => CashIsExplained
  <2> SUFFICES ASSUME ActionsInv  PROVE CashIsExplained
    OBVIOUS
  <2> DEFINE s == SumFunction(ProceedsOf(fills))
             t == SumFunction(Amounts(book.ledger))
  <2>1. BookSound(book, day, Known) /\ FillsSound /\ book.cash - t = InitialCash + s
    BY DEF ActionsInv, FillsAreMoney, Unposted
  <2>2. book.cash \in Int /\ book.ledger \subseteq Posting /\ IsFiniteSet(book.ledger)
    BY <2>1 DEF BookSound, Books
  <2>3. t \in Int
    BY <2>2, LedgerSums
  <2>4. s \in Int
    <3>1. fills \subseteq FillRows /\ IsFiniteSet(fills)
      BY <2>1 DEF FillsSound
    <3>. QED  BY <3>1, ProceedsSum
  <2>5. InitialCash \in Int
    BY ActionsConstants
  <2>6. book.cash = InitialCash + s + t
    <3> HIDE DEF s, t
    <3>. QED  BY <2>1, <2>2, <2>3, <2>4, <2>5
  <2>. QED  BY <2>6 DEF CashIsExplained, ProceedsOf, Amounts
<1>. QED  BY <1>1, ActionsInvInit, ActionsInvStep, PTL DEF ActionsSpec

\* DueDividendsArePaid: a tick never reaches the orders with a dividend that fell due
\* unpaid, whatever was down, late or replayed, and none is paid before its day.
THEOREM DividendsArePaidWhenDue ==
    ActionsSpec => []DueDividendsArePaid
<1>1. ActionsInv => DueDividendsArePaid
  BY DEF ActionsInv, PaidUp, BookSound, DueDividendsArePaid
<1>. QED  BY <1>1, ActionsInvInit, ActionsInvStep, PTL DEF ActionsSpec

\* ActionsTypeOK: the rows, the book and the fills keep their shape; no negative holding,
\* no fill outside the two windows of a session that was reached.
THEOREM ActionsTypeCorrect ==
    ActionsSpec => []ActionsTypeOK
<1>1. ActionsInv => ActionsTypeOK
  <2> SUFFICES ASSUME ActionsInv  PROVE ActionsTypeOK
    OBVIOUS
  <2>1. Clock /\ RowsSound /\ BookSound(book, day, Known) /\ FillsSound
    BY DEF ActionsInv
  <2>2. book \in Books
    BY <2>1 DEF BookSound
  <2>3. /\ book.cash \in Int /\ book.ledger \subseteq Entry /\ book.owed \subseteq Receivable
        /\ book.held \in [Securities -> Nat] /\ book.buys \subseteq Securities
        /\ book.account \in {"RUNNING", "DATA_DEGRADED", "KILLED"}
    BY <2>2 DEF Books, Accounts, Entry, Receivable, Posting, Claim, Keys
  <2>4. fills \subseteq Fills
    BY <2>1 DEF FillsSound, Fills, FillRows
  <2>5. \A i \in ActionIds : rows[i] = Absent \/
          /\ rows[i].terms \in Actions /\ rows[i].release \in 1..Releases
          /\ rows[i].status \in Settled \cup {"BLOCKED"}
    BY <2>1 DEF RowsSound
  <2>. QED  BY <2>1, <2>3, <2>4, <2>5 DEF ActionsTypeOK, Clock
<1>. QED  BY <1>1, ActionsInvInit, ActionsInvStep, PTL DEF ActionsSpec

===============================================================================
