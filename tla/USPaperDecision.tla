--------------------------- MODULE USPaperDecision ---------------------------
(***************************************************************************)
(* The month-end decision (us_paper_decision.py) on one month-end: ticks   *)
(* that call decide in the retry slots after the close, the vendor that    *)
(* answers late, badly or with revised bars, the period the paper database *)
(* commits, and the write-once archive that is written after it.           *)
(*                                                                         *)
(* The lease is taken after the decision, so several ticks may decide at   *)
(* once.  The release, the identities and the strategy's signals are a     *)
(* function of the bars here; what a released dataset may lack is left out.*)
(***************************************************************************)
EXTENDS Integers

CONSTANTS
    Workers,    \* processes that run a tick
    PassNow,    \* those that pass the time they started at as now, as the command does
    Scheduled,  \* those that run on a day that goes as planned
    Earliest,   \* the close plus 15 minutes
    SlotLength, \* five minutes
    Midnight,   \* the first moment of the next day
    Bars,       \* what the vendor may answer; each has signals of its own
    Bad,        \* no answer, or one that fails validation
    None

Times == 0..Midnight
Statuses == {"PERIOD_CREATED", "PERIOD_EXISTS"}

VARIABLES
    clock,    \* the time of day; Midnight is any later time
    planned,  \* the day goes as planned: no crash, no kill switch, bars in the end
    killed,   \* the account is KILLED
    period,   \* the period of this month: [at, observed, bars]
    pointer,  \* periods/<date>.json: the archived decision and its status
    scratch,  \* its temporary file
    worker    \* what each process is doing: [pc, from, decision, status]

vars == <<clock, planned, killed, period, pointer, scratch, worker>>

Decisions == [at : Times, observed : Times, bars : Bars]
Archived == [decision : Decisions, status : Statuses]
Idle == [pc |-> "idle", from |-> 0, decision |-> None, status |-> None]

Init ==
    /\ clock = 0
    /\ planned \in BOOLEAN
    /\ killed = FALSE
    /\ period = None
    /\ pointer = None
    /\ scratch = None
    /\ worker = [w \in Workers |-> Idle]

At(w, place) == worker[w].pc = place
Quit(w) == worker' = [worker EXCEPT ![w] = Idle]

\* Mutant: no retry.
IsRetrySlotOnce(t) == t = Earliest

IsRetrySlot(t) == t >= Earliest /\ (t - Earliest) % SlotLength = 0

\* The gate: in a slot of the day, an account that is not killed, no period yet.
MayDecide(w) ==
    /\ At(w, "idle")
    /\ clock < Midnight
    /\ IsRetrySlot(clock)
    /\ ~killed
    /\ period = None
    /\ planned => w \in Scheduled /\ \A v \in Workers : At(v, "idle")

Begin(w) ==
    /\ MayDecide(w)
    /\ worker' = [worker EXCEPT ![w] = [Idle EXCEPT !.pc = "fetching", !.from = clock]]
    /\ UNCHANGED <<clock, planned, killed, period, pointer, scratch>>

Later == IF clock < Midnight THEN clock + 1 ELSE Midnight

\* processed_at: now if it was passed, else the clock, which is read again.
ProcessedAt(w, observed) == IF w \in PassNow THEN worker[w].from ELSE observed

\* Mutant: an observation from the future is accepted.
CausalAlways(observed, processed) == TRUE

Causal(observed, processed) == observed <= processed

\* The fetch takes time, so the bars are observed after the tick has begun.  On a
\* planned day the vendor recovers while there is a slot left.
Fetch(w, answer) ==
    /\ At(w, "fetching")
    /\ planned /\ answer = Bad => worker[w].from + SlotLength < Midnight
    /\ clock' = Later
    /\ LET at == ProcessedAt(w, Later)
       IN IF answer # Bad /\ Causal(Later, at) /\ at < Midnight
          THEN worker' = [worker EXCEPT ![w].pc = "deciding",
                              ![w].decision = [at |-> at, observed |-> Later, bars |-> answer]]
          ELSE Quit(w)
    /\ UNCHANGED <<planned, killed, period, pointer, scratch>>

\* create_period asks for the account's status in its transaction.
Refused == killed

Commits(d) == period = None

\* Mutant: a conflicting period is taken for the one just decided.
VerdictCreated(d) == "PERIOD_CREATED"

Verdict(d) == IF Commits(d) \/ period = d THEN "PERIOD_CREATED" ELSE "PERIOD_EXISTS"

\* create_period, one transaction: a second decision of the month must be the same,
\* and the coordinator takes the period that is there when it is not.
Create(w) ==
    /\ At(w, "deciding")
    /\ LET d == worker[w].decision
       IN IF Refused
          THEN Quit(w) /\ UNCHANGED period
          ELSE /\ period' = IF Commits(d) THEN d ELSE period
               /\ worker' = [worker EXCEPT ![w].pc = "archiving",
                                ![w].status = Verdict(d)]
    /\ UNCHANGED <<clock, planned, killed, pointer, scratch>>

Archive(w) == [decision |-> worker[w].decision, status |-> worker[w].status]

\* _write_once of the pointer: a pointer that is there must be the same, else it
\* raises, and the tick ends.
CheckPointer(w) ==
    /\ At(w, "archiving")
    /\ IF pointer # None THEN Quit(w)
       ELSE worker' = [worker EXCEPT ![w].pc = "writing"]
    /\ UNCHANGED <<clock, planned, killed, period, pointer, scratch>>

WriteScratch(w) ==
    /\ At(w, "writing")
    /\ scratch' = Archive(w)
    /\ worker' = [worker EXCEPT ![w].pc = "replacing"]
    /\ UNCHANGED <<clock, planned, killed, period, pointer>>

\* The temporary file, whoever wrote it last, becomes the pointer; if another tick
\* has moved it away, replace raises.
Replace(w) ==
    /\ At(w, "replacing")
    /\ pointer' = IF scratch # None THEN scratch ELSE pointer
    /\ scratch' = None
    /\ Quit(w)
    /\ UNCHANGED <<clock, planned, killed, period>>

---------------------------------------------------------------------------
Crash(w) ==
    /\ ~planned
    /\ ~At(w, "idle")
    /\ Quit(w)
    /\ UNCHANGED <<clock, planned, killed, period, pointer, scratch>>

Kill ==
    /\ ~planned
    /\ ~killed
    /\ killed' = TRUE
    /\ UNCHANGED <<clock, planned, period, pointer, scratch, worker>>

\* On a planned day the scheduler lets no slot pass and a tick ends within it.
Pass ==
    /\ clock < Midnight
    /\ planned => \A w \in Workers : At(w, "idle") /\ ~MayDecide(w)
    /\ clock' = Later
    /\ UNCHANGED <<planned, killed, period, pointer, scratch, worker>>

WorkerNext(w) ==
    \/ Begin(w)
    \/ \E answer \in Bars \cup {Bad} : Fetch(w, answer)
    \/ Create(w) \/ CheckPointer(w) \/ WriteScratch(w) \/ Replace(w)

Next == (\E w \in Workers : WorkerNext(w) \/ Crash(w)) \/ Kill \/ Pass

\* On a planned day ticks are begun and end, and the day goes on.
AsPlanned == planned /\ (Pass \/ \E w \in Workers : WorkerNext(w))

Spec == Init /\ [][Next]_vars /\ WF_vars(AsPlanned)

---------------------------------------------------------------------------
DecisionTypeOK ==
    /\ clock \in Times
    /\ planned \in BOOLEAN /\ killed \in BOOLEAN
    /\ period \in Decisions \cup {None}
    /\ pointer \in Archived \cup {None} /\ scratch \in Archived \cup {None}
    /\ worker \in [Workers ->
          [pc : {"idle", "fetching", "deciding", "archiving", "writing", "replacing"},
           from : Times, decision : Decisions \cup {None}, status : Statuses \cup {None}]]

\* The period of the month was decided on the month-end itself, after the close, and
\* is not dated before the bars it rests on were seen, however long the fetch took.
PeriodIsCausal ==
    period # None => period.observed <= period.at /\ Earliest <= period.at /\ period.at < Midnight

\* Only committed decisions are archived, and the one archived as created is the
\* period's, whatever was raced, refused or lost in between.
ArchiveIsCommitted ==
    pointer # None =>
        /\ period # None
        /\ pointer.status = "PERIOD_CREATED" => pointer.decision = period

\* On a day that goes as planned the retries reach a period whose inputs are archived
\* (docs/us-momentum-production.md:317: every month-end decision freezes its inputs).
MonthEndGetsItsPeriod ==
    planned ~> (period # None /\ pointer # None /\ pointer.decision = period)
===========================================================================
