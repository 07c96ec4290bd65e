---------------------------- MODULE USPaperRuntime ----------------------------
(***************************************************************************)
(* The 60-second worker (us_paper_runtime.py) above the executor: a tick    *)
(* reads the paper status, stages the session, asks for quotes, records     *)
(* each observation in a transaction of its own and then runs the           *)
(* executor's tick in one more.  The process may die, and the kill switch   *)
(* may be thrown, between any two of them.                                  *)
(*                                                                          *)
(* One worker: the task scheduler starts no second instance.  A tick begins *)
(* and ends in one phase of the trading day.                                *)
(***************************************************************************)
EXTENDS USPaper

VARIABLES
    staged,        \* sessions whose period was staged before the staging deadline
    worker,        \* the observations a running tick still has to record, or None
    refused        \* the last tick ended in USPaperConflictError

runtimeVars == <<staged, worker, refused>>

RuntimeInit ==
    /\ Init
    /\ staged = {}
    /\ worker = None
    /\ refused = FALSE

\* A session has a period when the month-end before it was decided.
Planned(d) == d - 1 \in periods

\* Staging happens in a tick before the open; one in the last minutes is too late.
Stage ==
    /\ worker = None
    /\ clock.phase = "before"
    /\ Planned(Today)
    /\ staged' = staged \cup {Today}
    /\ UNCHANGED <<vars, worker, refused>>

Quotable == IF Today \in staged THEN WaitingOn(Today) ELSE {}

\* One held security or one BUY without a quote, and no BUY is observed.
ObservedBuys(quoted) ==
    LET buys == {s \in Quotable : Side(s) = "BUY"} IN
    IF Held \cup buys \subseteq quoted THEN buys ELSE {}

Observed(quoted) ==
    (Held \cap quoted)
        \cup {s \in Quotable \cap quoted : Side(s) = "SELL"}
        \cup ObservedBuys(quoted)

\* A tick in the capture window: the quotes it got decide what it observes.
BeginOpenTick(quoted) ==
    /\ worker = None
    /\ clock.phase = "capture"
    /\ quoted \subseteq Held \cup Quotable
    /\ worker' = Observed(quoted)
    /\ UNCHANGED <<vars, staged, refused>>

\* A tick between the window and the close: stops first, each on its own.
BeginMonitorTick ==
    /\ worker = None
    /\ clock.phase = "day"
    /\ worker' = {}
    /\ UNCHANGED <<vars, staged, refused>>

StopHeld(s, quote) ==
    /\ worker # None
    /\ s \in Held
    /\ ExecuteIntradayStop(s, quote)
    /\ UNCHANGED runtimeVars

\* A tick after the close marks the held securities whose bar it got.
BeginCloseTick(marked) ==
    /\ worker = None
    /\ clock.phase = "closed"
    /\ marked \subseteq Held
    /\ worker' = marked
    /\ UNCHANGED <<vars, staged, refused>>

ObserveOpen(s, price) ==
    /\ worker # None /\ s \in worker
    /\ clock.phase = "capture"
    /\ RecordOpen(s, price)
    /\ worker' = worker \ {s}
    /\ UNCHANGED <<staged, refused>>

ObserveDaily(s, open, low) ==
    /\ worker # None /\ s \in worker
    /\ RecordDaily(s, open, low)
    /\ worker' = worker \ {s}
    /\ UNCHANGED <<staged, refused>>

\* The session already has this observation.  Its content carries the time it was
\* fetched, so a later tick's can never be the same, and the tick ends here.
Conflict(s) ==
    /\ worker # None /\ s \in worker
    /\ (IF clock.phase = "capture" THEN opens ELSE dailies)[s] # None
    /\ worker' = None
    /\ refused' = TRUE
    /\ UNCHANGED <<vars, staged>>

FinishTick ==
    /\ worker = {}
    /\ Tick
    /\ worker' = None
    /\ refused' = FALSE
    /\ UNCHANGED staged

Crash ==
    /\ worker # None
    /\ worker' = None
    /\ UNCHANGED <<vars, staged, refused>>

\* The month-end decision, the operator and the clock.
Outside ==
    /\ \/ Kill
       \/ worker = None /\ Advance
       \/ worker = None /\ \E signals \in [Securities -> Sides \cup {None}] : CreatePeriod(signals)
    /\ UNCHANGED runtimeVars

RuntimeNext ==
    \/ Outside \/ Stage \/ BeginMonitorTick \/ FinishTick \/ Crash
    \/ \E quoted \in SUBSET Securities : BeginOpenTick(quoted) \/ BeginCloseTick(quoted)
    \/ \E s \in Securities :
          \/ Conflict(s)
          \/ \E price \in Prices : ObserveOpen(s, price) \/ StopHeld(s, price)
          \/ \E open, low \in Prices : ObserveDaily(s, open, low)

RuntimeSpec == RuntimeInit /\ [][RuntimeNext]_<<vars, runtimeVars>>

-----------------------------------------------------------------------------
\* The type invariant of the runtime database and of a running tick.
RuntimeTypeOK ==
    /\ TypeOK
    /\ staged \subseteq Sessions
    /\ worker \in (SUBSET Securities) \cup {None}
    /\ refused \in BOOLEAN

\* "An idempotency key was reused with different content": every tick makes new
\* keys from the time of its fetch, so none is ever refused with a conflict.
ConflictOnlyOnReuse == ~refused
=============================================================================
