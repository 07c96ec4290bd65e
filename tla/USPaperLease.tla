----------------------------- MODULE USPaperLease -----------------------------
(***************************************************************************)
(* The frame of a tick (us_paper_runtime.py): the time it started at, the   *)
(* lease it takes in the runtime database with that time, what it learns of *)
(* the paper account, and the status it publishes at its end, when the      *)
(* account may already say something else; and the kill switch, which sets  *)
(* the account first and the published status afterwards.                   *)
(*                                                                         *)
(* What a tick does to orders in between is the matter of USPaperRuntime.   *)
(***************************************************************************)
EXTENDS Integers

CONSTANTS
    Ticks,        \* processes that run a tick, over and over
    WorkerOf,     \* the worker_id each of them has; all scheduled ones have the same
    LeaseLength,
    LastTime,     \* bound on the clock
    MaxCrashes,   \* bound on the crashes
    Nothing

Accounts == {"RUNNING", "DATA_DEGRADED", "KILLED"}
Displays == Accounts \cup {"PAPER_BLOCKED"}
Ids == {WorkerOf[p] : p \in Ticks}

VARIABLES
    time,
    lease,        \* us_paper_runtime_lease: [owner, expires]
    account,      \* the status of the paper account
    display,      \* the status in us_paper_runtime_state
    tick,         \* what each process is doing: [pc, at, verdict]
    killing,      \* a kill command has set the account and not yet the display
    crashes

leaseVars == <<time, lease, account, display, tick, killing, crashes>>

Resting == [pc |-> "rest", at |-> 0, verdict |-> Nothing]

LeaseInit ==
    /\ time = 0
    /\ lease = Nothing
    /\ account = "RUNNING" /\ display = "RUNNING"
    /\ tick = [p \in Ticks |-> Resting]
    /\ killing = FALSE
    /\ crashes = 0

In(p, place) == tick[p].pc = place
Rest(p) == tick' = [tick EXCEPT ![p] = Resting]

\* The command takes the time once, before it opens the runtime.
BeginTick(p) ==
    /\ In(p, "rest")
    /\ tick' = [tick EXCEPT ![p] = [pc |-> "begun", at |-> time, verdict |-> Nothing]]
    /\ UNCHANGED <<time, lease, account, display, killing, crashes>>


Free(p) == lease = Nothing \/ lease.owner = WorkerOf[p] \/ lease.expires <= tick[p].at

\* _acquire_and_heartbeat, with the time the tick began at.
Acquire(p) ==
    /\ In(p, "begun")
    /\ IF Free(p)
       THEN /\ lease' = [owner |-> WorkerOf[p], expires |-> tick[p].at + LeaseLength]
            /\ tick' = [tick EXCEPT ![p] = [Resting EXCEPT !.pc = "leased"]]
       ELSE /\ Rest(p)
            /\ UNCHANGED lease
    /\ UNCHANGED <<time, account, display, killing, crashes>>

\* Mutant: a killed account is displayed as what the session looks like.
StatusUnaware(ready) == IF ready THEN "RUNNING" ELSE "PAPER_BLOCKED"

\* A gate that is not ready, or the account after the session's work.
Status(ready) == IF ready \/ account = "KILLED" THEN account ELSE "PAPER_BLOCKED"

\* What is read of the account; a gap in the data degrades it first.
Judge(p, ready, gap) ==
    /\ In(p, "leased")
    /\ account' = IF ready /\ gap /\ account = "RUNNING" THEN "DATA_DEGRADED" ELSE account
    /\ tick' = [tick EXCEPT ![p].pc = "judged", ![p].verdict = Status(ready)']
    /\ UNCHANGED <<time, lease, display, killing, crashes>>

\* The day's corporate actions or a period's binding are refused: blocked, without a
\* look at the account.
Refuse(p) ==
    /\ In(p, "leased")
    /\ tick' = [tick EXCEPT ![p].pc = "judged", ![p].verdict = "PAPER_BLOCKED"]
    /\ UNCHANGED <<time, lease, account, display, killing, crashes>>

\* _set_runtime compares nothing.
Publish(p) ==
    /\ In(p, "judged")
    /\ display' = tick[p].verdict
    /\ Rest(p)
    /\ UNCHANGED <<time, lease, account, killing, crashes>>

CrashTick(p) ==
    /\ ~In(p, "rest") /\ crashes < MaxCrashes
    /\ Rest(p)
    /\ crashes' = crashes + 1
    /\ UNCHANGED <<time, lease, account, display, killing>>

-------------------------------------------------------------------------------
KillAccount ==
    /\ ~killing
    /\ account # "KILLED"
    /\ account' = "KILLED"
    /\ killing' = TRUE
    /\ UNCHANGED <<time, lease, display, tick, crashes>>

ShowKill ==
    /\ killing
    /\ display' = "KILLED"
    /\ killing' = FALSE
    /\ UNCHANGED <<time, lease, account, tick, crashes>>

LoseKill ==
    /\ killing /\ crashes < MaxCrashes
    /\ killing' = FALSE
    /\ crashes' = crashes + 1
    /\ UNCHANGED <<time, lease, account, display, tick>>

PassTime ==
    /\ time < LastTime
    /\ time' = time + 1
    /\ UNCHANGED <<lease, account, display, tick, killing, crashes>>

TickNext(p) ==
    \/ BeginTick(p) \/ Acquire(p) \/ Refuse(p) \/ Publish(p)
    \/ \E ready, gap \in BOOLEAN : Judge(p, ready, gap)

LeaseNext ==
    \/ \E p \in Ticks : TickNext(p) \/ CrashTick(p)
    \/ KillAccount \/ ShowKill \/ LoseKill \/ PassTime

\* The scheduler starts ticks for ever, and a tick that is not killed ends.
LeaseSpec ==
    LeaseInit /\ [][LeaseNext]_leaseVars /\ \A p \in Ticks : WF_leaseVars(TickNext(p))

-------------------------------------------------------------------------------
LeaseTypeOK ==
    /\ time \in 0..LastTime
    /\ lease \in [owner : Ids, expires : Nat] \cup {Nothing}
    /\ account \in Accounts /\ display \in Displays
    /\ tick \in [Ticks -> [pc : {"rest", "begun", "leased", "judged"}, at : 0..LastTime,
                           verdict : Displays \cup {Nothing}]]
    /\ killing \in BOOLEAN
    /\ crashes \in 0..MaxCrashes

\* The lease passes to another worker only when it has run out, however old the time
\* is that a tick asks with: the time of a tick that waited is too early, never too late.
LeaseRunsOutFirst ==
    [][(lease # Nothing /\ lease'.owner # lease.owner) => lease.expires <= time]_leaseVars

\* After the kill switch the runtime stops saying that it is running, although ticks
\* that looked at the account before may publish after the kill did, and the kill
\* command may die before it publishes at all.
KillShows == (account = "KILLED") ~> [](display # "RUNNING")
===============================================================================
