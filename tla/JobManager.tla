---------------------------- MODULE JobManager ----------------------------
(***************************************************************************)
(* Background jobs of the research service: research_platform/jobs.py with *)
(* the handlers of research_platform/api.py that submit jobs or ask which  *)
(* job is active.                                                          *)
(*                                                                         *)
(* A job's identity is its position in jobs, which is also the order of    *)
(* created_at.  The table, the fingerprint map and every status change are *)
(* guarded by one lock and so are single steps; what happens between two   *)
(* critical sections of submit, of _run and of a handler is where threads  *)
(* interleave.                                                             *)
(***************************************************************************)
EXTENDS Integers, Sequences, FiniteSets

CONSTANTS
    Callers,      \* HTTP threads
    Workers,      \* threads of the pool, max_backtest_workers of them
    Fingerprints, \* distinct calls: type, function and arguments
    TypeOf,       \* the job type of each fingerprint
    Asking,       \* job types whose handler asks active() before it submits
    Exclusive,    \* job types a plug-in reload must not overlap
    NoPrint,      \* fingerprint of a thread between requests
    MaxJobs       \* bound on the jobs ever entered

ASSUME JobConstants ==
    /\ Workers # {}
    /\ DOMAIN TypeOf = Fingerprints
    /\ NoPrint \notin Fingerprints
    /\ MaxJobs \in Nat \ {0}

VARIABLES
    jobs,    \* _jobs: Seq of [print, status]
    active,  \* _active_fingerprints: job of each fingerprint, 0 for none
    queue,   \* the executor's work queue
    worker,  \* what each pool thread is doing: [pc, job]
    caller,  \* what each HTTP thread is doing: [pc, print, job]
    down     \* the executor has been shut down

vars == <<jobs, active, queue, worker, caller, down>>

Statuses == {"QUEUED", "RUNNING", "SUCCEEDED", "FAILED"}
Unfinished == {"QUEUED", "RUNNING"}

Idle == [pc |-> "idle", job |-> 0]
Free == [pc |-> "free", print |-> NoPrint, job |-> 0]

Ids == 1..Len(jobs)
IsActive(j) == j \in Ids /\ jobs[j].status \in Unfinished

\* active(job_type): some unfinished job of the type exists.
SomeActive(t) == \E j \in Ids : IsActive(j) /\ TypeOf[jobs[j].print] = t

Init ==
    /\ jobs = <<>>
    /\ active = [f \in Fingerprints |-> 0]
    /\ queue = <<>>
    /\ worker = [w \in Workers |-> Idle]
    /\ caller = [c \in Callers |-> Free]
    /\ down = FALSE

---------------------------------------------------------------------------
\* The handlers.

\* A handler of an Asking type found no active job and goes on to submit.
Ask(c, f) ==
    /\ caller[c].pc = "free"
    /\ TypeOf[f] \in Asking
    /\ ~SomeActive(TypeOf[f])
    /\ caller' = [caller EXCEPT ![c] = [pc |-> "asked", print |-> f, job |-> 0]]
    /\ UNCHANGED <<jobs, active, queue, worker, down>>

\* The other handlers submit at once.
MaySubmit(c, f) ==
    \/ caller[c].pc = "free" /\ TypeOf[f] \notin Asking
    \/ caller[c].pc = "asked" /\ caller[c].print = f

\* submit, under the lock: the fingerprint has an unfinished job.
Join(c, f) ==
    /\ MaySubmit(c, f)
    /\ IsActive(active[f])
    /\ caller' = [caller EXCEPT ![c] = Free]
    /\ UNCHANGED <<jobs, active, queue, worker, down>>

\* submit, under the lock: enter a new job and point the fingerprint at it.
Enter(c, f) ==
    /\ MaySubmit(c, f)
    /\ ~IsActive(active[f])
    /\ Len(jobs) < MaxJobs
    /\ jobs' = Append(jobs, [print |-> f, status |-> "QUEUED"])
    /\ active' = [active EXCEPT ![f] = Len(jobs) + 1]
    /\ caller' = [caller EXCEPT ![c] = [pc |-> "entered", print |-> f, job |-> Len(jobs) + 1]]
    /\ UNCHANGED <<queue, worker, down>>

\* submit, outside the lock: the executor takes the job, or raises because it
\* was shut down; the entry stays as it is then.
HandOver(c) ==
    /\ caller[c].pc = "entered"
    /\ queue' = IF down THEN queue ELSE Append(queue, caller[c].job)
    /\ caller' = [caller EXCEPT ![c] = Free]
    /\ UNCHANGED <<jobs, active, worker, down>>

\* reload_strategy_catalog: the check, and then the reload itself.
StartReload(c) ==
    /\ caller[c].pc = "free"
    /\ \A t \in Exclusive : ~SomeActive(t)
    /\ caller' = [caller EXCEPT ![c].pc = "reloading"]
    /\ UNCHANGED <<jobs, active, queue, worker, down>>

EndReload(c) ==
    /\ caller[c].pc = "reloading"
    /\ caller' = [caller EXCEPT ![c].pc = "free"]
    /\ UNCHANGED <<jobs, active, queue, worker, down>>

---------------------------------------------------------------------------
\* The pool.

\* A pool thread takes the oldest job; _run marks it RUNNING.
Take(w) ==
    /\ worker[w].pc = "idle"
    /\ queue # <<>>
    /\ queue' = Tail(queue)
    /\ jobs' = [jobs EXCEPT ![Head(queue)].status = "RUNNING"]
    /\ worker' = [worker EXCEPT ![w] = [pc |-> "running", job |-> Head(queue)]]
    /\ UNCHANGED <<active, caller, down>>

\* The function returned or raised.
Finish(w, status) ==
    /\ worker[w].pc = "running"
    /\ jobs' = [jobs EXCEPT ![worker[w].job].status = status]
    /\ worker' = [worker EXCEPT ![w].pc = "releasing"]
    /\ UNCHANGED <<active, queue, caller, down>>

\* Mutant: a finished job frees its fingerprint whoever holds it now.
ReleaseAlways(w) ==
    /\ worker[w].pc = "releasing"
    /\ active' = [active EXCEPT ![jobs[worker[w].job].print] = 0]
    /\ worker' = [worker EXCEPT ![w] = Idle]
    /\ UNCHANGED <<jobs, queue, caller, down>>

\* The finally block: drop the fingerprint if it still points at this job.
Release(w) ==
    /\ worker[w].pc = "releasing"
    /\ LET j == worker[w].job
           f == jobs[j].print
       IN active' = IF active[f] = j THEN [active EXCEPT ![f] = 0] ELSE active
    /\ worker' = [worker EXCEPT ![w] = Idle]
    /\ UNCHANGED <<jobs, queue, caller, down>>

\* Mutant: shutdown with cancel_futures=True.
ShutdownCancelling ==
    /\ ~down
    /\ down' = TRUE
    /\ queue' = <<>>
    /\ UNCHANGED <<jobs, active, worker, caller>>

\* shutdown: no new work, what is queued is still run (cancel_futures=False).
Shutdown ==
    /\ ~down
    /\ down' = TRUE
    /\ UNCHANGED <<jobs, active, queue, worker, caller>>

CallerNext(c) ==
    \/ \E f \in Fingerprints : Ask(c, f) \/ Join(c, f) \/ Enter(c, f)
    \/ HandOver(c)
    \/ StartReload(c)
    \/ EndReload(c)

WorkerNext(w) ==
    \/ Take(w)
    \/ \E status \in {"SUCCEEDED", "FAILED"} : Finish(w, status)
    \/ Release(w)

Next == (\E c \in Callers : CallerNext(c)) \/ (\E w \in Workers : WorkerNext(w)) \/ Shutdown

\* A pool thread keeps running, every job function returns, and a thread that
\* has entered a job reaches the executor.
Fairness ==
    /\ \A w \in Workers : WF_vars(WorkerNext(w))
    /\ \A c \in Callers : WF_vars(HandOver(c))

Spec == Init /\ [][Next]_vars /\ Fairness

---------------------------------------------------------------------------
JobsTypeOK ==
    /\ jobs \in Seq([print : Fingerprints, status : Statuses])
    /\ Len(jobs) <= MaxJobs
    /\ active \in [Fingerprints -> 0..Len(jobs)]
    /\ queue \in Seq(1..Len(jobs))
    /\ worker \in [Workers -> [pc : {"idle", "running", "releasing"}, job : 0..Len(jobs)]]
    /\ caller \in [Callers -> [pc : {"free", "asked", "entered", "reloading"},
                               print : Fingerprints \cup {NoPrint}, job : 0..Len(jobs)]]
    /\ down \in BOOLEAN

\* The same call is never in flight twice: a finished job that has not yet
\* released its fingerprint, while a new job took it over, must not free it.
OneFlightPerFingerprint ==
    \A j, k \in Ids :
        IsActive(j) /\ IsActive(k) /\ jobs[j].print = jobs[k].print => j = k

\* A job handed to the executor finishes, also after a shutdown.
HandedOverJobsFinish ==
    \A j \in 1..MaxJobs :
        (j \in Ids /\ \E i \in DOMAIN queue : queue[i] = j)
            ~> (j \in Ids /\ jobs[j].status \notin Unfinished)

===========================================================================
