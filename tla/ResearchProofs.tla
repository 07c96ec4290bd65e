------------------------------ MODULE ResearchProofs ------------------------------
(***************************************************************************)
(* Two components of the research process.                                  *)
(*                                                                         *)
(* Background jobs: one call is never in flight twice, for every number of  *)
(* HTTP threads, pool threads, calls and jobs.  The finally block of a job  *)
(* runs after its status was set, outside that critical section, so a new   *)
(* job may have the fingerprint by then.  What makes the later release      *)
(* harmless is that an unfinished job is always the one its fingerprint     *)
(* points at, and that needs a job to be run once only.                     *)
(*                                                                         *)
(* The memory cache: it keeps its limit for every set of keys, sizes and    *)
(* every limit, whatever the looks at the machine's memory answer.          *)
(***************************************************************************)
EXTENDS JobManager, MemoryLRU, SequenceTheorems, TLAPS

(* Background jobs.                                                         *)

Jobs == [print : Fingerprints, status : Statuses]

\* An unfinished job is the one its fingerprint points at.
Pointed == \A j \in Ids : IsActive(j) => active[jobs[j].print] = j

\* The executor holds jobs that have not begun, each once.
QueuedOnce ==
    /\ \A i \in DOMAIN queue : jobs[queue[i]].status = "QUEUED"
    /\ \A i, k \in DOMAIN queue : queue[i] = queue[k] => i = k

\* So does an HTTP thread on its way to the executor.
EnteredOnce ==
    \A c \in Callers : caller[c].pc = "entered" =>
        /\ caller[c].job \in Ids /\ jobs[caller[c].job].status = "QUEUED"
        /\ \A i \in DOMAIN queue : queue[i] # caller[c].job
        /\ \A d \in Callers : caller[d].pc = "entered" /\ caller[d].job = caller[c].job => d = c

\* A pool thread has a job of its own until it has finished it.
RunOnce ==
    \A w \in Workers :
        /\ worker[w].pc = "running" =>
              /\ worker[w].job \in Ids /\ jobs[worker[w].job].status = "RUNNING"
              /\ \A v \in Workers :
                    worker[v].pc = "running" /\ worker[v].job = worker[w].job => v = w
        /\ worker[w].pc = "releasing" =>
              worker[w].job \in Ids /\ jobs[worker[w].job].status \notin Unfinished

JobsInv == JobsTypeOK /\ Pointed /\ QueuedOnce /\ EnteredOnce /\ RunOnce

\* Setting the status of a job changes nothing else.
LEMMA StatusIsSet ==
    ASSUME NEW k \in Ids, NEW s \in Statuses, jobs \in Seq(Jobs),
           jobs' = [jobs EXCEPT ![k].status = s]
    PROVE  /\ jobs' \in Seq(Jobs) /\ Len(jobs') = Len(jobs) /\ DOMAIN jobs' = DOMAIN jobs
           /\ jobs'[k].print = jobs[k].print /\ jobs'[k].status = s
           /\ \A j \in Ids \ {k} : jobs'[j] = jobs[j]
  <1>1. DOMAIN jobs = Ids /\ k \in DOMAIN jobs /\ jobs[k] \in Jobs
    BY DEF Ids
  <1>2. [jobs[k] EXCEPT !.status = s] \in Jobs
    BY <1>1 DEF Jobs
  <1>3. jobs' = [jobs EXCEPT ![k] = [jobs[k] EXCEPT !.status = s]]
    BY <1>1
  <1>4. jobs' \in Seq(Jobs) /\ Len(jobs') = Len(jobs)
    BY <1>2, <1>3, <1>1
  <1>5. jobs'[k] = [jobs[k] EXCEPT !.status = s]
    BY <1>1, <1>3
  <1>6. jobs'[k].print = jobs[k].print /\ jobs'[k].status = s
    BY <1>1, <1>5 DEF Jobs
  <1>. QED
    BY <1>1, <1>3, <1>4, <1>6

\* The bound on the jobs is not below none.
LEMMA NoJobsYet == 0 <= MaxJobs
  <1>1. MaxJobs \in Nat
    BY JobConstants
  <1>. QED
    BY <1>1

(* An empty manager satisfies the invariant. *)
LEMMA JobsInvInit == Init => JobsInv
  <1>. SUFFICES ASSUME Init
                PROVE  JobsInv
    OBVIOUS
  <1>1. Len(jobs) = 0 /\ Ids = {} /\ jobs \in Seq(Jobs)
    BY DEF Init, Ids
  <1>2. JobsTypeOK
    <2>1. active \in [Fingerprints -> 0..Len(jobs)]
      BY <1>1 DEF Init
    <2>2. queue \in Seq(1..Len(jobs))
      BY DEF Init
    <2>3. worker \in [Workers -> [pc : {"idle", "running", "releasing"}, job : 0..Len(jobs)]]
      BY <1>1 DEF Init, Idle
    <2>4. caller \in [Callers -> [pc : {"free", "asked", "entered", "reloading"},
                                 print : Fingerprints \cup {NoPrint}, job : 0..Len(jobs)]]
      BY <1>1 DEF Init, Free
    <2>. QED
      BY <1>1, <2>1, <2>2, <2>3, <2>4, NoJobsYet DEF Init, JobsTypeOK, Jobs
  <1>. QED
    BY <1>1, <1>2 DEF Init, JobsInv, Pointed, QueuedOnce, EnteredOnce, RunOnce, Idle, Free

\* A new job: entered, not yet with the executor.
LEMMA EnterKeeps ==
    ASSUME JobsInv, NEW c \in Callers, NEW f \in Fingerprints, Enter(c, f)
    PROVE  JobsInv'
  <1>. DEFINE n == Len(jobs) + 1
              row == [print |-> f, status |-> "QUEUED"]
              call == [pc |-> "entered", print |-> f, job |-> n]
  <1>1. /\ jobs \in Seq(Jobs) /\ row \in Jobs /\ Len(jobs) \in Nat
        /\ active \in [Fingerprints -> 0..Len(jobs)] /\ queue \in Seq(1..Len(jobs))
    BY DEF JobsInv, JobsTypeOK, Jobs, Statuses
  <1>2. /\ jobs' \in Seq(Jobs) /\ Len(jobs') = n /\ jobs'[n] = row
        /\ Ids' = Ids \cup {n} /\ \A j \in Ids : jobs'[j] = jobs[j]
    BY <1>1 DEF Enter, Ids
  <1>3. /\ active' = [active EXCEPT ![f] = n] /\ UNCHANGED <<queue, worker, down>>
        /\ caller' = [caller EXCEPT ![c] = call] /\ ~IsActive(active[f]) /\ n <= MaxJobs
    BY <1>1, JobConstants DEF Enter
  <1>. HIDE DEF call
  <1>4. JobsTypeOK'
    <2>1. active' \in [Fingerprints -> 0..n]
      BY <1>1, <1>3
    <2>2. queue' \in Seq(1..n)
      <3>1. \A i \in 1..Len(queue) : queue[i] \in 1..n
        BY <1>1
      <3>. QED
        BY <1>1, <1>3, <3>1
    <2>3. worker' \in [Workers -> [pc : {"idle", "running", "releasing"}, job : 0..n]]
      BY <1>1, <1>3 DEF JobsInv, JobsTypeOK
    <2>4. caller' \in [Callers -> [pc : {"free", "asked", "entered", "reloading"},
                                   print : Fingerprints \cup {NoPrint}, job : 0..n]]
      BY <1>1, <1>3 DEF JobsInv, JobsTypeOK, call
    <2>. QED
      BY <1>2, <1>3, <2>1, <2>2, <2>3, <2>4 DEF JobsInv, JobsTypeOK, Jobs
  <1>5. n \notin Ids /\ DOMAIN queue' = DOMAIN queue /\ \A i \in DOMAIN queue : queue[i] \in Ids
    BY <1>1, <1>3 DEF Ids
  <1>6. Pointed'
    <2>. SUFFICES ASSUME NEW j \in Ids', IsActive(j)'
                  PROVE  active'[jobs'[j].print] = j
      BY DEF Pointed
    <2>1. CASE j = n
      BY <1>1, <1>2, <1>3, <2>1
    <2>2. CASE j # n
      <3>1. j \in Ids /\ jobs'[j] = jobs[j] /\ IsActive(j)
        BY <1>2, <2>2 DEF IsActive
      <3>2. active[jobs[j].print] = j
        BY <3>1 DEF JobsInv, Pointed
      <3>3. jobs[j].print # f
        BY <1>3, <3>1, <3>2
      <3>. QED
        BY <1>1, <1>3, <3>1, <3>2, <3>3
    <2>. QED
      BY <2>1, <2>2
  <1>7. QueuedOnce'
    BY <1>2, <1>3, <1>5 DEF JobsInv, QueuedOnce
  <1>8. EnteredOnce'
    <2>1. /\ caller'[c].pc = "entered" /\ caller'[c].job = n
          /\ \A d \in Callers \ {c} : caller'[d] = caller[d]
      BY <1>3 DEF JobsInv, JobsTypeOK, call
    <2>. QED
      BY <1>2, <1>3, <1>5, <2>1 DEF JobsInv, EnteredOnce
  <1>9. RunOnce'
    BY <1>2, <1>3, <1>5 DEF JobsInv, RunOnce
  <1>. QED
    BY <1>4, <1>6, <1>7, <1>8, <1>9 DEF JobsInv

\* The handlers that neither enter a job nor hand one over leave the table alone.
LEMMA HandlersKeep ==
    ASSUME JobsInv, NEW c \in Callers, UNCHANGED <<jobs, active, queue, worker>>,
           down' \in BOOLEAN,
           \/ UNCHANGED caller
           \/ /\ caller[c].pc # "entered"
              /\ \/ \E f \in Fingerprints :
                       caller' = [caller EXCEPT ![c] = [pc |-> "asked", print |-> f, job |-> 0]]
                 \/ caller' = [caller EXCEPT ![c] = Free]
                 \/ caller' = [caller EXCEPT ![c].pc = "reloading"]
                 \/ caller' = [caller EXCEPT ![c].pc = "free"]
    PROVE  JobsInv'
  <1>1. /\ caller' \in [Callers -> [pc : {"free", "asked", "entered", "reloading"},
                                   print : Fingerprints \cup {NoPrint}, job : 0..Len(jobs)]]
        /\ \A d \in Callers : caller'[d].pc = "entered" => caller'[d] = caller[d]
    <2>1. 0 \in 0..Len(jobs)
      BY DEF JobsInv, JobsTypeOK
    <2>2. /\ caller \in [Callers -> [pc : {"free", "asked", "entered", "reloading"},
                                    print : Fingerprints \cup {NoPrint}, job : 0..Len(jobs)]]
          /\ Free \in [pc : {"free", "asked", "entered", "reloading"},
                      print : Fingerprints \cup {NoPrint}, job : 0..Len(jobs)]
          /\ Free.pc = "free"
      BY <2>1 DEF JobsInv, JobsTypeOK, Free
    <2>3. CASE UNCHANGED caller
      BY <2>2, <2>3
    <2>4. ASSUME NEW f \in Fingerprints,
                 caller' = [caller EXCEPT ![c] = [pc |-> "asked", print |-> f, job |-> 0]]
          PROVE  /\ caller' \in [Callers -> [pc : {"free", "asked", "entered", "reloading"},
                                            print : Fingerprints \cup {NoPrint}, job : 0..Len(jobs)]]
                 /\ \A d \in Callers : caller'[d].pc = "entered" => caller'[d] = caller[d]
      BY <2>1, <2>2, <2>4
    <2>5. CASE caller' = [caller EXCEPT ![c] = Free]
      BY <2>2, <2>5
    <2>6. CASE caller' = [caller EXCEPT ![c].pc = "reloading"]
      BY <2>2, <2>6
    <2>7. CASE caller' = [caller EXCEPT ![c].pc = "free"]
      BY <2>2, <2>7
    <2>. QED
      BY <2>3, <2>4, <2>5, <2>6, <2>7
  <1>2. JobsTypeOK'
    BY <1>1 DEF JobsInv, JobsTypeOK
  <1>3. EnteredOnce'
    BY <1>1 DEF JobsInv, EnteredOnce, Ids
  <1>. QED
    BY <1>2, <1>3 DEF JobsInv, Pointed, QueuedOnce, RunOnce, Ids, IsActive

\* The executor takes an entered job, or refuses it.
LEMMA HandOverKeeps ==
    ASSUME JobsInv, NEW c \in Callers, HandOver(c)
    PROVE  JobsInv'
  <1>1. /\ caller[c].pc = "entered" /\ UNCHANGED <<jobs, active, worker, down>>
        /\ caller' = [caller EXCEPT ![c] = Free]
    BY DEF HandOver
  <1>2. /\ queue \in Seq(Ids) /\ caller[c].job \in Ids /\ jobs[caller[c].job].status = "QUEUED"
        /\ \A i \in DOMAIN queue : queue[i] # caller[c].job
    BY <1>1 DEF JobsInv, JobsTypeOK, EnteredOnce, Ids
  <1>3. /\ caller' \in [Callers -> [pc : {"free", "asked", "entered", "reloading"},
                                   print : Fingerprints \cup {NoPrint}, job : 0..Len(jobs)]]
        /\ \A d \in Callers : caller'[d].pc = "entered" => d # c /\ caller'[d] = caller[d]
    <2>1. 0 \in 0..Len(jobs)
      BY DEF JobsInv, JobsTypeOK
    <2>. QED
      BY <1>1, <2>1 DEF JobsInv, JobsTypeOK, Free
  <1>4. CASE UNCHANGED queue
    <2>1. JobsTypeOK'
      BY <1>1, <1>3, <1>4 DEF JobsInv, JobsTypeOK
    <2>2. EnteredOnce'
      BY <1>1, <1>3, <1>4 DEF JobsInv, EnteredOnce, Ids
    <2>. QED
      BY <1>1, <1>4, <2>1, <2>2 DEF JobsInv, Pointed, QueuedOnce, RunOnce, Ids, IsActive
  <1>5. CASE queue' = Append(queue, caller[c].job)
    <2>1. /\ queue' \in Seq(Ids) /\ DOMAIN queue' = DOMAIN queue \cup {Len(queue) + 1}
          /\ queue'[Len(queue) + 1] = caller[c].job
          /\ \A i \in DOMAIN queue : queue'[i] = queue[i]
      BY <1>2, <1>5
    <2>2. JobsTypeOK'
      BY <1>1, <1>3, <2>1 DEF JobsInv, JobsTypeOK, Ids
    <2>3. QueuedOnce'
      BY <1>1, <1>2, <2>1 DEF JobsInv, QueuedOnce
    <2>4. EnteredOnce'
      BY <1>1, <1>3, <2>1 DEF JobsInv, EnteredOnce, Ids
    <2>. QED
      BY <1>1, <2>2, <2>3, <2>4 DEF JobsInv, Pointed, RunOnce, Ids, IsActive
  <1>. QED
    BY <1>4, <1>5 DEF HandOver

\* A pool thread begins the oldest job.
LEMMA TakeKeeps ==
    ASSUME JobsInv, NEW w \in Workers, Take(w)
    PROVE  JobsInv'
  <1>. DEFINE j == Head(queue)
  <1>1. /\ worker[w].pc = "idle" /\ queue # <<>> /\ queue' = Tail(queue)
        /\ worker' = [worker EXCEPT ![w] = [pc |-> "running", job |-> j]]
        /\ UNCHANGED <<active, caller, down>>
    BY DEF Take
  <1>2. queue \in Seq(Ids) /\ j \in Ids /\ j = queue[1] /\ 1 \in DOMAIN queue
    BY <1>1 DEF JobsInv, JobsTypeOK, Ids
  <1>3. jobs[j].status = "QUEUED"
    BY <1>2 DEF JobsInv, QueuedOnce
  <1>4. /\ queue' \in Seq(Ids)
        /\ \A i \in DOMAIN queue' : i + 1 \in DOMAIN queue /\ queue'[i] = queue[i + 1]
        /\ DOMAIN queue' \subseteq Nat \ {0}
    BY <1>1, <1>2
  <1>5. \A i \in DOMAIN queue' : queue'[i] \in Ids \ {j}
    BY <1>2, <1>4 DEF JobsInv, QueuedOnce
  <1>. HIDE DEF j
  <1>6. jobs' = [jobs EXCEPT ![j].status = "RUNNING"]
    BY DEF Take, j
  <1>7. /\ jobs' \in Seq(Jobs) /\ Len(jobs') = Len(jobs) /\ DOMAIN jobs' = DOMAIN jobs
        /\ jobs'[j].print = jobs[j].print /\ jobs'[j].status = "RUNNING"
        /\ \A k \in Ids \ {j} : jobs'[k] = jobs[k]
    BY <1>2, <1>6, StatusIsSet DEF JobsInv, JobsTypeOK, Jobs, Statuses
  <1>8. /\ worker' \in [Workers -> [pc : {"idle", "running", "releasing"}, job : 0..Len(jobs)]]
        /\ worker'[w].pc = "running" /\ worker'[w].job = j
        /\ \A v \in Workers \ {w} : worker'[v] = worker[v]
    BY <1>1, <1>2 DEF JobsInv, JobsTypeOK, Ids
  <1>9. JobsTypeOK'
    BY <1>1, <1>4, <1>7, <1>8 DEF JobsInv, JobsTypeOK, Jobs, Ids
  <1>10. Pointed'
    <2>. SUFFICES ASSUME NEW k \in Ids, IsActive(k)'
                  PROVE  active[jobs'[k].print] = k
      BY <1>1, <1>7 DEF Pointed, Ids
    <2>1. IsActive(k) /\ jobs'[k].print = jobs[k].print
      BY <1>3, <1>7 DEF IsActive, Unfinished, Ids
    <2>. QED
      BY <2>1 DEF JobsInv, Pointed
  <1>11. QueuedOnce'
    <2>1. \A i \in DOMAIN queue' : jobs'[queue'[i]].status = "QUEUED"
      BY <1>4, <1>5, <1>7 DEF JobsInv, QueuedOnce
    <2>2. ASSUME NEW i \in DOMAIN queue', NEW k \in DOMAIN queue', queue'[i] = queue'[k]
          PROVE  i = k
      <3>1. i + 1 = k + 1
        BY <1>4, <2>2 DEF JobsInv, QueuedOnce
      <3>. QED
        BY <1>4, <3>1
    <2>. QED
      BY <2>1, <2>2 DEF QueuedOnce
  <1>12. EnteredOnce'
    <2>. SUFFICES ASSUME NEW c \in Callers, caller[c].pc = "entered"
                  PROVE  /\ caller[c].job \in Ids /\ jobs'[caller[c].job].status = "QUEUED"
                         /\ \A i \in DOMAIN queue' : queue'[i] # caller[c].job
                         /\ \A d \in Callers : caller[d].pc = "entered"
                                /\ caller[d].job = caller[c].job => d = c
      BY <1>1, <1>7 DEF EnteredOnce, Ids
    <2>1. caller[c].job \in Ids \ {j}
      BY <1>2 DEF JobsInv, EnteredOnce
    <2>. QED
      BY <1>4, <1>7, <2>1 DEF JobsInv, EnteredOnce
  <1>13. RunOnce'
    <2>1. \A v \in Workers \ {w} : worker[v].pc \in {"running", "releasing"} => worker[v].job \in Ids \ {j}
      BY <1>3 DEF JobsInv, RunOnce, Unfinished
    <2>2. Ids' = Ids
      BY <1>7 DEF Ids
    <2>3. ASSUME NEW v \in Workers \ {w}
          PROVE  /\ worker'[v].pc = "running" =>
                       /\ worker'[v].job \in Ids /\ jobs'[worker'[v].job].status = "RUNNING"
                       /\ worker'[v].job # j
                       /\ \A u \in Workers \ {w} :
                             worker'[u].pc = "running" /\ worker'[u].job = worker'[v].job => u = v
                 /\ worker'[v].pc = "releasing" =>
                       worker'[v].job \in Ids /\ jobs'[worker'[v].job].status \notin Unfinished
      BY <1>7, <1>8, <2>1 DEF JobsInv, RunOnce
    <2>. QED
      BY <1>2, <1>7, <1>8, <2>2, <2>3 DEF RunOnce
  <1>. QED
    BY <1>9, <1>10, <1>11, <1>12, <1>13 DEF JobsInv

\* A job ends; its fingerprint still points at it.
LEMMA FinishKeeps ==
    ASSUME JobsInv, NEW w \in Workers, NEW s \in {"SUCCEEDED", "FAILED"}, Finish(w, s)
    PROVE  JobsInv'
  <1>. DEFINE j == worker[w].job
  <1>1. /\ worker[w].pc = "running" /\ j \in Ids /\ jobs[j].status = "RUNNING"
        /\ UNCHANGED <<active, queue, caller, down>>
        /\ worker' = [worker EXCEPT ![w].pc = "releasing"]
    BY DEF Finish, JobsInv, RunOnce
  <1>2. /\ worker' \in [Workers -> [pc : {"idle", "running", "releasing"}, job : 0..Len(jobs)]]
        /\ worker'[w].pc = "releasing" /\ worker'[w].job = j
        /\ \A v \in Workers \ {w} : worker'[v] = worker[v]
    BY <1>1 DEF JobsInv, JobsTypeOK
  <1>. HIDE DEF j
  <1>3. /\ jobs' \in Seq(Jobs) /\ Len(jobs') = Len(jobs) /\ DOMAIN jobs' = DOMAIN jobs
        /\ jobs'[j].print = jobs[j].print /\ jobs'[j].status = s
        /\ \A k \in Ids \ {j} : jobs'[k] = jobs[k]
    <2>1. jobs' = [jobs EXCEPT ![j].status = s] /\ s \in Statuses
      BY DEF Finish, j, Statuses
    <2>. QED
      BY <1>1, <2>1, StatusIsSet DEF JobsInv, JobsTypeOK, Jobs
  <1>4. JobsTypeOK'
    BY <1>1, <1>2, <1>3 DEF JobsInv, JobsTypeOK, Jobs
  <1>5. Pointed'
    <2>. SUFFICES ASSUME NEW k \in Ids, IsActive(k)'
                  PROVE  active[jobs'[k].print] = k
      BY <1>1, <1>3 DEF Pointed, Ids
    <2>1. IsActive(k) /\ jobs'[k].print = jobs[k].print
      BY <1>1, <1>3 DEF IsActive, Unfinished, Ids
    <2>. QED
      BY <2>1 DEF JobsInv, Pointed
  <1>6. QueuedOnce'
    <2>1. \A i \in DOMAIN queue : queue[i] \in Ids \ {j}
      BY <1>1 DEF JobsInv, QueuedOnce, JobsTypeOK, Ids
    <2>. QED
      BY <1>1, <1>3, <2>1 DEF JobsInv, QueuedOnce
  <1>7. EnteredOnce'
    <2>1. \A c \in Callers : caller[c].pc = "entered" => caller[c].job \in Ids \ {j}
      BY <1>1 DEF JobsInv, EnteredOnce
    <2>. QED
      BY <1>1, <1>3, <2>1 DEF JobsInv, EnteredOnce, Ids
  <1>8. RunOnce'
    <2>1. \A v \in Workers \ {w} : /\ worker[v].pc = "running" => worker[v].job \in Ids \ {j}
                                  /\ worker[v].pc = "releasing" => worker[v].job \in Ids \ {j}
      BY <1>1 DEF JobsInv, RunOnce, Unfinished, j
    <2>. QED
      BY <1>1, <1>2, <1>3, <2>1 DEF JobsInv, RunOnce, Ids, Unfinished
  <1>. QED
    BY <1>4, <1>5, <1>6, <1>7, <1>8 DEF JobsInv

\* The finished job lets go of its fingerprint, unless a new one has it.
LEMMA ReleaseKeeps ==
    ASSUME JobsInv, NEW w \in Workers, Release(w)
    PROVE  JobsInv'
  <1>. DEFINE j == worker[w].job
  <1>1. /\ worker[w].pc = "releasing" /\ j \in Ids /\ jobs[j].status \notin Unfinished
        /\ UNCHANGED <<jobs, queue, caller, down>>
        /\ worker' = [worker EXCEPT ![w] = Idle]
        /\ active' = IF active[jobs[j].print] = j THEN [active EXCEPT ![jobs[j].print] = 0] ELSE active
    BY DEF Release, JobsInv, RunOnce
  <1>2. /\ worker' \in [Workers -> [pc : {"idle", "running", "releasing"}, job : 0..Len(jobs)]]
        /\ worker'[w].pc = "idle" /\ \A v \in Workers \ {w} : worker'[v] = worker[v]
    <2>1. 0 \in 0..Len(jobs)
      BY DEF JobsInv, JobsTypeOK
    <2>. QED
      BY <1>1, <2>1 DEF JobsInv, JobsTypeOK, Idle
  <1>. HIDE DEF j
  <1>3. active' \in [Fingerprints -> 0..Len(jobs)]
    <2>1. active \in [Fingerprints -> 0..Len(jobs)] /\ 0 \in 0..Len(jobs)
      BY DEF JobsInv, JobsTypeOK
    <2>. QED
      BY <1>1, <2>1
  <1>4. JobsTypeOK'
    BY <1>1, <1>2, <1>3 DEF JobsInv, JobsTypeOK
  <1>5. Pointed'
    <2>. SUFFICES ASSUME NEW k \in Ids, IsActive(k)
                  PROVE  active'[jobs[k].print] = k
      BY <1>1 DEF Pointed, Ids, IsActive
    <2>1. active[jobs[k].print] = k /\ k # j
      BY <1>1 DEF JobsInv, Pointed, IsActive
    <2>2. jobs[k].print \in Fingerprints
      <3>1. jobs[k] \in Jobs
        <4>1. jobs \in Seq(Jobs)
          BY DEF JobsInv, JobsTypeOK, Jobs
        <4>. QED
          BY <4>1 DEF Ids
      <3>. QED
        BY <3>1 DEF Jobs
    <2>. QED
      BY <1>1, <2>1, <2>2 DEF JobsInv, JobsTypeOK
  <1>6. RunOnce'
    BY <1>1, <1>2 DEF JobsInv, RunOnce, Ids
  <1>. QED
    BY <1>1, <1>4, <1>5, <1>6 DEF JobsInv, QueuedOnce, EnteredOnce, Ids

(* Every handler, every worker of the pool and shutdown keep the invariant. *)
LEMMA JobsInvStep == JobsInv /\ [Next]_vars => JobsInv'
  <1>. SUFFICES ASSUME JobsInv, [Next]_vars
                PROVE  JobsInv'
    OBVIOUS
  <1>1. ASSUME NEW c \in Callers, CallerNext(c)
        PROVE  JobsInv'
    <2>1. ASSUME NEW f \in Fingerprints, Ask(c, f)
          PROVE  JobsInv'
      BY <2>1, HandlersKeep DEF Ask, JobsInv, JobsTypeOK
    <2>2. ASSUME NEW f \in Fingerprints, Join(c, f)
          PROVE  JobsInv'
      BY <2>2, HandlersKeep DEF Join, MaySubmit, JobsInv, JobsTypeOK
    <2>3. CASE StartReload(c)
      BY <2>3, HandlersKeep DEF StartReload, JobsInv, JobsTypeOK
    <2>4. CASE EndReload(c)
      BY <2>4, HandlersKeep DEF EndReload, JobsInv, JobsTypeOK
    <2>. QED
      BY <1>1, <2>1, <2>2, <2>3, <2>4, EnterKeeps, HandOverKeeps DEF CallerNext
  <1>2. ASSUME NEW w \in Workers, WorkerNext(w)
        PROVE  JobsInv'
    BY <1>2, TakeKeeps, FinishKeeps, ReleaseKeeps DEF WorkerNext
  <1>3. CASE Shutdown \/ UNCHANGED vars
    <2>1. UNCHANGED <<jobs, active, queue, worker, caller>> /\ down' \in BOOLEAN
      BY <1>3 DEF Shutdown, vars, JobsInv, JobsTypeOK
    <2>2. JobsTypeOK'
      BY <2>1 DEF JobsInv, JobsTypeOK
    <2>. QED
      BY <2>1, <2>2 DEF JobsInv, Pointed, QueuedOnce, EnteredOnce, RunOnce, Ids, IsActive
  <1>. QED
    BY <1>1, <1>2, <1>3 DEF Next

\* The table of jobs, the executor's queue and the threads keep their types.
THEOREM JobsTypeCorrect == Spec => []JobsTypeOK
  <1>1. JobsInv => JobsTypeOK
    BY DEF JobsInv
  <1>. QED
    BY <1>1, JobsInvInit, JobsInvStep, PTL DEF Spec

\* Whatever threads submit, run and release, no two unfinished jobs are the same call.
THEOREM CallsFlyOnce == Spec => []OneFlightPerFingerprint
  <1>1. JobsInv => OneFlightPerFingerprint
    BY DEF JobsInv, Pointed, OneFlightPerFingerprint
  <1>. QED
    BY <1>1, JobsInvInit, JobsInvStep, PTL DEF Spec

-----------------------------------------------------------------------------
(* The memory cache.                                                        *)

Items == [key : MemoryKeys, size : Sizes]
Puts == [key : MemoryKeys, size : Sizes, previous : Sizes, had : BOOLEAN]

\* While a put runs that took an earlier value out, there is room to put it back.
RoomForPrevious == put # NoPut /\ put.had = TRUE => bytes + put.previous <= LimitBytes

MemoryInv == MemoryTypeOK /\ WithinLimit /\ RoomForPrevious

\* Where a key is held, and what is held there.
LEMMA HeldPlace ==
    ASSUME MemoryTypeOK, NEW k \in MemoryKeys, Holds(k)
    PROVE  /\ Place(k) \in 1..Len(items)
           /\ ItemOf(k) \in Items
           /\ ItemOf(k).size \in Nat
  <1>1. items \in Seq(Items)
    BY DEF MemoryTypeOK, Items
  <1>2. Place(k) \in DOMAIN items
    BY DEF Holds, Place
  <1>3. DOMAIN items = 1..Len(items)
    BY <1>1
  <1>4. items[Place(k)] \in Items
    BY <1>1, <1>2, <1>3
  <1>. QED
    BY <1>2, <1>3, <1>4, MemoryConstants DEF ItemOf, Items

\* What is left without a key is a sequence of items.
LEMMA WithoutTyped ==
    ASSUME MemoryTypeOK, NEW k \in MemoryKeys
    PROVE  Without(k) \in Seq(Items)
  <1>1. items \in Seq(Items) /\ Len(items) \in Nat
    BY DEF MemoryTypeOK, Items
  <1>2. CASE Holds(k)
    <2>1. Place(k) \in 1..Len(items)
      BY <1>2, HeldPlace
    <2>2. /\ SubSeq(items, 1, Place(k) - 1) \in Seq(Items)
          /\ SubSeq(items, Place(k) + 1, Len(items)) \in Seq(Items)
      BY <1>1, <2>1
    <2>. QED
      BY <1>2, <2>2, ConcatProperties DEF Without
  <1>3. CASE ~Holds(k)
    BY <1>1, <1>3 DEF Without
  <1>. QED
    BY <1>2, <1>3

\* Every step keeps the types, the limit and the room.
LEMMA MemoryStep == MemoryInv /\ [MemoryNext]_memoryVars => MemoryInv'
  <1>. SUFFICES ASSUME MemoryInv, [MemoryNext]_memoryVars
                PROVE  MemoryInv'
    OBVIOUS
  <1>0. /\ items \in Seq(Items) /\ bytes \in Int /\ put \in Puts \cup {NoPut}
        /\ NoPut \notin Puts /\ Sizes \subseteq Nat /\ LimitBytes \in Nat
        /\ bytes <= LimitBytes
        /\ put # NoPut /\ put.had = TRUE => bytes + put.previous <= LimitBytes
        /\ MemoryTypeOK
    BY MemoryConstants
       DEF MemoryInv, MemoryTypeOK, WithinLimit, RoomForPrevious, Items, Puts
  <1>. DEFINE Kept == /\ items' \in Seq(Items) /\ bytes' \in Int /\ put' \in Puts \cup {NoPut}
                      /\ bytes' <= LimitBytes
                      /\ put' # NoPut /\ put'.had = TRUE => bytes' + put'.previous <= LimitBytes
  <1>1. ASSUME GetLow
        PROVE  Kept
    BY <1>0, <1>1, EmptySeq DEF GetLow
  <1>2. ASSUME NEW k \in MemoryKeys, Get(k)
        PROVE  Kept
    <2>1. Without(k) \in Seq(Items) /\ ItemOf(k) \in Items
      BY <1>0, <1>2, HeldPlace, WithoutTyped DEF Get
    <2>2. Append(Without(k), ItemOf(k)) \in Seq(Items)
      BY <2>1, AppendProperties
    <2>. QED
      BY <1>0, <1>2, <2>2 DEF Get
  <1>3. ASSUME NEW k \in MemoryKeys, NEW n \in Sizes, BeginPut(k, n)
        PROVE  Kept
    <2>1. items' \in Seq(Items)
      BY <1>0, <1>3, WithoutTyped DEF BeginPut
    <2>2. CASE Holds(k)
      <3>1. ItemOf(k) \in Items /\ ItemOf(k).size \in Nat
        BY <1>0, <2>2, HeldPlace
      <3>2. /\ bytes' = bytes - ItemOf(k).size
            /\ put' = [key |-> k, size |-> n, had |-> TRUE, previous |-> ItemOf(k).size]
        BY <1>3, <2>2 DEF BeginPut, TakeOut
      <3>. QED
        BY <1>0, <2>1, <3>1, <3>2 DEF Items, Puts
    <2>3. CASE ~Holds(k)
      <3>0. Holds(k) = FALSE
        BY <2>3 DEF Holds
      <3>1. /\ bytes' = bytes
            /\ put' = [key |-> k, size |-> n, had |-> FALSE, previous |-> n]
        BY <1>3, <3>0 DEF BeginPut
      <3>. QED
        BY <1>0, <2>1, <3>1 DEF Puts
    <2>. QED
      BY <2>2, <2>3
  <1>4. ASSUME NEW low \in BOOLEAN, Evict(low)
        PROVE  Kept
    <2>1. Tail(items) \in Seq(Items) /\ Head(items) \in Items
      BY <1>0, <1>4, HeadTailProperties DEF Evict
    <2>2. Head(items).size \in Nat
      BY <1>0, <2>1 DEF Items
    <2>3. put # NoPut /\ put' = put /\ put.previous \in Nat
      BY <1>0, <1>4 DEF Evict, Puts
    <2>. QED
      BY <1>0, <1>4, <2>1, <2>2, <2>3 DEF Evict
  <1>5. ASSUME Store
        PROVE  Kept
    <2>1. put \in Puts /\ put.size \in Nat /\ put.key \in MemoryKeys
      BY <1>0, <1>5 DEF Store, Evicted, Puts
    <2>2. Item(put.key, put.size) \in Items
      BY <1>0, <2>1 DEF Item, Items, Puts
    <2>3. Append(items, Item(put.key, put.size)) \in Seq(Items)
      BY <1>0, <2>2, AppendProperties
    <2>. QED
      BY <1>0, <1>5, <2>1, <2>3 DEF Store, Fits
  <1>6. ASSUME NEW low \in BOOLEAN, Refuse(low)
        PROVE  Kept
    <2>1. put \in Puts /\ put # NoPut
      BY <1>0, <1>6 DEF Refuse, Evicted
    <2>2. put.previous \in Nat /\ Item(put.key, put.previous) \in Items
      BY <1>0, <2>1 DEF Item, Items, Puts
    <2>3. Append(items, Item(put.key, put.previous)) \in Seq(Items)
      BY <1>0, <2>2, AppendProperties
    <2>. QED
      <3>1. CASE put.had = TRUE /\ ~low
        BY <1>0, <1>6, <2>1, <2>2, <2>3, <3>1 DEF Refuse
      <3>2. CASE ~(put.had = TRUE /\ ~low)
        <4>1. put.had \in BOOLEAN
          BY <2>1 DEF Puts
        <4>2. UNCHANGED <<items, bytes>> /\ put' = NoPut
          BY <1>6, <3>2, <4>1 DEF Refuse
        <4>. QED
          BY <1>0, <4>2
      <3>. QED
        BY <3>1, <3>2
  <1>7. ASSUME UNCHANGED memoryVars
        PROVE  Kept
    BY <1>0, <1>7 DEF memoryVars
  <1>8. Kept
    BY <1>1, <1>2, <1>3, <1>4, <1>5, <1>6, <1>7 DEF MemoryNext
  <1>. QED
    BY <1>8 DEF MemoryInv, MemoryTypeOK, WithinLimit, RoomForPrevious, Items, Puts

\* The memory cache never holds more than its limit, also when the put that took an
\* earlier value out is refused and puts it back.
THEOREM LimitIsKept == MemorySpec => []WithinLimit
  <1>1. MemoryInit => MemoryInv
    BY MemoryConstants DEF MemoryInit, MemoryInv, MemoryTypeOK, WithinLimit, RoomForPrevious
  <1>2. MemoryInv => WithinLimit
    BY DEF MemoryInv
  <1>. QED
    BY <1>1, <1>2, MemoryStep, PTL DEF MemorySpec
===============================================================================
