------------------------------ MODULE USProgram ------------------------------
(***************************************************************************)
(* The lifecycle gate of the US momentum programme (us_program.py): one     *)
(* SQLite state row, an append-only event log, and the append-only ledger   *)
(* of point-in-time (PIT) releases admitted to the paper decision lineage.  *)
(*                                                                          *)
(* Every registration runs in one BEGIN IMMEDIATE transaction, so it is one *)
(* action here.  Only admit_paper_release reads and verifies outside a      *)
(* transaction and takes the write lock at the end: it is two actions of an *)
(* admitter, between which every other operation may run.  A call that the  *)
(* code rejects, or that it answers idempotently, changes nothing and is    *)
(* therefore a stuttering step.                                             *)
(***************************************************************************)
EXTENDS Naturals, Sequences

CONSTANTS
    Releases,      \* PIT releases: a release_id with its manifest hash
    Ready,         \* Ready[r]: the release's status is DATA_READY
    Catalog,       \* Catalog[r]: the PIT catalog the release is stored in
    History,       \* History[r]: its certified months, oldest first; an entry
                   \*   stands for the membership rows and inputs of the month
    Hashes,        \* evidence hashes of historical, TDX and paper decisions
    Admitters,     \* processes that call admit_paper_release
    None           \* an evidence column or a release that is not set

ASSUME ReleaseAssumption ==
    /\ Ready \in [Releases -> BOOLEAN]
    /\ DOMAIN Catalog = Releases
    /\ DOMAIN History = Releases
    /\ \A r \in Releases : Len(History[r]) \in Nat /\ DOMAIN History[r] = 1..Len(History[r])
    /\ None \notin Releases \cup [hash : Hashes, verdict : {"qualified", "failed", "collecting"}]

VARIABLES
    row,           \* the row of us_program_state
    events,        \* the table us_program_events, in event_id order
    admissions,    \* the table us_program_paper_release_admissions
    pending        \* what each admitter has read and verified

vars == <<row, events, admissions, pending>>

States == {"DATA_BLOCKED", "DATA_READY", "BACKTEST_QUALIFIED",
           "PAPER_COLLECTING", "PAPER_QUALIFIED", "HISTORICAL_FAILED",
           "PAPER_BLOCKED"}

PaperActive == {"PAPER_COLLECTING", "PAPER_QUALIFIED"}

Kinds    == {"data_release", "historical", "tdx", "paper_start", "paper"}
Verdicts == {"qualified", "failed", "collecting"}
Evidence == [hash : Hashes, verdict : Verdicts]

Qualified(evidence) == evidence # None /\ evidence.verdict = "qualified"

\* The last element of an append-only table: the head of the ledger.
LastOf(table) == table[Len(table)]

Init ==
    /\ row = [state |-> "DATA_BLOCKED", release |-> None, historical |-> None,
              tdx |-> None, paper |-> None, version |-> 0]
    /\ events = <<>>
    /\ admissions = <<>>
    /\ pending = [a \in Admitters |-> None]

-----------------------------------------------------------------------------
(* The event log.                                                          *)

\* Mutant: only the newest event is compared, not the whole log.
RecordedLast(kind, hash) ==
    events # <<>> /\ LastOf(events).kind = kind /\ LastOf(events).hash = hash

\* An event with this evidence type and hash is already in the log: the call is
\* answered idempotently, or rejected when its payload differs.
Recorded(kind, hash) ==
    \E i \in DOMAIN events : events[i].kind = kind /\ events[i].hash = hash

\* Append one event and move the row, whose evidence columns the caller has
\* already set in `columns`.
WriteTransition(columns, target, kind, hash, verdict) ==
    /\ events' = Append(events, [kind |-> kind, hash |-> hash, verdict |-> verdict,
                                 release |-> columns.release,
                                 from |-> row.state, to |-> target])
    /\ row' = [columns EXCEPT !.state = target, !.version = row.version + 1]

-----------------------------------------------------------------------------
(* Qualification: data, historical replay, TDX shadow, paper.              *)

\* Mutant: every state the code lists as terminal accepts a new release.
OpenForReleaseWhenTerminal ==
    row.state \in {"DATA_BLOCKED", "HISTORICAL_FAILED", "PAPER_BLOCKED", "PAPER_QUALIFIED"}

OpenForRelease == row.state \in {"DATA_BLOCKED", "HISTORICAL_FAILED"}

\* Mutant: the columns of the previous release's decisions are not reset.
BindKeepingEvidence(r) == [row EXCEPT !.release = r]

\* A new release starts with no decision evidence.
Bind(r) == [row EXCEPT !.release = r, !.historical = None, !.tdx = None, !.paper = None]

RegisterDataRelease(r) ==
    /\ ~Recorded("data_release", r)
    /\ OpenForRelease
    /\ WriteTransition(
           Bind(r),
           IF Ready[r] THEN "DATA_READY" ELSE "DATA_BLOCKED",
           "data_release", r, IF Ready[r] THEN "qualified" ELSE "failed")
    /\ UNCHANGED <<admissions, pending>>

RegisterHistorical(r, h, verdict) ==
    /\ r = row.release
    /\ ~Recorded("historical", h)
    /\ row.state = "DATA_READY"
    /\ verdict \in {"qualified", "failed"}
    /\ WriteTransition(
           [row EXCEPT !.historical = [hash |-> h, verdict |-> verdict]],
           IF verdict = "qualified" THEN "BACKTEST_QUALIFIED" ELSE "HISTORICAL_FAILED",
           "historical", h, verdict)
    /\ UNCHANGED <<admissions, pending>>

RegisterTdx(r, h, verdict) ==
    /\ r = row.release
    /\ ~Recorded("tdx", h)
    /\ row.state = "BACKTEST_QUALIFIED"
    /\ Qualified(row.historical)
    /\ verdict \in {"qualified", "failed"}
    /\ WriteTransition(
           [row EXCEPT !.tdx = [hash |-> h, verdict |-> verdict]],
           IF verdict = "qualified" THEN "BACKTEST_QUALIFIED" ELSE "PAPER_BLOCKED",
           "tdx", h, verdict)
    /\ UNCHANGED <<admissions, pending>>

\* The evidence hash of the paper start is the hash of the three it rests on.
StartHash == <<row.release, row.historical, row.tdx>>

\* Mutant: the release columns of the INSERT are swapped.
EnsureBaseAdmissionSwapped ==
    admissions' = <<[kind |-> "BASE", old |-> row.release, release |-> None]>>

\* The BASE admission of the release that qualified; with a ledger already
\* there, the start is refused unless its head is that release.
EnsureBaseAdmission ==
    IF admissions = <<>>
    THEN admissions' = <<[kind |-> "BASE", old |-> None, release |-> row.release]>>
    ELSE /\ LastOf(admissions).release = row.release
         /\ UNCHANGED admissions

\* Mutant: a TDX decision of any verdict will do.
PaperEvidenceAnyTdx ==
    Ready[row.release] /\ Qualified(row.historical)

PaperEvidence ==
    Ready[row.release] /\ Qualified(row.historical) /\ Qualified(row.tdx)

StartPaperCollection(r) ==
    /\ r = row.release
    /\ PaperEvidence
    /\ ~Recorded("paper_start", StartHash)
    /\ row.state = "BACKTEST_QUALIFIED"
    /\ EnsureBaseAdmission
    /\ WriteTransition(row, "PAPER_COLLECTING", "paper_start", StartHash, "collecting")
    /\ UNCHANGED pending

Collecting == row.state = "PAPER_COLLECTING"

RegisterPaper(r, h, verdict) ==
    /\ r = row.release
    /\ ~Recorded("paper", h)
    /\ Collecting
    /\ WriteTransition(
           [row EXCEPT !.paper = [hash |-> h, verdict |-> verdict]],
           CASE verdict = "qualified"  -> "PAPER_QUALIFIED"
             [] verdict = "failed"     -> "PAPER_BLOCKED"
             [] verdict = "collecting" -> "PAPER_COLLECTING",
           "paper", h, verdict)
    /\ UNCHANGED <<admissions, pending>>

-----------------------------------------------------------------------------
(* Rolling the decision release forward.                                   *)

\* The candidate repeats every certified month of the old release unchanged and
\* appends at least one.
Extends(new, old) ==
    /\ Len(History[new]) > Len(History[old])
    /\ \A i \in DOMAIN History[old] : History[new][i] = History[old][i]

\* An admitter reads the state and the ledger head and verifies its candidate
\* against that head, all without a transaction.
VerifyAdmission(a, candidate) ==
    /\ pending[a] = None
    /\ Ready[candidate]
    /\ row.state \in PaperActive
    /\ admissions # <<>>
    /\ LET head == LastOf(admissions).release IN
       /\ head # candidate
       /\ Catalog[candidate] = Catalog[head]
       /\ Extends(candidate, head)
       /\ pending' = [pending EXCEPT ![a] = [release |-> candidate, head |-> head]]
    /\ UNCHANGED <<row, events, admissions>>

\* Mutant: the lock alone is trusted, the head is not read again.
HeadUnmovedUnchecked(a) == admissions # <<>>

HeadUnmoved(a) ==
    admissions # <<>> /\ LastOf(admissions).release = pending[a].head

\* Under the write lock only the head is compared with the one verified.
CommitAdmission(a) ==
    /\ pending[a] # None
    /\ HeadUnmoved(a)
    /\ admissions' = Append(admissions, [kind |-> "ROLL_FORWARD", old |-> pending[a].head,
                                         release |-> pending[a].release])
    /\ pending' = [pending EXCEPT ![a] = None]
    /\ UNCHANGED <<row, events>>

\* The head moved during verification, verification raised, or the process died.
AbandonAdmission(a) ==
    /\ pending[a] # None
    /\ pending' = [pending EXCEPT ![a] = None]
    /\ UNCHANGED <<row, events, admissions>>

-----------------------------------------------------------------------------
Qualify ==
    \E r \in Releases :
        \/ RegisterDataRelease(r)
        \/ StartPaperCollection(r)
        \/ \E h \in Hashes, verdict \in Verdicts :
              \/ RegisterHistorical(r, h, verdict)
              \/ RegisterTdx(r, h, verdict)
              \/ RegisterPaper(r, h, verdict)

Admit ==
    \E a \in Admitters :
        \/ \E candidate \in Releases : VerifyAdmission(a, candidate)
        \/ CommitAdmission(a)
        \/ AbandonAdmission(a)

Next == Qualify \/ Admit

Spec == Init /\ [][Next]_vars
-----------------------------------------------------------------------------
(* Properties.                                                              *)

Events == [kind : Kinds, verdict : Verdicts, release : Releases, from : States, to : States,
           hash : Releases \cup Hashes
                  \cup (Releases \X (Evidence \cup {None}) \X (Evidence \cup {None}))]

Admissions == [kind : {"BASE", "ROLL_FORWARD"}, old : Releases \cup {None}, release : Releases]

\* The type invariant of the programme database.
TypeOK ==
    /\ row \in [state : States, release : Releases \cup {None}, version : Nat,
                historical : Evidence \cup {None}, tdx : Evidence \cup {None},
                paper : Evidence \cup {None}]
    /\ events \in Seq(Events)
    /\ admissions \in Seq(Admissions)
    /\ pending \in [Admitters -> [release : Releases, head : Releases] \cup {None}]

\* The row is what its log says: the version counts the events, every event
\* starts where the one before it ended, and the last one ends in the row's
\* state (the check _load_row makes before every operation, which refuses all
\* service once it fails).
AuditMatchesRow ==
    /\ row.version = Len(events)
    /\ row.state = IF events = <<>> THEN "DATA_BLOCKED" ELSE LastOf(events).to
    /\ \A i \in DOMAIN events :
          events[i].from = IF i = 1 THEN "DATA_BLOCKED" ELSE events[i - 1].to

\* A piece of evidence is accepted at most once: replaying a call, or replaying
\* it after the row has moved on, never writes a second event.
EvidenceCountsOnce ==
    \A i, j \in DOMAIN events :
        events[i].kind = events[j].kind /\ events[i].hash = events[j].hash => i = j

\* The event i is the one in force for its kind: nothing of that kind, and no
\* new data release, was registered after it.
InForce(i) ==
    \A j \in DOMAIN events :
        j > i => events[j].kind # events[i].kind /\ events[j].kind # "data_release"

\* The column holds the evidence of the event in force, and nothing else.
Replays(column, kind) ==
    /\ column # None =>
          \E i \in DOMAIN events :
              /\ events[i].kind = kind /\ InForce(i)
              /\ events[i].release = row.release
              /\ column = [hash |-> events[i].hash, verdict |-> events[i].verdict]
    /\ column = None => ~\E i \in DOMAIN events : events[i].kind = kind /\ InForce(i)

\* Replaying the log gives back every evidence column of the row, each bound to
\* the row's release: no decision about an earlier release survives a new one.
RowReplaysLog ==
    /\ Replays(row.historical, "historical")
    /\ Replays(row.tdx, "tdx")
    /\ Replays(row.paper, "paper")
    /\ row.release = None <=> events = <<>>

\* Paper only ever runs on a release that is ready and whose own historical and
\* TDX evidence qualified, and its decision lineage starts at that release.
PaperRestsOnEvidence ==
    row.state \in PaperActive =>
        /\ Ready[row.release]
        /\ Qualified(row.historical)
        /\ Qualified(row.tdx)
        /\ admissions # <<>>
        /\ admissions[1].release = row.release

\* The admission ledger is one chain, never a fork, and whatever the admitters'
\* interleaving every release in it repeats the months of every earlier one.
LineageIsOneChain ==
    /\ admissions # <<>> => admissions[1].kind = "BASE"
    /\ \A j \in DOMAIN admissions \ {1} :
          /\ admissions[j].kind = "ROLL_FORWARD"
          /\ admissions[j].old = admissions[j - 1].release
    /\ \A i, j \in DOMAIN admissions :
          i < j => /\ Extends(admissions[j].release, admissions[i].release)
                   /\ Catalog[admissions[j].release] = Catalog[admissions[i].release]

\* Once the lineage exists the release that qualified stays bound for good, and
\* the lineage only grows at its end.
QualifiedReleaseIsFrozen ==
    [][admissions # <<>> =>
          /\ row'.release = row.release
          /\ \A i \in DOMAIN admissions : i \in DOMAIN admissions' /\ admissions'[i] = admissions[i]]_vars

\* A qualified or blocked paper programme is never reopened: no later evidence,
\* release or replay moves the row.
PaperVerdictIsFinal ==
    [][row.state \in {"PAPER_QUALIFIED", "PAPER_BLOCKED"} => row' = row]_vars

-----------------------------------------------------------------------------
(* The gate the rest of the platform sees.                                  *)

GateStage ==
    CASE row.state \in {"DATA_BLOCKED", "DATA_READY", "HISTORICAL_FAILED"} -> "DATA"
      [] row.state = "BACKTEST_QUALIFIED" -> "BACKTEST"
      [] row.state = "PAPER_COLLECTING"   -> "PAPER"
      [] row.state = "PAPER_QUALIFIED"    -> "QUALIFIED"
      [] row.state = "PAPER_BLOCKED"      -> "BLOCKED"

Successors == [old \in Releases |->
                  {new \in Releases : /\ Ready[new]
                                      /\ Catalog[new] = Catalog[old]
                                      /\ Extends(new, old)}]

Gate == INSTANCE QualificationGate WITH
            Follows <- Successors,
            stage <- GateStage,
            bound <- row.release,
            lineage <- [i \in DOMAIN admissions |-> admissions[i].release]

\* The programme implements the gate: whatever is registered, replayed, rejected
\* or raced, seen through its row and its ledger it only ever takes gate steps.
ImplementsGate == Gate!GateSpec
=============================================================================
