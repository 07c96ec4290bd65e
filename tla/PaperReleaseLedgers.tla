------------------------- MODULE PaperReleaseLedgers -------------------------
(***************************************************************************)
(* The programme database and the paper runtime database each keep a ledger *)
(* of admitted PIT releases.  `us-paper admit-release` first appends to the *)
(* programme's ledger and then mirrors that admission into the runtime's;   *)
(* the two commits are not one transaction, the process may die between     *)
(* them, and several operators may run it at once.  `us-paper start`        *)
(* creates the runtime database and `us-paper tick` refuses to run while    *)
(* the two heads differ.                                                    *)
(***************************************************************************)
EXTENDS USProgram

CONSTANT Workers       \* processes that run `us-paper tick`

ASSUME AdmissionAssumption == None \notin Admissions

VARIABLES
    file,              \* the runtime database: absent, created, or bound
    starter,           \* the release a running `us-paper start` binds
    ledger,            \* the table us_paper_runtime_release_admissions
    mirroring,         \* the admission each admitter still has to mirror
    ticking,           \* the programme head or binding each worker has read
    periods            \* releases that monthly decisions were taken from

ledgerVars == <<file, starter, ledger, mirroring, ticking, periods>>
allVars == <<vars, ledgerVars>>

LedgersInit ==
    /\ Init
    /\ file = "absent"
    /\ starter = None
    /\ ledger = <<>>
    /\ mirroring = [a \in Admitters |-> None]
    /\ ticking = [w \in Workers |-> None]
    /\ periods = {}

-----------------------------------------------------------------------------
(* us-paper start                                                          *)

\* The schema script commits on its own and so creates the file.
CreateRuntime ==
    /\ row.state = "PAPER_COLLECTING"
    /\ file = "absent"
    /\ file' = "created"
    /\ starter' = row.release
    /\ UNCHANGED <<vars, ledger, mirroring, ticking, periods>>

\* The binding row and the BASE admission are one transaction.
BindRuntime ==
    /\ starter # None
    /\ file' = "bound"
    /\ ledger' = <<[kind |-> "BASE", old |-> None, release |-> starter]>>
    /\ starter' = None
    /\ UNCHANGED <<vars, mirroring, ticking, periods>>

CrashStart ==
    /\ starter # None
    /\ starter' = None
    /\ UNCHANGED <<vars, file, ledger, mirroring, ticking, periods>>

-----------------------------------------------------------------------------
(* us-paper admit-release                                                  *)

\* The programme commits; the process holds the admission it has to mirror.
CommitThenHold(a) ==
    /\ CommitAdmission(a)
    /\ mirroring' = [mirroring EXCEPT ![a] = LastOf(admissions')]
    /\ UNCHANGED <<file, starter, ledger, ticking, periods>>

\* Mutant: a retry mirrors the oldest admission the runtime lacks.
RetriedAdmissionOldest ==
    admissions[IF Len(ledger) < Len(admissions) THEN Len(ledger) + 1 ELSE Len(admissions)]

\* A retry for the release already at the head gets that admission back.
RetriedAdmission == LastOf(admissions)

RetryAdmission(a) ==
    /\ pending[a] = None /\ mirroring[a] = None
    /\ row.state \in PaperActive
    /\ mirroring' = [mirroring EXCEPT ![a] = RetriedAdmission]
    /\ UNCHANGED <<vars, file, starter, ledger, ticking, periods>>

\* Mutant: the mirrored admission is appended whatever the runtime's head is.
ExtendsRuntimeUnchecked(admission) ==
    admission.kind = "ROLL_FORWARD" /\ LastOf(ledger).release # admission.release

\* Mutant: the admission is compared with the runtime's first one, not its head.
ExtendsRuntimeBase(admission) ==
    /\ admission.kind = "ROLL_FORWARD"
    /\ LastOf(ledger).release # admission.release
    /\ ledger[1].release = admission.old

ExtendsRuntime(admission) ==
    /\ admission.kind = "ROLL_FORWARD"
    /\ LastOf(ledger).release # admission.release
    /\ LastOf(ledger).release = admission.old

\* An admission the runtime has at its head is answered, any other that does not
\* extend its head is refused; the process ends either way.
MirrorAdmission(a) ==
    /\ mirroring[a] # None
    /\ ledger' = IF file = "bound" /\ ExtendsRuntime(mirroring[a])
                 THEN Append(ledger, mirroring[a])
                 ELSE ledger
    /\ mirroring' = [mirroring EXCEPT ![a] = None]
    /\ UNCHANGED <<vars, file, starter, ticking, periods>>

\* The process dies between the two databases.
CrashBeforeMirror(a) ==
    /\ mirroring[a] # None
    /\ mirroring' = [mirroring EXCEPT ![a] = None]
    /\ UNCHANGED <<vars, file, starter, ledger, ticking, periods>>

-----------------------------------------------------------------------------
(* us-paper tick                                                           *)

ReadProgramHead(w) ==
    /\ ticking[w] = None
    /\ row.state = "PAPER_COLLECTING"
    /\ ticking' = [ticking EXCEPT ![w] = [step |-> "program", release |-> LastOf(admissions).release]]
    /\ UNCHANGED <<vars, file, starter, ledger, mirroring, periods>>

\* Mutant: the decision is bound to the programme's head without comparing.
SameHeadUnchecked(release) == file = "bound"

SameHead(release) == file = "bound" /\ LastOf(ledger).release = release

\* ADMITTED_RELEASE_LEDGER_OUT_OF_SYNC ends the tick.
CompareRuntimeHead(w) ==
    /\ ticking[w] # None /\ ticking[w].step = "program"
    /\ ticking' = [ticking EXCEPT ![w] =
                      IF SameHead(@.release) THEN [step |-> "synced", release |-> @.release]
                                             ELSE None]
    /\ UNCHANGED <<vars, file, starter, ledger, mirroring, periods>>

\* On a month-end the tick creates a period bound to that release.
TakeDecision(w) ==
    /\ ticking[w] # None /\ ticking[w].step = "synced"
    /\ \/ periods' = periods \cup {ticking[w].release}
       \/ periods' = periods
    /\ ticking' = [ticking EXCEPT ![w] = None]
    /\ UNCHANGED <<vars, file, starter, ledger, mirroring>>

-----------------------------------------------------------------------------
ProgramStep ==
    /\ \/ Qualify
       \/ \E a \in Admitters :
             /\ mirroring[a] = None
             /\ \/ AbandonAdmission(a)
                \/ \E candidate \in Releases : VerifyAdmission(a, candidate)
    /\ UNCHANGED ledgerVars

LedgersNext ==
    \/ ProgramStep
    \/ CreateRuntime \/ BindRuntime \/ CrashStart
    \/ \E a \in Admitters : \/ CommitThenHold(a) \/ RetryAdmission(a)
                            \/ MirrorAdmission(a) \/ CrashBeforeMirror(a)
    \/ \E w \in Workers : ReadProgramHead(w) \/ CompareRuntimeHead(w) \/ TakeDecision(w)

LedgersSpec == LedgersInit /\ [][LedgersNext]_allVars

\* A verification under way ends, in a commit or not.
EndVerification(a) ==
    \/ CommitThenHold(a)
    \/ mirroring[a] = None /\ AbandonAdmission(a) /\ UNCHANGED ledgerVars

\* The assumption about the operators: one whose admit-release ended without
\* PAPER_RELEASE_ADMITTED runs it again for the release at the head, and not
\* every run dies before it has mirrored.
Retried ==
    \A a \in Admitters :
        /\ WF_allVars(EndVerification(a))
        /\ SF_allVars(RetryAdmission(a))
        /\ SF_allVars(MirrorAdmission(a))

FairLedgersSpec == LedgersSpec /\ Retried

-----------------------------------------------------------------------------
LedgersTypeOK ==
    /\ TypeOK
    /\ file \in {"absent", "created", "bound"}
    /\ starter \in Releases \cup {None}
    /\ ledger \in Seq(Admissions)
    /\ mirroring \in [Admitters -> Admissions \cup {None}]
    /\ ticking \in [Workers -> [step : {"program", "synced"}, release : Releases] \cup {None}]
    /\ periods \subseteq Releases

\* However the processes interleave and die, the runtime's ledger is an initial
\* part of the programme's: it never forks, skips or invents an admission.
RuntimeFollowsProgram ==
    /\ Len(ledger) <= Len(admissions)
    /\ \A i \in DOMAIN ledger : ledger[i] = admissions[i]

\* Every monthly period is bound to a release both ledgers admit, so a tick never
\* blocks itself with UNADMITTED_PERIOD_RELEASE.
PeriodsAreAdmitted ==
    periods \subseteq {ledger[i].release : i \in DOMAIN ledger}

InSync == file = "bound" /\ LastOf(ledger).release = LastOf(admissions).release

\* The next admission the runtime needs is no longer the programme's head and no
\* process holds it.
Stranded ==
    /\ Len(ledger) + 1 < Len(admissions)
    /\ \A a \in Admitters : mirroring[a] # admissions[Len(ledger) + 1]

\* Stranded ledgers stay stranded: a retry hands out the programme's head only, so
\* no call ever supplies the missing admission and no tick runs again.
StrandedForGood ==
    [][file = "bound" /\ Stranded => Stranded']_allVars

\* Retrying heals every other divergence: unless it is stranded, the paper run
\* ended or the runtime was never bound, the ledgers agree again.
RetryHeals ==
    []<>(InSync \/ Stranded \/ row.state \notin PaperActive \/ file # "bound")

=============================================================================
