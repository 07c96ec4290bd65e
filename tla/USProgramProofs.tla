--------------------------- MODULE USProgramProofs ---------------------------
(***************************************************************************)
(* What the lifecycle gate guarantees for every set of releases, evidence   *)
(* hashes and concurrent admitters: its invariants, its action properties   *)
(* and that it implements QualificationGate.                                *)
(***************************************************************************)
EXTENDS USProgram, TLAPS

-----------------------------------------------------------------------------
(* The tables.                                                              *)

\* The head of a table that is not empty is one of its entries.
LEMMA LastOfTable ==
    ASSUME NEW S, NEW table \in Seq(S), table # <<>>
    PROVE  /\ LastOf(table) \in S
           /\ Len(table) \in DOMAIN table
           /\ Len(table) \in Nat \ {0}
  <1>1. Len(table) \in Nat \ {0} /\ DOMAIN table = 1..Len(table)
    OBVIOUS
  <1>2. table[Len(table)] \in S
    BY <1>1
  <1>. QED
    BY <1>1, <1>2 DEF LastOf

-----------------------------------------------------------------------------
(* Type correctness.                                                        *)

\* The keys of evidence in the log.
EvidenceKeys == Releases \cup Hashes
                \cup (Releases \X (Evidence \cup {None}) \X (Evidence \cup {None}))

BoundRows == [state : States, release : Releases, version : Nat,
              historical : Evidence \cup {None}, tdx : Evidence \cup {None},
              paper : Evidence \cup {None}]

\* Whatever is registered is one event whose evidence the log did not hold.
LEMMA QualifyWrites ==
    ASSUME TypeOK, Qualify
    PROVE  \E columns \in BoundRows, target \in States, kind \in Kinds,
              hash \in EvidenceKeys, verdict \in Verdicts :
                /\ WriteTransition(columns, target, kind, hash, verdict)
                /\ ~Recorded(kind, hash)
  <1>. USE DEF TypeOK, BoundRows, EvidenceKeys
  <1>1. ASSUME NEW r \in Releases, RegisterDataRelease(r)
        PROVE  \E columns \in BoundRows, target \in States, verdict \in Verdicts :
                  /\ WriteTransition(columns, target, "data_release", r, verdict)
                  /\ ~Recorded("data_release", r)
    <2>1. Bind(r) \in BoundRows
      BY DEF Bind
    <2>. QED
      BY <1>1, <2>1 DEF RegisterDataRelease, States, Verdicts
  <1>2. ASSUME NEW r \in Releases, StartPaperCollection(r)
        PROVE  /\ row \in BoundRows /\ StartHash \in EvidenceKeys
               /\ WriteTransition(row, "PAPER_COLLECTING", "paper_start", StartHash, "collecting")
               /\ ~Recorded("paper_start", StartHash)
    BY <1>2 DEF StartPaperCollection, StartHash
  <1>3. ASSUME NEW r \in Releases, NEW h \in Hashes, NEW verdict \in Verdicts,
               RegisterHistorical(r, h, verdict)
        PROVE  \E columns \in BoundRows, target \in States :
                  /\ WriteTransition(columns, target, "historical", h, verdict)
                  /\ ~Recorded("historical", h)
    <2>1. [row EXCEPT !.historical = [hash |-> h, verdict |-> verdict]] \in BoundRows
      BY <1>3 DEF RegisterHistorical, Evidence
    <2>. QED
      BY <1>3, <2>1 DEF RegisterHistorical, States
  <1>4. ASSUME NEW r \in Releases, NEW h \in Hashes, NEW verdict \in Verdicts,
               RegisterTdx(r, h, verdict)
        PROVE  \E columns \in BoundRows, target \in States :
                  /\ WriteTransition(columns, target, "tdx", h, verdict)
                  /\ ~Recorded("tdx", h)
    <2>1. [row EXCEPT !.tdx = [hash |-> h, verdict |-> verdict]] \in BoundRows
      BY <1>4 DEF RegisterTdx, Evidence
    <2>. QED
      BY <1>4, <2>1 DEF RegisterTdx, States
  <1>5. ASSUME NEW r \in Releases, NEW h \in Hashes, NEW verdict \in Verdicts,
               RegisterPaper(r, h, verdict)
        PROVE  \E columns \in BoundRows, target \in States :
                  /\ WriteTransition(columns, target, "paper", h, verdict)
                  /\ ~Recorded("paper", h)
    <2>1. [row EXCEPT !.paper = [hash |-> h, verdict |-> verdict]] \in BoundRows
      BY <1>5 DEF RegisterPaper, Evidence
    <2>. QED
      BY <1>5, <2>1 DEF RegisterPaper, States, Verdicts
  <1>6. /\ "data_release" \in Kinds /\ "historical" \in Kinds /\ "tdx" \in Kinds
        /\ "paper_start" \in Kinds /\ "paper" \in Kinds
        /\ "PAPER_COLLECTING" \in States /\ "collecting" \in Verdicts
    BY DEF Kinds, States, Verdicts
  <1>. QED
    BY <1>1, <1>2, <1>3, <1>4, <1>5, <1>6 DEF Qualify

\* Such a write keeps the types of the row and of the log.
LEMMA TransitionType ==
    ASSUME TypeOK,
           NEW columns \in BoundRows, NEW target \in States, NEW kind \in Kinds,
           NEW hash \in EvidenceKeys, NEW verdict \in Verdicts,
           WriteTransition(columns, target, kind, hash, verdict)
    PROVE  /\ row' \in BoundRows
           /\ events' \in Seq(Events)
  <1>1. row' \in BoundRows
    <2>1. row' = [columns EXCEPT !.state = target, !.version = row.version + 1]
      BY DEF WriteTransition
    <2>2. row.version + 1 \in Nat
      BY DEF TypeOK
    <2>. QED
      BY <2>1, <2>2 DEF BoundRows
  <1>2. [kind |-> kind, hash |-> hash, verdict |-> verdict, release |-> columns.release,
         from |-> row.state, to |-> target] \in Events
    BY DEF TypeOK, Events, EvidenceKeys, BoundRows
  <1>3. events' \in Seq(Events)
    BY <1>2 DEF WriteTransition, TypeOK
  <1>. QED
    BY <1>1, <1>3

\* Only the start of paper touches the admissions: it finds the release at their
\* head, or makes it their base.
LEMMA QualifyAdmissions ==
    ASSUME TypeOK, Qualify
    PROVE  /\ UNCHANGED pending
           /\ \/ UNCHANGED admissions
              \/ /\ row.state = "BACKTEST_QUALIFIED" /\ row'.state = "PAPER_COLLECTING"
                 /\ admissions = <<>>
                 /\ row'.release = row.release /\ row.release \in Releases
                 /\ admissions' = <<[kind |-> "BASE", old |-> None, release |-> row.release]>>
  <1>1. ASSUME NEW r \in Releases, StartPaperCollection(r), ~UNCHANGED admissions
        PROVE  /\ row.state = "BACKTEST_QUALIFIED" /\ row'.state = "PAPER_COLLECTING"
               /\ admissions = <<>>
               /\ row'.release = row.release /\ row.release \in Releases
               /\ admissions' = <<[kind |-> "BASE", old |-> None, release |-> row.release]>>
    BY <1>1 DEF StartPaperCollection, EnsureBaseAdmission, WriteTransition, TypeOK
  <1>. QED
    BY <1>1 DEF Qualify, RegisterDataRelease, StartPaperCollection, RegisterHistorical,
                RegisterTdx, RegisterPaper

\* Every registration keeps the types.
LEMMA QualifyType ==
    ASSUME TypeOK, Qualify
    PROVE  TypeOK'
  <1>1. row' \in BoundRows /\ events' \in Seq(Events)
    BY QualifyWrites, TransitionType
  <1>2. admissions' \in Seq(Admissions)
    <2>1. CASE UNCHANGED admissions
      BY <2>1 DEF TypeOK
    <2>2. CASE /\ row.release \in Releases
               /\ admissions' = <<[kind |-> "BASE", old |-> None, release |-> row.release]>>
      <3>1. [kind |-> "BASE", old |-> None, release |-> row.release] \in Admissions
        BY <2>2 DEF Admissions
      <3>2. \A e \in Admissions : <<e>> \in Seq(Admissions)
        OBVIOUS
      <3>. QED
        BY <2>2, <3>1, <3>2
    <2>. QED
      BY <2>1, <2>2, QualifyAdmissions
  <1>3. pending' \in [Admitters -> [release : Releases, head : Releases] \cup {None}]
    BY QualifyAdmissions DEF TypeOK
  <1>. QED
    BY <1>1, <1>2, <1>3 DEF TypeOK, BoundRows

\* Every step of an admitter keeps the types.
LEMMA AdmitType ==
    ASSUME TypeOK, Admit
    PROVE  TypeOK'
  <1>. USE DEF TypeOK
  <1>1. ASSUME NEW a \in Admitters, NEW candidate \in Releases, VerifyAdmission(a, candidate)
        PROVE  TypeOK'
    <2>1. LastOf(admissions).release \in Releases
      <3>1. LastOf(admissions) \in Admissions
        BY <1>1, LastOfTable DEF VerifyAdmission
      <3>. QED
        BY <3>1 DEF Admissions
    <2>2. pending' = [pending EXCEPT ![a] = [release |-> candidate, head |-> LastOf(admissions).release]]
      BY <1>1 DEF VerifyAdmission
    <2>3. pending' \in [Admitters -> [release : Releases, head : Releases] \cup {None}]
      BY <2>1, <2>2
    <2>. QED
      BY <1>1, <2>3 DEF VerifyAdmission
  <1>2. ASSUME NEW a \in Admitters, CommitAdmission(a)
        PROVE  TypeOK'
    <2>1. [kind |-> "ROLL_FORWARD", old |-> pending[a].head, release |-> pending[a].release]
             \in Admissions
      BY <1>2 DEF CommitAdmission, Admissions
    <2>. QED
      BY <1>2, <2>1 DEF CommitAdmission
  <1>3. ASSUME NEW a \in Admitters, AbandonAdmission(a)
        PROVE  TypeOK'
    BY <1>3 DEF AbandonAdmission
  <1>. QED
    BY <1>1, <1>2, <1>3 DEF Admit

\* The empty programme is well typed.
LEMMA InitType == Init => TypeOK
  BY DEF Init, TypeOK, States

\* Every step keeps the types.
LEMMA NextType == TypeOK /\ [Next]_vars => TypeOK'
  <1>1. ASSUME TypeOK, UNCHANGED vars
        PROVE  TypeOK'
    BY <1>1 DEF TypeOK, vars
  <1>. QED
    BY <1>1, QualifyType, AdmitType DEF Next

\* The tables of the programme keep their columns' types in every reachable state.
THEOREM TypeCorrect == Spec => []TypeOK
  BY InitType, NextType, PTL DEF Spec
-----------------------------------------------------------------------------
(* The audit log explains the row.                                          *)

\* What a write leaves of the log: one entry more, the others as they were.
LEMMA WriteAppends ==
    ASSUME TypeOK, NEW columns, NEW target, NEW kind, NEW hash, NEW verdict,
           WriteTransition(columns, target, kind, hash, verdict)
    PROVE  /\ Len(events) \in Nat /\ Len(events') = Len(events) + 1
           /\ DOMAIN events = 1..Len(events) /\ DOMAIN events' = 1..(Len(events) + 1)
           /\ \A i \in 1..Len(events) : events'[i] = events[i]
           /\ events'[Len(events) + 1].kind = kind
           /\ events'[Len(events) + 1].hash = hash
           /\ events'[Len(events) + 1].verdict = verdict
           /\ events'[Len(events) + 1].release = columns.release
           /\ events'[Len(events) + 1].from = row.state
           /\ events'[Len(events) + 1].to = target
  <1>1. events \in Seq(Events)
    BY DEF TypeOK
  <1>2. events'[Len(events) + 1] =
           [kind |-> kind, hash |-> hash, verdict |-> verdict,
            release |-> columns.release, from |-> row.state, to |-> target]
    BY <1>1 DEF WriteTransition
  <1>. QED
    BY <1>1, <1>2 DEF WriteTransition

\* An empty log explains the initial row.
LEMMA InitAudit == Init => AuditMatchesRow /\ EvidenceCountsOnce
  BY DEF Init, AuditMatchesRow, EvidenceCountsOnce

\* A registration moves the row and appends the event that explains the move.
LEMMA QualifyAudit ==
    ASSUME TypeOK, AuditMatchesRow, Qualify
    PROVE  AuditMatchesRow'
  <1>1. PICK columns \in BoundRows, target \in States, kind \in Kinds,
             hash \in EvidenceKeys, verdict \in Verdicts :
                WriteTransition(columns, target, kind, hash, verdict)
    BY QualifyWrites
  <1>2. row'.version = row.version + 1 /\ row'.state = target
    BY <1>1 DEF WriteTransition, BoundRows
  <1>3. /\ Len(events) \in Nat /\ Len(events') = Len(events) + 1
        /\ DOMAIN events = 1..Len(events) /\ DOMAIN events' = 1..(Len(events) + 1)
        /\ \A i \in 1..Len(events) : events'[i] = events[i]
        /\ events'[Len(events) + 1].from = row.state
        /\ events'[Len(events) + 1].to = target
    BY <1>1, WriteAppends
  <1>4. row'.version = Len(events')
    BY <1>2, <1>3 DEF AuditMatchesRow
  <1>5. events' # <<>> /\ LastOf(events)'.to = target
    BY <1>3 DEF LastOf
  <1>6. ASSUME NEW i \in DOMAIN events'
        PROVE  events'[i].from = IF i = 1 THEN "DATA_BLOCKED" ELSE events'[i - 1].to
    <2>1. CASE i \in 1..Len(events)
      <3>1. events'[i] = events[i] /\ (i # 1 => events'[i - 1] = events[i - 1])
        BY <2>1, <1>3
      <3>. QED
        BY <2>1, <3>1, <1>3 DEF AuditMatchesRow
    <2>2. CASE i = Len(events) + 1 /\ i # 1
      <3>1. /\ events # <<>> /\ i - 1 \in 1..Len(events) /\ i - 1 = Len(events)
        BY <2>2, <1>3
      <3>. QED
        BY <2>2, <3>1, <1>3 DEF AuditMatchesRow, LastOf
    <2>3. CASE i = 1 /\ Len(events) = 0
      <3>1. events = <<>>
        BY <2>3, <1>3 DEF TypeOK
      <3>. QED
        BY <2>3, <3>1, <1>3 DEF AuditMatchesRow
    <2>. QED
      BY <2>1, <2>2, <2>3, <1>3
  <1>. QED
    BY <1>2, <1>4, <1>5, <1>6 DEF AuditMatchesRow

\* A registration writes evidence the whole log did not hold.
LEMMA QualifyOnce ==
    ASSUME TypeOK, EvidenceCountsOnce, Qualify
    PROVE  EvidenceCountsOnce'
  <1>1. PICK columns \in BoundRows, target \in States, kind \in Kinds,
             hash \in EvidenceKeys, verdict \in Verdicts :
                /\ WriteTransition(columns, target, kind, hash, verdict)
                /\ ~Recorded(kind, hash)
    BY QualifyWrites
  <1>2. /\ Len(events) \in Nat
        /\ DOMAIN events = 1..Len(events) /\ DOMAIN events' = 1..(Len(events) + 1)
        /\ \A i \in 1..Len(events) : events'[i] = events[i]
        /\ events'[Len(events) + 1].kind = kind
        /\ events'[Len(events) + 1].hash = hash
    BY <1>1, WriteAppends
  <1>3. \A i \in 1..Len(events) : ~(events[i].kind = kind /\ events[i].hash = hash)
    BY <1>1, <1>2 DEF Recorded
  <1>. QED
    BY <1>2, <1>3 DEF EvidenceCountsOnce

\* The admitters never touch the row or the log.
LEMMA AdmitKeepsRow == Admit => UNCHANGED <<row, events>>
  BY DEF Admit, VerifyAdmission, CommitAdmission, AbandonAdmission

\* Every step keeps the log exact and its evidence unique.
LEMMA NextAudit ==
    TypeOK /\ AuditMatchesRow /\ EvidenceCountsOnce /\ [Next]_vars
        => AuditMatchesRow' /\ EvidenceCountsOnce'
  <1>1. ASSUME AuditMatchesRow, EvidenceCountsOnce, UNCHANGED <<row, events>>
        PROVE  AuditMatchesRow' /\ EvidenceCountsOnce'
    BY <1>1 DEF AuditMatchesRow, EvidenceCountsOnce, LastOf
  <1>. QED
    BY <1>1, QualifyAudit, QualifyOnce, AdmitKeepsRow DEF Next, vars

\* In every reachable state the log explains the row: the consistency check that
\* _load_row makes before each operation cannot fail on what the programme wrote.
THEOREM AuditIsExact == Spec => []AuditMatchesRow
  BY InitType, NextType, InitAudit, NextAudit, PTL DEF Spec

\* No piece of evidence is ever accepted twice, however often a call is repeated.
THEOREM EvidenceOnce == Spec => []EvidenceCountsOnce
  BY InitType, NextType, InitAudit, NextAudit, PTL DEF Spec
-----------------------------------------------------------------------------
(* Paper and the release it rests on.                                       *)

\* The strengthening that is inductive: a lineage is only there once paper has
\* started, so that no registration that moves the bound release or its evidence
\* is open any more; and until then a release ready for its replay is Ready.
PaperBinding ==
    /\ PaperRestsOnEvidence
    /\ admissions # <<>> =>
          /\ row.state \in PaperActive \cup {"PAPER_BLOCKED"}
          /\ admissions[1].release = row.release
    /\ row.state = "DATA_READY" => row.release \in Releases /\ Ready[row.release]

\* Nothing is bound at the start.
LEMMA InitPaper == Init => PaperBinding
  BY DEF Init, PaperBinding, PaperRestsOnEvidence, PaperActive

\* The row after a write: its state is the target, its other columns the caller's.
LEMMA WriteRow ==
    ASSUME NEW columns \in BoundRows, NEW target, NEW kind, NEW hash, NEW verdict,
           WriteTransition(columns, target, kind, hash, verdict)
    PROVE  /\ row'.state = target
           /\ row'.release = columns.release
           /\ row'.historical = columns.historical
           /\ row'.tdx = columns.tdx
           /\ row'.paper = columns.paper
  BY DEF WriteTransition, BoundRows

\* Every registration keeps the binding of paper to its evidence.
LEMMA QualifyPaper ==
    ASSUME TypeOK, PaperBinding, Qualify
    PROVE  PaperBinding'
  <1>. USE DEF PaperBinding, PaperRestsOnEvidence, PaperActive
  <1>1. ASSUME NEW r \in Releases, RegisterDataRelease(r)
        PROVE  PaperBinding'
    <2>1. Bind(r) \in BoundRows /\ Bind(r).release = r
      BY DEF Bind, BoundRows, TypeOK
    <2>2. row'.state = (IF Ready[r] THEN "DATA_READY" ELSE "DATA_BLOCKED") /\ row'.release = r
      BY <1>1, <2>1, WriteRow DEF RegisterDataRelease
    <2>3. admissions' = <<>>
      BY <1>1 DEF RegisterDataRelease, OpenForRelease
    <2>. QED
      BY <2>2, <2>3
  <1>2. ASSUME NEW r \in Releases, NEW h \in Hashes, NEW verdict \in Verdicts,
               RegisterHistorical(r, h, verdict)
        PROVE  PaperBinding'
    <2>1. [row EXCEPT !.historical = [hash |-> h, verdict |-> verdict]] \in BoundRows
      BY <1>2 DEF RegisterHistorical, Evidence, BoundRows, TypeOK
    <2>2. row'.state \in {"BACKTEST_QUALIFIED", "HISTORICAL_FAILED"}
      BY <1>2, <2>1, WriteRow DEF RegisterHistorical
    <2>3. admissions' = <<>>
      BY <1>2 DEF RegisterHistorical
    <2>. QED
      BY <2>2, <2>3
  <1>3. ASSUME NEW r \in Releases, NEW h \in Hashes, NEW verdict \in Verdicts,
               RegisterTdx(r, h, verdict)
        PROVE  PaperBinding'
    <2>1. [row EXCEPT !.tdx = [hash |-> h, verdict |-> verdict]] \in BoundRows
      BY <1>3 DEF RegisterTdx, Evidence, BoundRows, TypeOK
    <2>2. row'.state \in {"BACKTEST_QUALIFIED", "PAPER_BLOCKED"}
      BY <1>3, <2>1, WriteRow DEF RegisterTdx
    <2>3. admissions' = <<>>
      BY <1>3 DEF RegisterTdx
    <2>. QED
      BY <2>2, <2>3
  <1>4. ASSUME NEW r \in Releases, StartPaperCollection(r)
        PROVE  PaperBinding'
    <2>1. row \in BoundRows
      BY <1>4 DEF StartPaperCollection, BoundRows, TypeOK
    <2>2. /\ row'.state = "PAPER_COLLECTING" /\ row'.release = row.release
          /\ row'.historical = row.historical /\ row'.tdx = row.tdx
      BY <1>4, <2>1, WriteRow DEF StartPaperCollection
    <2>3. admissions' = <<[kind |-> "BASE", old |-> None, release |-> row.release]>>
      BY <1>4 DEF StartPaperCollection, EnsureBaseAdmission
    <2>. QED
      BY <1>4, <2>2, <2>3 DEF StartPaperCollection, PaperEvidence, Qualified
  <1>5. ASSUME NEW r \in Releases, NEW h \in Hashes, NEW verdict \in Verdicts,
               RegisterPaper(r, h, verdict)
        PROVE  PaperBinding'
    <2>1. LET columns == [row EXCEPT !.paper = [hash |-> h, verdict |-> verdict]]
          IN  /\ columns \in BoundRows
              /\ columns.release = row.release /\ columns.historical = row.historical
              /\ columns.tdx = row.tdx
      BY <1>5 DEF RegisterPaper, Evidence, BoundRows, TypeOK
    <2>2. /\ row'.state \in PaperActive \cup {"PAPER_BLOCKED"} /\ row'.release = row.release
          /\ row'.historical = row.historical /\ row'.tdx = row.tdx
      BY <1>5, <2>1, WriteRow DEF RegisterPaper, Verdicts
    <2>3. UNCHANGED admissions /\ row.state = "PAPER_COLLECTING"
      BY <1>5 DEF RegisterPaper, Collecting
    <2>. QED
      BY <2>2, <2>3 DEF Qualified
  <1>. QED
    BY <1>1, <1>2, <1>3, <1>4, <1>5 DEF Qualify

\* An admission leaves the first one where it is.
LEMMA AdmitAppends ==
    ASSUME TypeOK, Admit
    PROVE  \/ UNCHANGED admissions
           \/ \E a \in Admitters :
                 /\ CommitAdmission(a)
                 /\ admissions # <<>> /\ admissions' # <<>> /\ Len(admissions) \in Nat \ {0}
                 /\ DOMAIN admissions = 1..Len(admissions)
                 /\ DOMAIN admissions' = 1..(Len(admissions) + 1)
                 /\ \A i \in 1..Len(admissions) : admissions'[i] = admissions[i]
                 /\ admissions'[Len(admissions) + 1] =
                       [kind |-> "ROLL_FORWARD", old |-> pending[a].head,
                        release |-> pending[a].release]
  <1>1. ASSUME NEW a \in Admitters, CommitAdmission(a)
        PROVE  /\ admissions # <<>> /\ admissions' # <<>> /\ Len(admissions) \in Nat \ {0}
               /\ DOMAIN admissions = 1..Len(admissions)
               /\ DOMAIN admissions' = 1..(Len(admissions) + 1)
               /\ \A i \in 1..Len(admissions) : admissions'[i] = admissions[i]
               /\ admissions'[Len(admissions) + 1] =
                     [kind |-> "ROLL_FORWARD", old |-> pending[a].head,
                      release |-> pending[a].release]
    <2>1. admissions \in Seq(Admissions) /\ admissions # <<>>
      BY <1>1 DEF TypeOK, CommitAdmission, HeadUnmoved
    <2>. QED
      BY <1>1, <2>1 DEF CommitAdmission
  <1>. QED
    BY <1>1 DEF Admit, VerifyAdmission, AbandonAdmission

\* So does every step of an admitter: the first admission stays what it is.
LEMMA AdmitPaper ==
    ASSUME TypeOK, PaperBinding, Admit
    PROVE  PaperBinding'
  <1>1. UNCHANGED row
    BY AdmitKeepsRow
  <1>2. UNCHANGED admissions
        \/ (admissions # <<>> /\ admissions' # <<>> /\ admissions'[1] = admissions[1])
    <2>1. ASSUME ~UNCHANGED admissions
          PROVE  admissions # <<>> /\ admissions' # <<>> /\ admissions'[1] = admissions[1]
      <3>1. PICK a \in Admitters :
               /\ admissions # <<>> /\ admissions' # <<>> /\ Len(admissions) \in Nat \ {0}
               /\ \A i \in 1..Len(admissions) : admissions'[i] = admissions[i]
        BY <2>1, AdmitAppends
      <3>. QED
        BY <3>1
    <2>. QED
      BY <2>1
  <1>. QED
    BY <1>1, <1>2 DEF PaperBinding, PaperRestsOnEvidence, PaperActive, Qualified

\* Every step keeps the binding of paper to its evidence.
LEMMA NextPaper == TypeOK /\ PaperBinding /\ [Next]_vars => PaperBinding'
  <1>1. ASSUME PaperBinding, UNCHANGED vars
        PROVE  PaperBinding'
    BY <1>1 DEF PaperBinding, PaperRestsOnEvidence, PaperActive, Qualified, vars
  <1>. QED
    BY <1>1, QualifyPaper, AdmitPaper DEF Next

\* Paper runs only on a release that is ready and whose own historical and TDX
\* evidence qualified, and its decision lineage starts at that release.
THEOREM PaperOnEvidence == Spec => []PaperRestsOnEvidence
  <1>1. PaperBinding => PaperRestsOnEvidence
    BY DEF PaperBinding
  <1>. QED
    BY <1>1, InitType, NextType, InitPaper, NextPaper, PTL DEF Spec
-----------------------------------------------------------------------------
(* The bound release and the verdict stay.                                  *)

\* From the first admission on the bound release never changes and the ledger only
\* grows at its end.
THEOREM ReleaseStaysBound == Spec => QualifiedReleaseIsFrozen
  <1>1. ASSUME TypeOK, PaperBinding, PaperBinding', [Next]_vars, admissions # <<>>
        PROVE  /\ row'.release = row.release
               /\ \A i \in DOMAIN admissions :
                     i \in DOMAIN admissions' /\ admissions'[i] = admissions[i]
    <2>1. CASE UNCHANGED vars
      BY <2>1 DEF vars
    <2>2. CASE Qualify
      <3>1. UNCHANGED admissions
        BY <1>1, <2>2, QualifyAdmissions
      <3>. QED
        BY <1>1, <3>1 DEF PaperBinding
    <2>3. CASE Admit
      <3>1. UNCHANGED row
        BY <2>3, AdmitKeepsRow
      <3>2. ASSUME ~UNCHANGED admissions
            PROVE  \A i \in DOMAIN admissions :
                      i \in DOMAIN admissions' /\ admissions'[i] = admissions[i]
        <4>1. PICK a \in Admitters :
                 /\ Len(admissions) \in Nat \ {0}
                 /\ DOMAIN admissions = 1..Len(admissions)
                 /\ DOMAIN admissions' = 1..(Len(admissions) + 1)
                 /\ \A i \in 1..Len(admissions) : admissions'[i] = admissions[i]
          BY <1>1, <2>3, <3>2, AdmitAppends
        <4>. QED
          BY <4>1
      <3>. QED
        BY <3>1, <3>2
    <2>. QED
      BY <1>1, <2>1, <2>2, <2>3 DEF Next
  <1>2. TypeOK /\ PaperBinding /\ PaperBinding' /\ [Next]_vars =>
           [admissions # <<>> =>
              /\ row'.release = row.release
              /\ \A i \in DOMAIN admissions :
                    i \in DOMAIN admissions' /\ admissions'[i] = admissions[i]]_vars
    BY <1>1
  <1>. QED
    BY <1>2, InitType, NextType, InitPaper, NextPaper, PTL DEF Spec, QualifiedReleaseIsFrozen

\* A qualified or a blocked programme is never moved again.
THEOREM VerdictStays == Spec => PaperVerdictIsFinal
  <1>1. ASSUME [Next]_vars, row.state \in {"PAPER_QUALIFIED", "PAPER_BLOCKED"}
        PROVE  row' = row
    <2>1. ~Qualify
      BY <1>1 DEF Qualify, RegisterDataRelease, OpenForRelease, StartPaperCollection,
                  RegisterHistorical, RegisterTdx, RegisterPaper, Collecting
    <2>. QED
      BY <1>1, <2>1, AdmitKeepsRow DEF Next, vars
  <1>2. [Next]_vars =>
           [row.state \in {"PAPER_QUALIFIED", "PAPER_BLOCKED"} => row' = row]_vars
    BY <1>1
  <1>. QED
    BY <1>2, PTL DEF Spec, PaperVerdictIsFinal

-----------------------------------------------------------------------------
(* The lineage.                                                             *)

\* Repeating every certified month and adding one is transitive.
LEMMA ExtendsTransitive ==
    ASSUME NEW x \in Releases, NEW y \in Releases, NEW z \in Releases,
           Extends(z, y), Extends(y, x)
    PROVE  Extends(z, x)
  <1>1. \A r \in Releases : Len(History[r]) \in Nat /\ DOMAIN History[r] = 1..Len(History[r])
    BY ReleaseAssumption
  <1>2. /\ Len(History[x]) \in Nat /\ Len(History[y]) \in Nat /\ Len(History[z]) \in Nat
        /\ Len(History[z]) > Len(History[y]) /\ Len(History[y]) > Len(History[x])
    BY <1>1 DEF Extends
  <1>3. \A i \in DOMAIN History[x] : i \in DOMAIN History[y]
    BY <1>1, <1>2
  <1>4. \A i \in DOMAIN History[x] : History[z][i] = History[x][i]
    BY <1>3 DEF Extends
  <1>. QED
    BY <1>2, <1>4 DEF Extends

\* What an admitter holds was verified against the head it holds, and neither
\* changes while it waits for the write lock.
PendingVerified ==
    \A a \in Admitters : pending[a] # None =>
        /\ Ready[pending[a].release]
        /\ Catalog[pending[a].release] = Catalog[pending[a].head]
        /\ Extends(pending[a].release, pending[a].head)

\* There is no lineage and nothing pending at the start.
LEMMA InitLineage == Init => LineageIsOneChain /\ PendingVerified
  BY DEF Init, LineageIsOneChain, PendingVerified

\* A registration leaves the lineage alone, or starts it.
LEMMA QualifyLineage ==
    ASSUME TypeOK, LineageIsOneChain, PendingVerified, Qualify
    PROVE  LineageIsOneChain' /\ PendingVerified'
  <1>1. PendingVerified'
    BY QualifyAdmissions DEF PendingVerified
  <1>2. CASE UNCHANGED admissions
    BY <1>1, <1>2 DEF LineageIsOneChain
  <1>3. CASE admissions' = <<[kind |-> "BASE", old |-> None, release |-> row.release]>>
    BY <1>1, <1>3 DEF LineageIsOneChain
  <1>. QED
    BY <1>2, <1>3, QualifyAdmissions

\* An admitter only ever holds what it has verified.
LEMMA AdmitPending ==
    ASSUME TypeOK, PendingVerified, Admit
    PROVE  PendingVerified'
  <1>1. ASSUME NEW a \in Admitters, NEW candidate \in Releases, VerifyAdmission(a, candidate)
        PROVE  PendingVerified'
    <2>1. pending' = [pending EXCEPT ![a] = [release |-> candidate,
                                             head |-> LastOf(admissions).release]]
      BY <1>1 DEF VerifyAdmission
    <2>2. /\ Ready[candidate]
          /\ Catalog[candidate] = Catalog[LastOf(admissions).release]
          /\ Extends(candidate, LastOf(admissions).release)
      BY <1>1 DEF VerifyAdmission
    <2>3. ASSUME NEW b \in Admitters, pending'[b] # None
          PROVE  /\ Ready[pending'[b].release]
                 /\ Catalog[pending'[b].release] = Catalog[pending'[b].head]
                 /\ Extends(pending'[b].release, pending'[b].head)
      <3>1. CASE b = a
        <4>1. /\ pending'[b].release = candidate
              /\ pending'[b].head = LastOf(admissions).release
          BY <2>1, <3>1 DEF TypeOK
        <4>. QED
          BY <2>2, <4>1
      <3>2. CASE b # a
        <4>1. pending'[b] = pending[b]
          BY <2>1, <3>2 DEF TypeOK
        <4>. QED
          BY <2>3, <4>1 DEF PendingVerified
      <3>. QED
        BY <3>1, <3>2
    <2>. QED
      BY <2>3 DEF PendingVerified, Extends
  <1>2. ASSUME NEW a \in Admitters, pending' = [pending EXCEPT ![a] = None]
        PROVE  PendingVerified'
    <2>1. \A b \in Admitters : pending'[b] # None => pending'[b] = pending[b]
      BY <1>2 DEF TypeOK
    <2>. QED
      BY <2>1 DEF PendingVerified, Extends
  <1>. QED
    BY <1>1, <1>2 DEF Admit, CommitAdmission, AbandonAdmission
\* The head is the one the candidate was verified against, so the release appended
\* extends it, and by transitivity every earlier one.
LEMMA AdmitLineage ==
    ASSUME TypeOK, LineageIsOneChain, PendingVerified, Admit
    PROVE  LineageIsOneChain'
  <1>1. CASE UNCHANGED admissions
    BY <1>1 DEF LineageIsOneChain
  <1>2. CASE ~UNCHANGED admissions
    <2>1. PICK a \in Admitters :
             /\ CommitAdmission(a)
             /\ admissions # <<>> /\ Len(admissions) \in Nat \ {0}
             /\ DOMAIN admissions = 1..Len(admissions)
             /\ DOMAIN admissions' = 1..(Len(admissions) + 1)
             /\ \A i \in 1..Len(admissions) : admissions'[i] = admissions[i]
             /\ admissions'[Len(admissions) + 1] =
                   [kind |-> "ROLL_FORWARD", old |-> pending[a].head,
                    release |-> pending[a].release]
      BY <1>2, AdmitAppends
    <2>. DEFINE n == Len(admissions)
                last == admissions'[n + 1]
    <2>2. /\ n \in Nat \ {0} /\ DOMAIN admissions = 1..n /\ DOMAIN admissions' = 1..(n + 1)
          /\ \A i \in 1..n : admissions'[i] = admissions[i]
      BY <2>1
    <2>3. pending[a] # None /\ pending[a].head = admissions[n].release
      BY <2>1 DEF CommitAdmission, HeadUnmoved, LastOf
    <2>4. last.kind = "ROLL_FORWARD" /\ last.old = admissions[n].release
          /\ last.release = pending[a].release
      BY <2>1, <2>3
    <2>5. /\ Extends(last.release, admissions[n].release)
          /\ Catalog[last.release] = Catalog[admissions[n].release]
      BY <2>3, <2>4 DEF PendingVerified
    <2>6. /\ last.release \in Releases
          /\ \A i \in 1..n : admissions[i].release \in Releases
      <3>1. last.release \in Releases
        BY <2>3, <2>4 DEF TypeOK
      <3>2. \A i \in 1..n : admissions[i] \in Admissions
        <4>1. admissions \in Seq(Admissions)
          BY DEF TypeOK
        <4>. QED
          BY <4>1
      <3>. QED
        BY <3>1, <3>2 DEF Admissions
    <2>. HIDE DEF n, last
    <2>7. ASSUME NEW i \in 1..n
          PROVE  /\ Extends(last.release, admissions[i].release)
                 /\ Catalog[last.release] = Catalog[admissions[i].release]
      <3>1. CASE i = n
        BY <3>1, <2>5
      <3>2. CASE i < n
        <4>1. /\ Extends(admissions[n].release, admissions[i].release)
              /\ Catalog[admissions[n].release] = Catalog[admissions[i].release]
          <5>1. i \in DOMAIN admissions /\ n \in DOMAIN admissions
            BY <2>2
          <5>2. \A x, y \in DOMAIN admissions :
                   x < y => /\ Extends(admissions[y].release, admissions[x].release)
                            /\ Catalog[admissions[y].release] = Catalog[admissions[x].release]
            BY DEF LineageIsOneChain
          <5>. QED
            BY <3>2, <5>1, <5>2
        <4>. QED
          BY <4>1, <2>2, <2>5, <2>6, ExtendsTransitive
      <3>3. i = n \/ i < n
        BY <2>2
      <3>. QED
        BY <3>1, <3>2, <3>3
    <2>8. admissions'[1].kind = "BASE"
      <3>1. admissions # <<>> /\ admissions[1].kind = "BASE"
        BY <2>1 DEF LineageIsOneChain
      <3>. QED
        BY <3>1, <2>2
    <2>9. ASSUME NEW j \in DOMAIN admissions' \ {1}
          PROVE  /\ admissions'[j].kind = "ROLL_FORWARD"
                 /\ admissions'[j].old = admissions'[j - 1].release
      <3>1. CASE j = n + 1
        <4>1. admissions'[j] = last /\ admissions'[j - 1] = admissions[n]
          BY <3>1, <2>2 DEF last
        <4>. QED
          BY <4>1, <2>4
      <3>2. CASE j \in 1..n
        <4>1. /\ j \in DOMAIN admissions \ {1}
              /\ admissions'[j] = admissions[j] /\ admissions'[j - 1] = admissions[j - 1]
          BY <3>2, <2>2
        <4>. QED
          BY <4>1 DEF LineageIsOneChain
      <3>. QED
        BY <3>1, <3>2, <2>2
    <2>10. ASSUME NEW i \in DOMAIN admissions', NEW j \in DOMAIN admissions', i < j
           PROVE  /\ Extends(admissions'[j].release, admissions'[i].release)
                  /\ Catalog[admissions'[j].release] = Catalog[admissions'[i].release]
      <3>1. i \in 1..n /\ admissions'[i] = admissions[i]
        BY <2>2, <2>10
      <3>2. CASE j = n + 1
        <4>1. admissions'[j] = last
          BY <3>2 DEF last
        <4>. QED
          BY <3>1, <4>1, <2>7
      <3>3. CASE j \in 1..n
        BY <3>1, <3>3, <2>2, <2>10 DEF LineageIsOneChain
      <3>. QED
        BY <3>2, <3>3, <2>2
    <2>. QED
      BY <2>8, <2>9, <2>10 DEF LineageIsOneChain, Extends
  <1>. QED
    BY <1>1, <1>2

\* Every step keeps the lineage one chain and the pending admissions verified.
LEMMA NextLineage ==
    TypeOK /\ LineageIsOneChain /\ PendingVerified /\ [Next]_vars
        => LineageIsOneChain' /\ PendingVerified'
  <1>1. ASSUME LineageIsOneChain, PendingVerified, UNCHANGED vars
        PROVE  LineageIsOneChain' /\ PendingVerified'
    BY <1>1 DEF LineageIsOneChain, PendingVerified, vars
  <1>. QED
    BY <1>1, QualifyLineage, AdmitLineage, AdmitPending DEF Next

\* However many admitters race, the ledger is one chain that starts at its BASE
\* admission and in which every release repeats the months of every earlier one.
THEOREM LineageNeverForks == Spec => []LineageIsOneChain
  BY InitType, NextType, InitLineage, NextLineage, PTL DEF Spec
-----------------------------------------------------------------------------
(* The programme implements the abstract gate.                              *)

\* The releases of the ledger in their order: what the gate calls its lineage.
Lineage == [i \in DOMAIN admissions |-> admissions[i].release]

\* The lineage is a sequence of releases as long as the ledger.
LEMMA LineageSeq ==
    ASSUME TypeOK
    PROVE  /\ Lineage \in Seq(Releases)
           /\ Len(Lineage) = Len(admissions)
           /\ DOMAIN Lineage = 1..Len(admissions) /\ Len(admissions) \in Nat
           /\ admissions # <<>> <=> Lineage # <<>>
  <1>1. /\ Len(admissions) \in Nat /\ DOMAIN admissions = 1..Len(admissions)
        /\ \A i \in 1..Len(admissions) : admissions[i] \in Admissions
    <2>1. admissions \in Seq(Admissions)
      BY DEF TypeOK
    <2>. QED
      BY <2>1
  <1>2. Lineage \in [1..Len(admissions) -> Releases]
    BY <1>1 DEF Lineage, Admissions
  <1>3. Lineage \in Seq(Releases) /\ Len(Lineage) = Len(admissions)
    BY <1>1, <1>2
  <1>4. admissions # <<>> <=> Lineage # <<>>
    <2>1. admissions # <<>> <=> Len(admissions) # 0
      BY DEF TypeOK
    <2>2. Lineage # <<>> <=> Len(Lineage) # 0
      BY <1>3
    <2>. QED
      BY <1>3, <2>1, <2>2
  <1>. QED
    BY <1>1, <1>2, <1>3, <1>4

\* A registration is a step of the gate, or one the gate does not see.
LEMMA QualifyIsGateStep ==
    ASSUME TypeOK, PaperBinding, Qualify
    PROVE  [Gate!GateNext]_(Gate!gateVars)
  <1>1. ASSUME NEW r \in Releases, RegisterDataRelease(r)
        PROVE  Gate!BindRelease(r)
    <2>1. Bind(r) \in BoundRows /\ Bind(r).release = r
      BY DEF Bind, BoundRows, TypeOK
    <2>2. row'.state \in {"DATA_READY", "DATA_BLOCKED"} /\ row'.release = r
      BY <1>1, <2>1, WriteRow DEF RegisterDataRelease
    <2>3. GateStage = "DATA" /\ GateStage' = "DATA"
      BY <1>1, <2>2 DEF GateStage, RegisterDataRelease, OpenForRelease
    <2>. QED
      BY <1>1, <2>2, <2>3 DEF Gate!BindRelease, RegisterDataRelease
  <1>2. ASSUME NEW r \in Releases, NEW h \in Hashes, NEW verdict \in Verdicts,
               RegisterHistorical(r, h, verdict)
        PROVE  Gate!PassBacktest \/ UNCHANGED Gate!gateVars
    <2>1. LET columns == [row EXCEPT !.historical = [hash |-> h, verdict |-> verdict]]
          IN  columns \in BoundRows /\ columns.release = row.release
      BY <1>2 DEF RegisterHistorical, Evidence, BoundRows, TypeOK
    <2>2. /\ row'.release = row.release
          /\ row'.state = IF verdict = "qualified" THEN "BACKTEST_QUALIFIED"
                                                   ELSE "HISTORICAL_FAILED"
      BY <1>2, <2>1, WriteRow DEF RegisterHistorical
    <2>3. /\ GateStage = "DATA" /\ GateStage' \in {"DATA", "BACKTEST"}
          /\ row.release # None /\ Ready[row.release]
      BY <1>2, <2>2, ReleaseAssumption
         DEF GateStage, RegisterHistorical, PaperBinding
    <2>. QED
      BY <1>2, <2>2, <2>3 DEF Gate!PassBacktest, Gate!gateVars, RegisterHistorical
  <1>3. ASSUME NEW r \in Releases, NEW h \in Hashes, NEW verdict \in Verdicts,
               RegisterTdx(r, h, verdict)
        PROVE  Gate!Judge("BLOCKED") \/ UNCHANGED Gate!gateVars
    <2>1. LET columns == [row EXCEPT !.tdx = [hash |-> h, verdict |-> verdict]]
          IN  columns \in BoundRows /\ columns.release = row.release
      BY <1>3 DEF RegisterTdx, Evidence, BoundRows, TypeOK
    <2>2. /\ row'.release = row.release
          /\ row'.state = IF verdict = "qualified" THEN "BACKTEST_QUALIFIED"
                                                   ELSE "PAPER_BLOCKED"
      BY <1>3, <2>1, WriteRow DEF RegisterTdx
    <2>3. GateStage = "BACKTEST" /\ GateStage' \in {"BACKTEST", "BLOCKED"}
      BY <1>3, <2>2 DEF GateStage, RegisterTdx
    <2>. QED
      BY <1>3, <2>2, <2>3 DEF Gate!Judge, Gate!gateVars, RegisterTdx
  <1>4. ASSUME NEW r \in Releases, StartPaperCollection(r)
        PROVE  Gate!StartPaper
    <2>1. row \in BoundRows
      BY <1>4 DEF StartPaperCollection, BoundRows, TypeOK
    <2>2. row'.state = "PAPER_COLLECTING" /\ row'.release = row.release
      BY <1>4, <2>1, WriteRow DEF StartPaperCollection
    <2>3. GateStage = "BACKTEST" /\ GateStage' = "PAPER"
      BY <1>4, <2>2 DEF GateStage, StartPaperCollection
    <2>4. admissions' = <<[kind |-> "BASE", old |-> None, release |-> row.release]>>
      BY <1>4 DEF StartPaperCollection, EnsureBaseAdmission, PaperBinding, PaperActive
    <2>5. Lineage' = <<row.release>>
      BY <2>4 DEF Lineage
    <2>. QED
      BY <2>2, <2>3, <2>5 DEF Gate!StartPaper, Lineage
  <1>5. ASSUME NEW r \in Releases, NEW h \in Hashes, NEW verdict \in Verdicts,
               RegisterPaper(r, h, verdict)
        PROVE  \/ \E judged \in {"QUALIFIED", "BLOCKED"} : Gate!Judge(judged)
               \/ UNCHANGED Gate!gateVars
    <2>1. LET columns == [row EXCEPT !.paper = [hash |-> h, verdict |-> verdict]]
          IN  columns \in BoundRows /\ columns.release = row.release
      BY <1>5 DEF RegisterPaper, Evidence, BoundRows, TypeOK
    <2>2. /\ row'.release = row.release
          /\ row'.state \in {"PAPER_COLLECTING", "PAPER_QUALIFIED", "PAPER_BLOCKED"}
      BY <1>5, <2>1, WriteRow DEF RegisterPaper, Verdicts
    <2>3. GateStage = "PAPER" /\ GateStage' \in {"PAPER", "QUALIFIED", "BLOCKED"}
      BY <1>5, <2>2 DEF GateStage, RegisterPaper, Collecting
    <2>. QED
      BY <1>5, <2>2, <2>3 DEF Gate!Judge, Gate!gateVars, RegisterPaper
  <1>. QED
    BY <1>1, <1>2, <1>3, <1>4, <1>5 DEF Qualify, Gate!GateNext

\* An admission is the gate's roll forward; the rest of an admitter is unseen.
LEMMA AdmitIsGateStep ==
    ASSUME TypeOK, TypeOK', PendingVerified, Admit
    PROVE  [Gate!GateNext]_(Gate!gateVars)
  <1>1. UNCHANGED row
    BY AdmitKeepsRow
  <1>2. GateStage' = GateStage
    BY <1>1 DEF GateStage
  <1>3. CASE UNCHANGED admissions
    BY <1>1, <1>2, <1>3 DEF Gate!gateVars
  <1>4. CASE ~UNCHANGED admissions
    <2>1. PICK a \in Admitters :
             /\ CommitAdmission(a)
             /\ admissions # <<>> /\ Len(admissions) \in Nat \ {0}
             /\ DOMAIN admissions = 1..Len(admissions)
             /\ DOMAIN admissions' = 1..(Len(admissions) + 1)
             /\ \A i \in 1..Len(admissions) : admissions'[i] = admissions[i]
             /\ admissions'[Len(admissions) + 1] =
                   [kind |-> "ROLL_FORWARD", old |-> pending[a].head,
                    release |-> pending[a].release]
      BY <1>4, AdmitAppends
    <2>. DEFINE old == pending[a].head
    <2>2. pending[a] # None /\ old = admissions[Len(admissions)].release
      BY <2>1 DEF CommitAdmission, HeadUnmoved, LastOf
    <2>3. PICK new \in Releases : new = pending[a].release
      BY <2>2 DEF TypeOK
    <2>4. new \in Successors[old]
      <3>1. old \in Releases
        BY <2>2 DEF TypeOK
      <3>. QED
        BY <2>2, <2>3, <3>1 DEF Successors, PendingVerified
    <2>5. /\ Lineage \in Seq(Releases) /\ Lineage # <<>>
          /\ Len(Lineage) = Len(admissions) /\ Lineage[Len(Lineage)] = old
      BY <2>1, <2>2, LineageSeq DEF Lineage
    <2>6. Lineage' = Append(Lineage, new)
      <3>1. /\ Lineage' \in Seq(Releases) /\ Len(Lineage') = Len(admissions) + 1
        <4>1. \A i \in 1..(Len(admissions) + 1) : admissions'[i] \in Admissions
          <5>1. admissions' \in Seq(Admissions)
            BY DEF TypeOK
          <5>. QED
            BY <2>1, <5>1
        <4>2. Lineage' \in [1..(Len(admissions) + 1) -> Releases]
          BY <2>1, <4>1 DEF Lineage, Admissions
        <4>. QED
          BY <2>1, <4>2
      <3>2. \A i \in 1..Len(admissions) : Lineage'[i] = Lineage[i]
        BY <2>1 DEF Lineage
      <3>3. Lineage'[Len(admissions) + 1] = new
        BY <2>1, <2>3 DEF Lineage
      <3>. QED
        BY <2>1, <2>3, <2>5, <3>1, <3>2, <3>3
    <2>7. Gate!RollForward(new)
      BY <1>1, <1>2, <2>4, <2>5, <2>6 DEF Gate!RollForward, Lineage
    <2>8. Gate!GateNext
      BY <2>7 DEF Gate!GateNext
    <2>. QED
      BY <2>8
  <1>. QED
    BY <1>3, <1>4

\* The programme implements the gate the rest of the platform relies on: seen
\* through its row and its ledger, it only ever takes gate steps.
THEOREM ProgrammeImplementsGate == Spec => ImplementsGate
  <1>1. Init => Gate!GateInit
    BY DEF Init, Gate!GateInit, GateStage
  <1>2. ASSUME TypeOK, TypeOK', PaperBinding, PendingVerified, [Next]_vars
        PROVE  [Gate!GateNext]_(Gate!gateVars)
    <2>1. CASE UNCHANGED vars
      BY <2>1 DEF vars, Gate!gateVars, GateStage
    <2>. QED
      BY <1>2, <2>1, QualifyIsGateStep, AdmitIsGateStep DEF Next
  <1>. QED
    BY <1>1, <1>2, InitType, NextType, InitPaper, NextPaper, InitLineage, NextLineage, PTL
       DEF Spec, ImplementsGate, Gate!GateSpec
-----------------------------------------------------------------------------
(* Replaying the log gives back the row.                                    *)

\* A write puts its own event in force, and retires the events of its kind, or all
\* of them when it binds a new release.
LEMMA WriteForce ==
    ASSUME TypeOK, NEW columns, NEW target, NEW kind, NEW hash, NEW verdict,
           WriteTransition(columns, target, kind, hash, verdict),
           NEW n, n = Len(events)
    PROVE  /\ \A i \in 1..n :
                 InForce(i)' <=> InForce(i) /\ events[i].kind # kind /\ kind # "data_release"
           /\ InForce(n + 1)'
  <1>1. /\ n \in Nat /\ DOMAIN events = 1..n /\ DOMAIN events' = 1..(n + 1)
        /\ \A i \in 1..n : events'[i] = events[i]
        /\ events'[n + 1].kind = kind
    BY WriteAppends
  <1>2. ASSUME NEW i \in 1..n
        PROVE  InForce(i)' <=> InForce(i) /\ events[i].kind # kind /\ kind # "data_release"
    <2>1. InForce(i)' <=>
             \A j \in 1..(n + 1) :
                j > i => events'[j].kind # events[i].kind /\ events'[j].kind # "data_release"
      BY <1>1 DEF InForce
    <2>2. InForce(i) <=>
             \A j \in 1..n :
                j > i => events'[j].kind # events[i].kind /\ events'[j].kind # "data_release"
      BY <1>1 DEF InForce
    <2>. QED
      BY <1>1, <2>1, <2>2
  <1>3. InForce(n + 1)'
    BY <1>1 DEF InForce
  <1>. QED
    BY <1>2, <1>3

\* A column is replayed by a later write of another kind about the same release.
LEMMA ReplayKept ==
    ASSUME TypeOK, NEW columns, NEW target, NEW kind, NEW hash, NEW verdict,
           WriteTransition(columns, target, kind, hash, verdict),
           row'.release = row.release,
           NEW other, other # kind, kind # "data_release",
           NEW column, Replays(column, other)
    PROVE  Replays(column, other)'
  <1>1. PICK n : n = Len(events)
    OBVIOUS
  <1>2. /\ n \in Nat /\ DOMAIN events = 1..n /\ DOMAIN events' = 1..(n + 1)
        /\ \A i \in 1..n : events'[i] = events[i]
        /\ events'[n + 1].kind = kind
    BY <1>1, WriteAppends
  <1>3. \A i \in 1..n : events[i].kind = other => (InForce(i)' <=> InForce(i))
    BY <1>1, WriteForce
  <1>4. ASSUME column # None
        PROVE  \E i \in DOMAIN events' :
                  /\ events'[i].kind = other /\ InForce(i)'
                  /\ events'[i].release = row'.release
                  /\ column = [hash |-> events'[i].hash, verdict |-> events'[i].verdict]
    <2>1. PICK i \in 1..n :
             /\ events[i].kind = other /\ InForce(i)
             /\ events[i].release = row.release
             /\ column = [hash |-> events[i].hash, verdict |-> events[i].verdict]
      BY <1>2, <1>4 DEF Replays
    <2>2. i \in DOMAIN events' /\ events'[i] = events[i] /\ InForce(i)'
      BY <1>2, <1>3, <2>1
    <2>. QED
      BY <2>1, <2>2
  <1>5. ASSUME column = None
        PROVE  ~\E i \in DOMAIN events' : events'[i].kind = other /\ InForce(i)'
    <2>1. \A i \in 1..n : events[i].kind = other => ~InForce(i)
      BY <1>2, <1>5 DEF Replays
    <2>. QED
      BY <1>2, <1>3, <2>1
  <1>. QED
    BY <1>4, <1>5 DEF Replays

\* A decision's own column is replayed by the event it has just written.
LEMMA ReplayWritten ==
    ASSUME TypeOK, NEW columns \in BoundRows, NEW target, NEW kind, NEW hash \in Hashes,
           NEW verdict \in Verdicts,
           WriteTransition(columns, target, kind, hash, verdict)
    PROVE  Replays([hash |-> hash, verdict |-> verdict], kind)'
  <1>1. PICK n : n = Len(events)
    OBVIOUS
  <1>2. /\ n + 1 \in DOMAIN events'
        /\ events'[n + 1].kind = kind /\ events'[n + 1].hash = hash
        /\ events'[n + 1].verdict = verdict /\ events'[n + 1].release = columns.release
    BY <1>1, WriteAppends
  <1>3. InForce(n + 1)'
    BY <1>1, WriteForce
  <1>4. row'.release = columns.release
    BY WriteRow
  <1>5. [hash |-> hash, verdict |-> verdict] # None
    BY ReleaseAssumption DEF Verdicts
  <1>. QED
    BY <1>2, <1>3, <1>4, <1>5 DEF Replays
\* A decision about the bound release writes its own column and keeps the others.
LEMMA DecisionReplays ==
    ASSUME TypeOK, RowReplaysLog, row.release \in Releases,
           NEW columns \in BoundRows, columns.release = row.release,
           NEW target, NEW kind \in Kinds, kind # "data_release", NEW hash, NEW verdict,
           WriteTransition(columns, target, kind, hash, verdict),
           \A other \in {"historical", "tdx", "paper"} \ {kind} : columns[other] = row[other],
           kind # "paper_start" =>
              /\ hash \in Hashes /\ verdict \in Verdicts
              /\ columns[kind] = [hash |-> hash, verdict |-> verdict]
    PROVE  RowReplaysLog'
  <1>1. /\ row'.release = row.release /\ row'.historical = columns.historical
        /\ row'.tdx = columns.tdx /\ row'.paper = columns.paper
    BY WriteRow
  <1>2. Replays(row.historical, "historical") /\ Replays(row.tdx, "tdx")
        /\ Replays(row.paper, "paper")
    BY DEF RowReplaysLog
  <1>3. PICK h, t, p : h = row'.historical /\ t = row'.tdx /\ p = row'.paper
    OBVIOUS
  <1>4. Replays(h, "historical")'
    <2>1. CASE kind = "historical"
      BY <1>1, <1>3, <2>1, ReplayWritten
    <2>2. CASE kind # "historical"
      <3>1. h = row.historical
        BY <1>1, <1>3, <2>2
      <3>2. Replays(h, "historical")
        BY <1>2, <3>1 DEF Replays
      <3>. QED
        BY <1>1, <2>2, <3>2, ReplayKept
    <2>. QED
      BY <2>1, <2>2
  <1>5. Replays(t, "tdx")'
    <2>1. CASE kind = "tdx"
      BY <1>1, <1>3, <2>1, ReplayWritten
    <2>2. CASE kind # "tdx"
      <3>1. t = row.tdx
        BY <1>1, <1>3, <2>2
      <3>2. Replays(t, "tdx")
        BY <1>2, <3>1 DEF Replays
      <3>. QED
        BY <1>1, <2>2, <3>2, ReplayKept
    <2>. QED
      BY <2>1, <2>2
  <1>6. Replays(p, "paper")'
    <2>1. CASE kind = "paper"
      BY <1>1, <1>3, <2>1, ReplayWritten
    <2>2. CASE kind # "paper"
      <3>1. p = row.paper
        BY <1>1, <1>3, <2>2
      <3>2. Replays(p, "paper")
        BY <1>2, <3>1 DEF Replays
      <3>. QED
        BY <1>1, <2>2, <3>2, ReplayKept
    <2>. QED
      BY <2>1, <2>2
  <1>7. row'.release # None /\ events' # <<>>
    BY <1>1, ReleaseAssumption, WriteAppends
  <1>. QED
    BY <1>3, <1>4, <1>5, <1>6, <1>7 DEF RowReplaysLog, Replays

\* A new release leaves no decision in force, and the row with no evidence.
LEMMA ReleaseReplays ==
    ASSUME TypeOK, NEW r \in Releases, RegisterDataRelease(r)
    PROVE  RowReplaysLog'
  <1>1. Bind(r) \in BoundRows /\ Bind(r).release = r /\ Bind(r).historical = None
        /\ Bind(r).tdx = None /\ Bind(r).paper = None
    BY DEF Bind, BoundRows, TypeOK
  <1>2. PICK target, verdict : WriteTransition(Bind(r), target, "data_release", r, verdict)
    BY DEF RegisterDataRelease
  <1>3. /\ row'.release = r /\ row'.historical = None /\ row'.tdx = None /\ row'.paper = None
    BY <1>1, <1>2, WriteRow
  <1>4. PICK n : n = Len(events)
    OBVIOUS
  <1>5. /\ n \in Nat /\ DOMAIN events' = 1..(n + 1)
        /\ events'[n + 1].kind = "data_release"
        /\ \A i \in 1..n : ~InForce(i)'
    BY <1>2, <1>4, WriteAppends, WriteForce
  <1>6. \A kind \in {"historical", "tdx", "paper"} :
           ~\E i \in DOMAIN events' : events'[i].kind = kind /\ InForce(i)'
    BY <1>5
  <1>7. row'.release # None /\ events' # <<>>
    BY <1>3, <1>5, ReleaseAssumption
  <1>. QED
    BY <1>3, <1>6, <1>7 DEF RowReplaysLog, Replays

\* Every registration keeps the row a replay of its log.
LEMMA QualifyReplays ==
    ASSUME TypeOK, RowReplaysLog, Qualify
    PROVE  RowReplaysLog'
  <1>1. ASSUME NEW r \in Releases, StartPaperCollection(r)
        PROVE  RowReplaysLog'
    <2>1. row \in BoundRows /\ row.release \in Releases
      BY <1>1 DEF StartPaperCollection, BoundRows, TypeOK
    <2>2. WriteTransition(row, "PAPER_COLLECTING", "paper_start", StartHash, "collecting")
      BY <1>1 DEF StartPaperCollection
    <2>3. PICK columns \in BoundRows, hash \in EvidenceKeys :
             columns = row /\ hash = StartHash
      BY <2>1 DEF StartHash, EvidenceKeys, BoundRows
    <2>4. WriteTransition(columns, "PAPER_COLLECTING", "paper_start", hash, "collecting")
      BY <2>2, <2>3 DEF WriteTransition
    <2>. QED
      BY <2>1, <2>3, <2>4, DecisionReplays DEF Kinds
  <1>2. ASSUME NEW r \in Releases, NEW h \in Hashes, NEW verdict \in Verdicts,
               RegisterHistorical(r, h, verdict)
        PROVE  RowReplaysLog'
    <2>1. PICK columns \in BoundRows :
             columns = [row EXCEPT !.historical = [hash |-> h, verdict |-> verdict]]
      BY <1>2 DEF RegisterHistorical, Evidence, BoundRows, TypeOK
    <2>2. PICK target : WriteTransition(columns, target, "historical", h, verdict)
      BY <1>2, <2>1 DEF RegisterHistorical, WriteTransition
    <2>3. /\ columns.release = row.release /\ columns.tdx = row.tdx
          /\ columns.paper = row.paper
          /\ columns.historical = [hash |-> h, verdict |-> verdict]
          /\ row.release \in Releases
      BY <1>2, <2>1 DEF TypeOK, RegisterHistorical
    <2>. QED
      BY <2>2, <2>3, DecisionReplays DEF Kinds
  <1>3. ASSUME NEW r \in Releases, NEW h \in Hashes, NEW verdict \in Verdicts,
               RegisterTdx(r, h, verdict)
        PROVE  RowReplaysLog'
    <2>1. PICK columns \in BoundRows :
             columns = [row EXCEPT !.tdx = [hash |-> h, verdict |-> verdict]]
      BY <1>3 DEF RegisterTdx, Evidence, BoundRows, TypeOK
    <2>2. PICK target : WriteTransition(columns, target, "tdx", h, verdict)
      BY <1>3, <2>1 DEF RegisterTdx, WriteTransition
    <2>3. /\ columns.release = row.release /\ columns.historical = row.historical
          /\ columns.paper = row.paper
          /\ columns.tdx = [hash |-> h, verdict |-> verdict]
          /\ row.release \in Releases
      BY <1>3, <2>1 DEF TypeOK, RegisterTdx
    <2>. QED
      BY <2>2, <2>3, DecisionReplays DEF Kinds
  <1>4. ASSUME NEW r \in Releases, NEW h \in Hashes, NEW verdict \in Verdicts,
               RegisterPaper(r, h, verdict)
        PROVE  RowReplaysLog'
    <2>1. PICK columns \in BoundRows :
             columns = [row EXCEPT !.paper = [hash |-> h, verdict |-> verdict]]
      BY <1>4 DEF RegisterPaper, Evidence, BoundRows, TypeOK
    <2>2. PICK target : WriteTransition(columns, target, "paper", h, verdict)
      BY <1>4, <2>1 DEF RegisterPaper, WriteTransition
    <2>3. /\ columns.release = row.release /\ columns.historical = row.historical
          /\ columns.tdx = row.tdx
          /\ columns.paper = [hash |-> h, verdict |-> verdict]
          /\ row.release \in Releases
      BY <1>4, <2>1 DEF TypeOK, RegisterPaper
    <2>. QED
      BY <2>2, <2>3, DecisionReplays DEF Kinds
  <1>. QED
    BY <1>1, <1>2, <1>3, <1>4, ReleaseReplays DEF Qualify

\* Every step keeps the row a replay of its log.
LEMMA NextReplays == TypeOK /\ RowReplaysLog /\ [Next]_vars => RowReplaysLog'
  <1>1. ASSUME RowReplaysLog, UNCHANGED <<row, events>>
        PROVE  RowReplaysLog'
    BY <1>1 DEF RowReplaysLog, Replays, InForce
  <1>. QED
    BY <1>1, QualifyReplays, AdmitKeepsRow DEF Next, vars

\* Replaying the log gives back every evidence column of the row: no decision about
\* an earlier release survives a new one, and none in force is lost.
THEOREM RowIsReplay == Spec => []RowReplaysLog
  <1>1. Init => RowReplaysLog
    BY DEF Init, RowReplaysLog, Replays
  <1>. QED
    BY <1>1, InitType, NextType, NextReplays, PTL DEF Spec
=============================================================================
