----------------------- MODULE PaperReleaseLedgersProofs -----------------------
(***************************************************************************)
(* The runtime's ledger of admissions against the programme's, for every    *)
(* set of releases, admitters and workers and every crash between the two   *)
(* commits.                                                                 *)
(***************************************************************************)
EXTENDS PaperReleaseLedgers, USProgramProofs

Base(r) == [kind |-> "BASE", old |-> None, release |-> r]

\* What the programme's own theorems say of it.
ProgramInv == TypeOK /\ PaperBinding /\ LineageIsOneChain /\ PendingVerified

\* The programme's ledger starts with the admission that `us-paper start` writes, and
\* whatever is on its way into the runtime's has been read from the programme's.
HeldIsAdmitted ==
    /\ admissions # <<>> => admissions[1] = Base(row.release)
    /\ starter # None => file = "created" /\ admissions # <<>> /\ starter = row.release
    /\ file = "bound" <=> ledger # <<>>
    /\ \A a \in Admitters : mirroring[a] # None =>
          \E i \in DOMAIN admissions : mirroring[a] = admissions[i]
    /\ \A w \in Workers : ticking[w] # None /\ ticking[w].step = "synced" =>
          \E i \in DOMAIN ledger : ticking[w].release = ledger[i].release

\* The tables that belong to the runtime.
RuntimeTypeOK ==
    /\ file \in {"absent", "created", "bound"}
    /\ starter \in Releases \cup {None}
    /\ ledger \in Seq(Admissions)
    /\ mirroring \in [Admitters -> Admissions \cup {None}]
    /\ ticking \in [Workers -> [step : {"program", "synced"}, release : Releases] \cup {None}]
    /\ periods \subseteq Releases

LedgersInv ==
    ProgramInv /\ RuntimeTypeOK /\ HeldIsAdmitted /\ RuntimeFollowsProgram /\ PeriodsAreAdmitted

\* Nothing is admitted at the start.
LEMMA LedgersInvInit == LedgersInit => LedgersInv
  <1>. SUFFICES ASSUME LedgersInit
                PROVE  LedgersInv
    OBVIOUS
  <1>1. ProgramInv
    BY InitType, InitPaper, InitLineage DEF LedgersInit, ProgramInv
  <1>2. RuntimeTypeOK
    BY DEF LedgersInit, RuntimeTypeOK
  <1>3. HeldIsAdmitted /\ RuntimeFollowsProgram /\ PeriodsAreAdmitted
    BY DEF LedgersInit, Init, HeldIsAdmitted, RuntimeFollowsProgram, PeriodsAreAdmitted
  <1>. QED
    BY <1>1, <1>2, <1>3 DEF LedgersInv

\* Seen through its own variables the programme takes its own steps.
LEMMA ProgramSteps == [LedgersNext]_allVars => [Next]_vars
  BY DEF LedgersNext, allVars, ProgramStep, CreateRuntime, BindRuntime, CrashStart,
         CommitThenHold, RetryAdmission, MirrorAdmission, CrashBeforeMirror, ReadProgramHead,
         CompareRuntimeHead, TakeDecision, Next, Admit

\* The programme's invariants hold here as well.
LEMMA ProgramInvStep == ProgramInv /\ [LedgersNext]_allVars => ProgramInv'
  BY ProgramSteps, NextType, NextPaper, NextLineage DEF ProgramInv

\* The programme's ledger only grows at its end, and its first admission names the
\* release that stays bound.
LEMMA AdmissionsGrow ==
    ASSUME ProgramInv, HeldIsAdmitted, [Next]_vars
    PROVE  /\ Len(admissions) <= Len(admissions')
           /\ \A i \in DOMAIN admissions : i \in DOMAIN admissions' /\ admissions'[i] = admissions[i]
           /\ admissions # <<>> => admissions' # <<>> /\ row'.release = row.release
           /\ admissions' # <<>> => admissions'[1] = Base(row'.release)
  <1>. USE DEF ProgramInv
  <1>0. admissions \in Seq(Admissions) /\ admissions' \in Seq(Admissions)
    BY NextType DEF TypeOK
  <1>1. CASE UNCHANGED vars
    BY <1>0, <1>1 DEF vars, HeldIsAdmitted, Base
  <1>2. CASE Admit
    <2>1. UNCHANGED row
      BY <1>2, AdmitKeepsRow
    <2>2. CASE UNCHANGED admissions
      BY <1>0, <2>1, <2>2 DEF HeldIsAdmitted, Base
    <2>3. CASE ~UNCHANGED admissions
      <3>1. PICK a \in Admitters :
               /\ admissions # <<>> /\ admissions' # <<>> /\ Len(admissions) \in Nat \ {0}
               /\ DOMAIN admissions = 1..Len(admissions)
               /\ DOMAIN admissions' = 1..(Len(admissions) + 1)
               /\ \A i \in 1..Len(admissions) : admissions'[i] = admissions[i]
        BY <1>2, <2>3, AdmitAppends
      <3>2. Len(admissions') = Len(admissions) + 1
        BY <1>0, <3>1
      <3>. QED
        BY <2>1, <3>1, <3>2 DEF HeldIsAdmitted, Base
    <2>. QED
      BY <2>2, <2>3
  <1>3. CASE Qualify
    <2>1. CASE admissions = <<>>
      <3>1. admissions' = <<>> \/ (admissions' = <<Base(row.release)>> /\ row'.release = row.release)
        BY <1>3, <2>1, QualifyAdmissions DEF Base
      <3>2. Len(admissions) = 0 /\ DOMAIN admissions = {} /\ Len(admissions') \in Nat
        BY <1>0, <2>1
      <3>3. admissions' # <<>> => admissions'[1] = Base(row'.release)
        BY <3>1
      <3>. QED
        BY <2>1, <3>2, <3>3
    <2>2. CASE admissions # <<>>
      <3>1. UNCHANGED admissions
        BY <1>3, <2>2, QualifyAdmissions
      <3>2. row'.release = row.release
        BY <2>2, <3>1, NextPaper DEF PaperBinding
      <3>. QED
        BY <1>0, <2>2, <3>1, <3>2 DEF HeldIsAdmitted, Base
    <2>. QED
      BY <2>1, <2>2
  <1>. QED
    BY <1>1, <1>2, <1>3 DEF Next

\* The release of an admission occurs once in a ledger that is one chain.
LEMMA ReleasesDiffer ==
    ASSUME NEW table \in Seq(Admissions),
           \A k, l \in DOMAIN table : k < l => Extends(table[l].release, table[k].release),
           NEW i \in DOMAIN table, NEW j \in DOMAIN table,
           table[i].release = table[j].release
    PROVE  i = j
  <1>1. i \in Nat /\ j \in Nat
    OBVIOUS
  <1>2. table[i].release \in Releases /\ table[j].release \in Releases
    <2>1. table[i] \in Admissions /\ table[j] \in Admissions
      OBVIOUS
    <2>. QED
      BY <2>1 DEF Admissions
  <1>3. \A r \in Releases : ~Extends(r, r)
    <2>. SUFFICES ASSUME NEW r \in Releases
                  PROVE  ~Extends(r, r)
      OBVIOUS
    <2>1. Len(History[r]) \in Nat
      BY ReleaseAssumption
    <2>2. ~(Len(History[r]) > Len(History[r]))
      BY <2>1
    <2>. QED
      BY <2>2 DEF Extends
  <1>4. ~(i < j) /\ ~(j < i)
    BY <1>2, <1>3
  <1>. QED
    BY <1>1, <1>4

\* What the mirror appends is the programme's next admission and no other.
LEMMA MirrorIsNext ==
    ASSUME LedgersInv, NEW a \in Admitters, mirroring[a] # None,
           file = "bound", ExtendsRuntime(mirroring[a])
    PROVE  /\ Len(ledger) + 1 \in DOMAIN admissions
           /\ mirroring[a] = admissions[Len(ledger) + 1]
  <1>1. PICK i \in DOMAIN admissions : mirroring[a] = admissions[i]
    BY DEF LedgersInv, HeldIsAdmitted
  <1>2. admissions \in Seq(Admissions) /\ ledger \in Seq(Admissions) /\ ledger # <<>>
    BY DEF LedgersInv, ProgramInv, TypeOK, RuntimeTypeOK, HeldIsAdmitted
  <1>3. Len(ledger) \in DOMAIN admissions /\ LastOf(ledger) = admissions[Len(ledger)]
    BY <1>2 DEF LedgersInv, RuntimeFollowsProgram, LastOf
  <1>4. admissions[1].kind = "BASE"
    BY <1>2, <1>3 DEF LedgersInv, ProgramInv, LineageIsOneChain
  <1>5. i # 1
    BY <1>1, <1>4 DEF ExtendsRuntime
  <1>6. i - 1 \in DOMAIN admissions /\ admissions[i].old = admissions[i - 1].release
    BY <1>2, <1>5 DEF LedgersInv, ProgramInv, LineageIsOneChain
  <1>7. admissions[i - 1].release = admissions[Len(ledger)].release
    BY <1>1, <1>3, <1>6 DEF ExtendsRuntime
  <1>8. i - 1 = Len(ledger)
    BY <1>2, <1>3, <1>6, <1>7, ReleasesDiffer DEF LedgersInv, ProgramInv, LineageIsOneChain
  <1>9. i \in Nat
    BY <1>2
  <1>. QED
    BY <1>1, <1>8, <1>9

\* Every step keeps the types of the runtime's tables.
LEMMA RuntimeTypeStep ==
    ASSUME LedgersInv, [LedgersNext]_allVars
    PROVE  RuntimeTypeOK'
  <1>. USE DEF LedgersInv, RuntimeTypeOK
  <1>0. TypeOK /\ TypeOK'
    BY ProgramInvStep DEF ProgramInv
  <1>1. CASE UNCHANGED ledgerVars
    BY <1>1 DEF ledgerVars
  <1>2. CASE CreateRuntime
    BY <1>0, <1>2 DEF CreateRuntime, TypeOK
  <1>3. CASE BindRuntime
    BY <1>3 DEF BindRuntime, Admissions
  <1>4. CASE CrashStart
    BY <1>4 DEF CrashStart
  <1>5. ASSUME NEW a \in Admitters, CommitThenHold(a)
        PROVE  RuntimeTypeOK'
    <2>1. admissions' # <<>> /\ admissions' \in Seq(Admissions)
      BY <1>0, <1>5 DEF CommitThenHold, CommitAdmission, TypeOK
    <2>2. LastOf(admissions') \in Admissions
      BY <2>1, LastOfTable
    <2>. QED
      BY <1>5, <2>2 DEF CommitThenHold
  <1>6. ASSUME NEW a \in Admitters, RetryAdmission(a)
        PROVE  RuntimeTypeOK'
    <2>1. admissions # <<>> /\ admissions \in Seq(Admissions)
      BY <1>0, <1>6 DEF RetryAdmission, ProgramInv, PaperBinding, PaperRestsOnEvidence, TypeOK
    <2>2. LastOf(admissions) \in Admissions
      BY <2>1, LastOfTable
    <2>. QED
      BY <1>6, <2>2 DEF RetryAdmission, RetriedAdmission
  <1>7. ASSUME NEW a \in Admitters, MirrorAdmission(a)
        PROVE  RuntimeTypeOK'
    BY <1>7 DEF MirrorAdmission
  <1>8. ASSUME NEW a \in Admitters, CrashBeforeMirror(a)
        PROVE  RuntimeTypeOK'
    BY <1>8 DEF CrashBeforeMirror
  <1>9. ASSUME NEW w \in Workers, ReadProgramHead(w)
        PROVE  RuntimeTypeOK'
    <2>1. admissions # <<>> /\ admissions \in Seq(Admissions)
      BY <1>0, <1>9 DEF ReadProgramHead, ProgramInv, PaperBinding, PaperRestsOnEvidence,
                        PaperActive, TypeOK
    <2>2. LastOf(admissions) \in Admissions
      BY <2>1, LastOfTable
    <2>3. [step |-> "program", release |-> LastOf(admissions).release]
             \in [step : {"program", "synced"}, release : Releases]
      BY <2>2 DEF Admissions
    <2>. QED
      BY <1>9, <2>3 DEF ReadProgramHead
  <1>10. ASSUME NEW w \in Workers, CompareRuntimeHead(w)
         PROVE  RuntimeTypeOK'
    BY <1>10 DEF CompareRuntimeHead
  <1>11. ASSUME NEW w \in Workers, TakeDecision(w)
         PROVE  RuntimeTypeOK'
    BY <1>11 DEF TakeDecision
  <1>. QED
    BY <1>1, <1>2, <1>3, <1>4, <1>5, <1>6, <1>7, <1>8, <1>9, <1>10, <1>11
       DEF LedgersNext, allVars, ProgramStep

\* The runtime's ledger only grows at its end, by the programme's next admission.
LEMMA LedgerGrows ==
    ASSUME LedgersInv, [LedgersNext]_allVars
    PROVE  \/ UNCHANGED ledger
           \/ /\ file = "created" /\ ledger = <<>> /\ admissions # <<>>
              /\ ledger' = <<admissions[1]>>
           \/ /\ ledger # <<>> /\ Len(ledger) + 1 \in DOMAIN admissions
              /\ ledger' = Append(ledger, admissions[Len(ledger) + 1])
  <1>1. CASE BindRuntime
    BY <1>1 DEF BindRuntime, LedgersInv, HeldIsAdmitted, Base
  <1>2. ASSUME NEW a \in Admitters, MirrorAdmission(a), ~UNCHANGED ledger
        PROVE  /\ ledger # <<>> /\ Len(ledger) + 1 \in DOMAIN admissions
               /\ ledger' = Append(ledger, admissions[Len(ledger) + 1])
    <2>1. /\ mirroring[a] # None /\ file = "bound" /\ ExtendsRuntime(mirroring[a])
          /\ ledger' = Append(ledger, mirroring[a])
      BY <1>2 DEF MirrorAdmission
    <2>. QED
      BY <2>1, MirrorIsNext DEF LedgersInv, HeldIsAdmitted
  <1>3. ASSUME LedgersNext, ~BindRuntime, \A a \in Admitters : ~MirrorAdmission(a)
        PROVE  UNCHANGED ledger
    BY <1>3 DEF LedgersNext, ProgramStep, ledgerVars, CreateRuntime, CrashStart, CommitThenHold,
                RetryAdmission, CrashBeforeMirror, ReadProgramHead, CompareRuntimeHead, TakeDecision
  <1>. QED
    BY <1>1, <1>2, <1>3 DEF allVars, ledgerVars

\* What is in the runtime's ledger stays where it is.
LEMMA LedgerKeeps ==
    ASSUME LedgersInv, [LedgersNext]_allVars
    PROVE  \A i \in DOMAIN ledger : i \in DOMAIN ledger' /\ ledger'[i] = ledger[i]
  <1>1. ledger \in Seq(Admissions) /\ \A i \in DOMAIN admissions : admissions[i] \in Admissions
    BY DEF LedgersInv, ProgramInv, TypeOK, RuntimeTypeOK
  <1>2. \A x \in Admissions : \A i \in DOMAIN ledger :
           i \in DOMAIN Append(ledger, x) /\ Append(ledger, x)[i] = ledger[i]
    BY <1>1
  <1>. QED
    BY <1>1, <1>2, LedgerGrows

\* Every step keeps what is held an admission of the programme.
LEMMA HeldStep ==
    ASSUME LedgersInv, [LedgersNext]_allVars
    PROVE  HeldIsAdmitted'
  <1>. USE DEF LedgersInv
  <1>0. /\ admissions \in Seq(Admissions) /\ admissions' \in Seq(Admissions)
        /\ ledger \in Seq(Admissions)
    BY ProgramInvStep DEF ProgramInv, TypeOK, RuntimeTypeOK
  <1>1. /\ \A i \in DOMAIN admissions : i \in DOMAIN admissions' /\ admissions'[i] = admissions[i]
        /\ admissions # <<>> => admissions' # <<>> /\ row'.release = row.release
        /\ admissions' # <<>> => admissions'[1] = Base(row'.release)
    BY AdmissionsGrow, ProgramSteps
  <1>2. starter' # None => file' = "created" /\ admissions' # <<>> /\ starter' = row'.release
    <2>1. CASE CreateRuntime
      <3>1. admissions # <<>> /\ UNCHANGED <<row, admissions>>
        BY <2>1 DEF CreateRuntime, vars, ProgramInv, PaperBinding, PaperRestsOnEvidence, PaperActive
      <3>. QED
        BY <2>1, <3>1 DEF CreateRuntime
    <2>2. CASE UNCHANGED <<starter, file>>
      BY <1>1, <2>2 DEF HeldIsAdmitted
    <2>3. CASE starter' = None
      BY <2>3
    <2>. QED
      BY <2>1, <2>2, <2>3 DEF LedgersNext, allVars, ledgerVars, ProgramStep, BindRuntime,
           CrashStart, CommitThenHold, RetryAdmission, MirrorAdmission, CrashBeforeMirror,
           ReadProgramHead, CompareRuntimeHead, TakeDecision
  <1>3. file' = "bound" <=> ledger' # <<>>
    <2>1. CASE BindRuntime
      BY <2>1 DEF BindRuntime
    <2>2. CASE CreateRuntime
      BY <2>2 DEF CreateRuntime, HeldIsAdmitted
    <2>3. CASE UNCHANGED file /\ ~BindRuntime
      <3>1. UNCHANGED ledger \/ (ledger # <<>> /\ ledger' # <<>>)
        <4>1. ASSUME NEW x \in Admissions
              PROVE  Append(ledger, x) # <<>>
          BY <1>0
        <4>2. \A i \in DOMAIN admissions : admissions[i] \in Admissions
          BY <1>0
        <4>3. ASSUME ledger = <<>>
              PROVE  UNCHANGED ledger
          <5>1. file # "bound" /\ starter = starter
            BY <4>3 DEF HeldIsAdmitted
          <5>. QED
            BY <2>3, <5>1 DEF LedgersNext, allVars, ledgerVars, ProgramStep, CreateRuntime,
               CrashStart, CommitThenHold, RetryAdmission, MirrorAdmission, CrashBeforeMirror,
               ReadProgramHead, CompareRuntimeHead, TakeDecision
        <4>4. ASSUME ledger # <<>>, ~UNCHANGED ledger
              PROVE  ledger' # <<>>
          BY <4>1, <4>2, <4>4, LedgerGrows
        <4>. QED
          BY <4>3, <4>4
      <3>. QED
        BY <2>3, <3>1 DEF HeldIsAdmitted
    <2>. QED
      BY <2>1, <2>2, <2>3 DEF LedgersNext, allVars, ledgerVars, ProgramStep, CrashStart,
           CommitThenHold, RetryAdmission, MirrorAdmission, CrashBeforeMirror,
           ReadProgramHead, CompareRuntimeHead, TakeDecision
  <1>4. \A a \in Admitters : mirroring'[a] # None =>
           \E i \in DOMAIN admissions' : mirroring'[a] = admissions'[i]
    <2>. SUFFICES ASSUME NEW a \in Admitters, mirroring'[a] # None
                  PROVE  \E i \in DOMAIN admissions' : mirroring'[a] = admissions'[i]
      OBVIOUS
    <2>1. CASE mirroring'[a] = mirroring[a]
      BY <1>1, <2>1 DEF HeldIsAdmitted
    <2>2. CASE mirroring'[a] # mirroring[a]
      <3>1. \/ CommitThenHold(a)
            \/ RetryAdmission(a)
        <4>1. \A b \in Admitters :
                 (CommitThenHold(b) \/ RetryAdmission(b) \/ MirrorAdmission(b)
                    \/ CrashBeforeMirror(b)) => b = a
          BY <2>2 DEF CommitThenHold, RetryAdmission, MirrorAdmission, CrashBeforeMirror,
                      RuntimeTypeOK
        <4>2. ~MirrorAdmission(a) /\ ~CrashBeforeMirror(a)
          BY DEF MirrorAdmission, CrashBeforeMirror, RuntimeTypeOK
        <4>. QED
          BY <2>2, <4>1, <4>2 DEF LedgersNext, allVars, ledgerVars, ProgramStep, CreateRuntime,
               BindRuntime, CrashStart, ReadProgramHead, CompareRuntimeHead, TakeDecision
      <3>2. mirroring'[a] = LastOf(admissions') /\ admissions' # <<>>
        <4>1. CASE CommitThenHold(a)
          BY <1>0, <4>1 DEF CommitThenHold, CommitAdmission, RuntimeTypeOK
        <4>2. CASE RetryAdmission(a)
          BY <4>2 DEF RetryAdmission, RetriedAdmission, RuntimeTypeOK, vars, ProgramInv,
                      PaperBinding, PaperRestsOnEvidence
        <4>. QED
          BY <3>1, <4>1, <4>2
      <3>3. Len(admissions') \in DOMAIN admissions'
        BY <1>0, <3>2, LastOfTable
      <3>. QED
        BY <3>2, <3>3 DEF LastOf
    <2>. QED
      BY <2>1, <2>2
  <1>5. \A w \in Workers : ticking'[w] # None /\ ticking'[w].step = "synced" =>
           \E i \in DOMAIN ledger' : ticking'[w].release = ledger'[i].release
    <2>. SUFFICES ASSUME NEW w \in Workers, ticking'[w] # None, ticking'[w].step = "synced"
                  PROVE  \E i \in DOMAIN ledger' : ticking'[w].release = ledger'[i].release
      OBVIOUS
    <2>1. CASE ticking'[w] = ticking[w]
      BY <2>1, LedgerKeeps DEF HeldIsAdmitted
    <2>2. CASE ticking'[w] # ticking[w]
      <3>1. CompareRuntimeHead(w)
        <4>1. \A v \in Workers :
                 (ReadProgramHead(v) \/ CompareRuntimeHead(v) \/ TakeDecision(v)) => v = w
          BY <2>2 DEF ReadProgramHead, CompareRuntimeHead, TakeDecision, RuntimeTypeOK
        <4>2. ~ReadProgramHead(w) /\ ~TakeDecision(w)
          BY DEF ReadProgramHead, TakeDecision, RuntimeTypeOK
        <4>. QED
          BY <2>2, <4>1, <4>2 DEF LedgersNext, allVars, ledgerVars, ProgramStep, CreateRuntime,
               BindRuntime, CrashStart, CommitThenHold, RetryAdmission, MirrorAdmission,
               CrashBeforeMirror
      <3>2. /\ file = "bound" /\ UNCHANGED ledger
            /\ ticking'[w].release = LastOf(ledger).release
        BY <3>1 DEF CompareRuntimeHead, SameHead, RuntimeTypeOK
      <3>3. Len(ledger) \in DOMAIN ledger
        BY <1>0, <3>2, LastOfTable DEF HeldIsAdmitted
      <3>. QED
        BY <3>2, <3>3 DEF LastOf
    <2>. QED
      BY <2>1, <2>2
  <1>. QED
    BY <1>1, <1>2, <1>3, <1>4, <1>5 DEF HeldIsAdmitted

\* Every step keeps the runtime's ledger an initial part of the programme's.
LEMMA FollowStep ==
    ASSUME LedgersInv, [LedgersNext]_allVars
    PROVE  RuntimeFollowsProgram'
  <1>. USE DEF LedgersInv
  <1>0. /\ admissions \in Seq(Admissions) /\ admissions' \in Seq(Admissions)
        /\ ledger \in Seq(Admissions)
    BY ProgramInvStep DEF ProgramInv, TypeOK, RuntimeTypeOK
  <1>1. /\ Len(admissions) <= Len(admissions')
        /\ \A i \in DOMAIN admissions : i \in DOMAIN admissions' /\ admissions'[i] = admissions[i]
    BY AdmissionsGrow, ProgramSteps
  <1>2. Len(admissions) \in Nat /\ Len(admissions') \in Nat /\ Len(ledger) \in Nat
        /\ DOMAIN ledger = 1..Len(ledger) /\ DOMAIN admissions = 1..Len(admissions)
    BY <1>0
  <1>3. CASE UNCHANGED ledger
    BY <1>1, <1>2, <1>3 DEF RuntimeFollowsProgram
  <1>4. CASE ledger' = <<admissions[1]>> /\ admissions # <<>>
    <2>1. 1 \in DOMAIN admissions /\ Len(ledger') = 1 /\ DOMAIN ledger' = {1}
      BY <1>0, <1>4
    <2>. QED
      BY <1>1, <1>2, <1>4, <2>1 DEF RuntimeFollowsProgram
  <1>5. CASE /\ Len(ledger) + 1 \in DOMAIN admissions
             /\ ledger' = Append(ledger, admissions[Len(ledger) + 1])
    <2>1. admissions[Len(ledger) + 1] \in Admissions
      BY <1>0, <1>5
    <2>2. /\ Len(ledger') = Len(ledger) + 1 /\ DOMAIN ledger' = 1..(Len(ledger) + 1)
          /\ ledger'[Len(ledger) + 1] = admissions[Len(ledger) + 1]
          /\ \A i \in DOMAIN ledger : ledger'[i] = ledger[i]
      BY <1>0, <1>5, <2>1
    <2>. QED
      BY <1>1, <1>2, <1>5, <2>2 DEF RuntimeFollowsProgram
  <1>. QED
    BY <1>3, <1>4, <1>5, LedgerGrows

\* Every step binds periods to releases that both ledgers admit.
LEMMA PeriodsStep ==
    ASSUME LedgersInv, [LedgersNext]_allVars
    PROVE  PeriodsAreAdmitted'
  <1>. USE DEF LedgersInv
  <1>1. {ledger[i].release : i \in DOMAIN ledger} \subseteq {ledger'[i].release : i \in DOMAIN ledger'}
    BY LedgerKeeps
  <1>2. ASSUME NEW w \in Workers, TakeDecision(w)
        PROVE  periods' \subseteq {ledger[i].release : i \in DOMAIN ledger}
    BY <1>2 DEF TakeDecision, HeldIsAdmitted, PeriodsAreAdmitted
  <1>3. CASE UNCHANGED periods
    BY <1>1, <1>3 DEF PeriodsAreAdmitted
  <1>. QED
    BY <1>1, <1>2, <1>3 DEF PeriodsAreAdmitted, LedgersNext, allVars, ledgerVars, ProgramStep,
       CreateRuntime, BindRuntime, CrashStart, CommitThenHold, RetryAdmission, MirrorAdmission,
       CrashBeforeMirror, ReadProgramHead, CompareRuntimeHead

\* Every step keeps the invariant of the two ledgers.
LEMMA LedgersInvStep == LedgersInv /\ [LedgersNext]_allVars => LedgersInv'
  BY ProgramInvStep, RuntimeTypeStep, HeldStep, FollowStep, PeriodsStep DEF LedgersInv

\* Both databases keep their columns' types.
THEOREM LedgersTypeCorrect == LedgersSpec => []LedgersTypeOK
  <1>1. LedgersInv => LedgersTypeOK
    BY DEF LedgersInv, ProgramInv, RuntimeTypeOK, LedgersTypeOK
  <1>. QED
    BY <1>1, LedgersInvInit, LedgersInvStep, PTL DEF LedgersSpec

\* However the two commits interleave and whichever process dies between them, the
\* runtime's ledger is an initial part of the programme's.
THEOREM RuntimeNeverForks == LedgersSpec => []RuntimeFollowsProgram
  <1>1. LedgersInv => RuntimeFollowsProgram
    BY DEF LedgersInv
  <1>. QED
    BY <1>1, LedgersInvInit, LedgersInvStep, PTL DEF LedgersSpec

\* No period is ever bound to a release that a ledger does not admit.
THEOREM PeriodsStayAdmitted == LedgersSpec => []PeriodsAreAdmitted
  <1>1. LedgersInv => PeriodsAreAdmitted
    BY DEF LedgersInv
  <1>. QED
    BY <1>1, LedgersInvInit, LedgersInvStep, PTL DEF LedgersSpec

\* A retry supplies the programme's head only, and the runtime takes its next
\* admission only: once the two are apart by more than one, they stay apart.
THEOREM StrandedStays == LedgersSpec => StrandedForGood
  <1>1. ASSUME LedgersInv, [LedgersNext]_allVars, file = "bound", Stranded
        PROVE  Stranded'
    <2>. USE DEF LedgersInv
    <2>0. /\ admissions \in Seq(Admissions) /\ admissions' \in Seq(Admissions)
          /\ ledger \in Seq(Admissions) /\ ProgramInv'
      BY <1>1, ProgramInvStep DEF ProgramInv, TypeOK, RuntimeTypeOK
    <2>1. /\ Len(admissions) <= Len(admissions')
          /\ \A i \in DOMAIN admissions : i \in DOMAIN admissions' /\ admissions'[i] = admissions[i]
      BY <1>1, AdmissionsGrow, ProgramSteps
    <2>2. /\ Len(admissions) \in Nat /\ Len(admissions') \in Nat /\ Len(ledger) \in Nat
          /\ DOMAIN admissions = 1..Len(admissions)
      BY <2>0
    <2>3. UNCHANGED ledger
      <3>1. \A a \in Admitters : MirrorAdmission(a) => UNCHANGED ledger
        BY <1>1, MirrorIsNext DEF MirrorAdmission, Stranded
      <3>2. ~BindRuntime
        BY <1>1 DEF BindRuntime, HeldIsAdmitted
      <3>. QED
        BY <1>1, <3>1, <3>2 DEF LedgersNext, allVars, ledgerVars, ProgramStep, CreateRuntime,
           CrashStart, CommitThenHold, RetryAdmission, CrashBeforeMirror, ReadProgramHead,
           CompareRuntimeHead, TakeDecision
    <2>4. Len(ledger) + 1 \in DOMAIN admissions /\ Len(ledger) + 1 < Len(admissions')
      BY <1>1, <2>1, <2>2 DEF Stranded
    <2>5. LastOf(admissions') # admissions'[Len(ledger) + 1]
      <3>1. Len(admissions') \in DOMAIN admissions' /\ Len(ledger) + 1 \in DOMAIN admissions'
        BY <2>0, <2>1, <2>2, <2>4
      <3>2. ASSUME LastOf(admissions') = admissions'[Len(ledger) + 1]
            PROVE  FALSE
        <4>1. Len(admissions') = Len(ledger) + 1
          BY <2>0, <3>1, <3>2, ReleasesDiffer DEF LastOf, ProgramInv, LineageIsOneChain
        <4>. QED
          BY <2>2, <2>4, <4>1
      <3>. QED
        BY <3>2
    <2>6. ASSUME NEW a \in Admitters
          PROVE  mirroring'[a] \in {mirroring[a], None, LastOf(admissions')}
      BY <1>1 DEF RuntimeTypeOK, LedgersNext, allVars, ledgerVars, ProgramStep, CreateRuntime,
         BindRuntime, CrashStart, CommitThenHold, RetryAdmission, RetriedAdmission, vars,
         MirrorAdmission, CrashBeforeMirror, ReadProgramHead, CompareRuntimeHead, TakeDecision
    <2>7. None # admissions'[Len(ledger) + 1] /\ admissions'[Len(ledger) + 1] = admissions[Len(ledger) + 1]
      BY <2>0, <2>1, <2>4, AdmissionAssumption
    <2>. QED
      BY <1>1, <2>3, <2>4, <2>5, <2>6, <2>7 DEF Stranded
  <1>2. LedgersInv /\ [LedgersNext]_allVars
           => [file = "bound" /\ Stranded => Stranded']_allVars
    BY <1>1
  <1>. QED
    BY <1>2, LedgersInvInit, LedgersInvStep, PTL DEF LedgersSpec, StrandedForGood
===============================================================================
