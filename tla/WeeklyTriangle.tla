---------------------------- MODULE WeeklyTriangle ----------------------------
(***************************************************************************)
(* The forward observation ledger of the weekly triangle strategy.  A full  *)
(* scan of the market records the week's SETUP and BREAKOUT candidates and  *)
(* says which earlier setups a breakout has converted; a refresh reads the  *)
(* open rows, waits for the machine-wide data channel to fetch their bars,  *)
(* and writes the rows back.  A scan holds the channel from its beginning   *)
(* to its end, its own refresh included.                                   *)
(*                                                                         *)
(* Time is the completed week: the 14 days between episodes and the 35 of   *)
(* the conversion window are whole weeks.  Scores, ranks, bars and the      *)
(* returns of the breakouts are left out; of a setup only its               *)
(* conversion_status is kept, which its status and dates follow.  A scan    *)
(* looks at the codes it has fetched that are eligible, have traded on its  *)
(* latest day and are not held: any set of codes, sampled or not.  The      *)
(* strategy's parameters, with which it would forget the week, stay.        *)
(***************************************************************************)
EXTENDS Integers, Sequences

CONSTANTS
    Codes,
    EpisodeGap,  \* SETUP_EPISODE_GAP_DAYS, in weeks
    Window,      \* SETUP_CONVERSION_DAYS, in weeks
    Refreshers,  \* the API's job and the command lines
    LastWeek,    \* bound on the weeks explored
    Scan         \* the scan's own refresh

ASSUME TriangleConstants == EpisodeGap \in Nat /\ Window \in Nat

VARIABLES
    shape,      \* what the market showed in each completed week
    remembered, \* strategy_runtime_states: the candidates of the week analysed last
    setups,     \* the SETUP rows: <<code, week>> to its conversion_status
    breakouts,  \* the BREAKOUT rows
    scan,       \* the scan that holds the channel, or "idle"
    refresh     \* the refreshes under way

triangleVars == <<shape, remembered, setups, breakouts, scan, refresh>>

week == Len(shape)

Stages == {"none", "SETUP", "BREAKOUT"}
Resolved == {"CONVERTED", "NOT_CONVERTED"}

NoRows == <<>>
Quiet == [pc |-> "idle", looked |-> NoRows, pending |-> {}]

TriangleInit ==
    /\ shape = <<>>
    /\ remembered = [week |-> 0, codes |-> {}]
    /\ setups = NoRows
    /\ breakouts = {}
    /\ scan = "idle"
    /\ refresh = [r \in Refreshers \cup {Scan} |-> Quiet]

-------------------------------------------------------------------------------
\* The rows, and the ones that are missing of others.
With(rows, others) ==
    [row \in DOMAIN rows \cup DOMAIN others |->
        IF row \in DOMAIN rows THEN rows[row] ELSE others[row]]

\* A row begins an episode unless the one before it is near.
BeginsEpisode(rows, row) ==
    ~\E other \in DOMAIN rows :
        /\ other[1] = row[1]
        /\ other[2] < row[2]
        /\ row[2] - other[2] <= EpisodeGap

\* Mutant: the episodes are rebuilt from nothing.
RebuiltAfresh(rows) ==
    [row \in DOMAIN rows |->
        IF BeginsEpisode(rows, row) THEN "PENDING" ELSE "NOT_APPLICABLE"]

\* An outcome that is known stays.
Rebuilt(rows) ==
    [row \in DOMAIN rows |->
        IF ~BeginsEpisode(rows, row) THEN "NOT_APPLICABLE"
        ELSE IF rows[row] \in Resolved THEN rows[row] ELSE "PENDING"]

Converts(breakout, row) ==
    /\ breakout[1] = row[1]
    /\ row[2] < breakout[2] /\ breakout[2] <= row[2] + Window

Converted(rows, found) ==
    [row \in DOMAIN rows |->
        IF rows[row] = "PENDING" /\ \E b \in found : Converts(b, row)
        THEN "CONVERTED" ELSE rows[row]]

\* Mutant: the window is counted with the setup's own week in it.
ExpiredEarly(rows) ==
    [row \in DOMAIN rows |->
        IF rows[row] = "PENDING" /\ row[2] <= week - (Window - 1)
        THEN "NOT_CONVERTED" ELSE rows[row]]

Expired(rows) ==
    [row \in DOMAIN rows |->
        IF rows[row] = "PENDING" /\ row[2] <= week - Window
        THEN "NOT_CONVERTED" ELSE rows[row]]

Candidates(stage) ==
    {<<c, week>> : c \in {c \in remembered.codes : shape[week][c] = stage}}

-------------------------------------------------------------------------------
\* Scans and refreshes are over before another week is complete.
NextWeek ==
    /\ week < LastWeek
    /\ scan = "idle"
    /\ \A r \in Refreshers : refresh[r].pc = "idle"
    /\ \E shown \in [Codes -> Stages] : shape' = Append(shape, shown)
    /\ UNCHANGED <<remembered, setups, breakouts, scan, refresh>>

\* A scan takes the channel and analyses what it looks at, unless a scan of the week has
\* analysed before: then it takes over the candidates of that one, and adds none.
Analyse(kind, seen) ==
    /\ scan = "idle" /\ week > 0
    /\ scan' = kind
    /\ remembered' =
           IF remembered.week = week THEN remembered
           ELSE [week |-> week, codes |-> {c \in seen : shape[week][c] # "none"}]
    /\ UNCHANGED <<shape, setups, breakouts, refresh>>

\* One transaction: the rows not there yet, the episodes, the conversions, the rest of
\* whose window has passed.
Capture ==
    /\ scan = "full"
    /\ breakouts' = breakouts \cup Candidates("BREAKOUT")
    /\ setups' = Expired(Converted(
           Rebuilt(With(setups, [row \in Candidates("SETUP") |-> "PENDING"])),
           Candidates("BREAKOUT")))
    /\ scan' = "captured"
    /\ UNCHANGED <<shape, remembered, refresh>>

\* Also when the scan fails, or the ledger's update within it.
EndScan ==
    /\ scan # "idle"
    /\ scan' = "idle"
    /\ refresh' = [refresh EXCEPT ![Scan] = Quiet]
    /\ UNCHANGED <<shape, remembered, setups, breakouts>>

-------------------------------------------------------------------------------
\* The rows are read before the first UPDATE begins the transaction.
Look(r) ==
    /\ refresh[r].pc = "idle"
    /\ r = Scan => scan = "captured"
    /\ scan' = IF r = Scan THEN "refreshing" ELSE scan
    /\ refresh' = [refresh EXCEPT ![r] = [Quiet EXCEPT !.pc = "rebuilding", !.looked = setups]]
    /\ UNCHANGED <<shape, remembered, setups, breakouts>>

Rebuild(r) ==
    /\ refresh[r].pc = "rebuilding"
    /\ setups' = With(Rebuilt(refresh[r].looked), setups)
    /\ refresh' = [refresh EXCEPT ![r] = [Quiet EXCEPT !.pc = "reading"]]
    /\ UNCHANGED <<shape, remembered, breakouts, scan>>

ReadPending(r) ==
    LET open == {row \in DOMAIN setups : setups[row] = "PENDING"}
    IN  /\ refresh[r].pc = "reading"
        /\ refresh' = [refresh EXCEPT ![r] =
               IF open = {} THEN Quiet
               ELSE [Quiet EXCEPT !.pc = IF r = Scan THEN "writing" ELSE "fetching",
                                  !.pending = open]]
        /\ UNCHANGED <<shape, remembered, setups, breakouts, scan>>

\* The scan's refresh has its bars; another one waits for the channel, or fails.
Fetch(r) ==
    /\ refresh[r].pc = "fetching"
    /\ scan = "idle"
    /\ \/ refresh' = [refresh EXCEPT ![r].pc = "writing"]
       \/ refresh' = [refresh EXCEPT ![r] = Quiet]
    /\ UNCHANGED <<shape, remembered, setups, breakouts, scan>>

\* A setup's outcome is PENDING whatever its bars are: only a scan can convert it.
WriteBack(r) ==
    /\ refresh[r].pc = "writing"
    /\ \E fetched \in SUBSET Codes :
           setups' = [row \in DOMAIN setups |->
               IF row \in refresh[r].pending /\ row[1] \in fetched
               THEN "PENDING" ELSE setups[row]]
    /\ refresh' = [refresh EXCEPT ![r] = Quiet]
    /\ UNCHANGED <<shape, remembered, breakouts, scan>>

Refresh(r) == Look(r) \/ Rebuild(r) \/ ReadPending(r) \/ Fetch(r) \/ WriteBack(r)

TriangleNext ==
    \/ NextWeek
    \/ \E kind \in {"full", "stratified"}, seen \in SUBSET Codes : Analyse(kind, seen)
    \/ Capture
    \/ EndScan
    \/ \E r \in Refreshers \cup {Scan} : Refresh(r)

TriangleSpec == TriangleInit /\ [][TriangleNext]_triangleVars

-------------------------------------------------------------------------------
\* What an outcome of a row takes: the row begins its episode, and the ledger holds a
\* breakout in the row's window, or the window has passed.
Earned(outcome, row) ==
    /\ outcome \in Resolved => BeginsEpisode(setups, row)
    /\ outcome = "CONVERTED" => \E b \in breakouts : Converts(b, row)
    /\ outcome = "NOT_CONVERTED" => row[2] <= week - Window

\* The summary counts no outcome twice and none too early: whatever scans recorded, and
\* whatever a refresh wrote over it that had read the rows before, only the first setup of
\* an episode is resolved, as converted only beside a breakout of the ledger, and as not
\* converted only when its window is over.
OutcomesAreEarned == \A row \in DOMAIN setups : Earned(setups[row], row)

\* A refresh that has read the row when it was not resolved, and not written it yet.
Stale(r, row) ==
    \/ row \in refresh[r].pending
    \/ row \in DOMAIN refresh[r].looked /\ refresh[r].looked[row] \notin Resolved

\* An outcome is final: no later scan, sampled or full, and no rebuilding of the episodes
\* takes it back, only a refresh that had read the row before the outcome was recorded.
OnlyAnOverlapReopens ==
    [][\A row \in DOMAIN setups :
          setups[row] \in Resolved /\ setups'[row] # setups[row] =>
              \E r \in Refreshers \cup {Scan} : Stale(r, row)]_triangleVars

\* A claim of the docs that fails: a setup records whether the same stock breaks out in
\* the strictly later 35 days.  In particular no setup is NOT_CONVERTED whose breakout
\* the ledger itself holds.
ConversionsAreTrue ==
    \A row \in DOMAIN setups :
        setups[row] = "NOT_CONVERTED" => ~\E b \in breakouts : Converts(b, row)
===============================================================================
