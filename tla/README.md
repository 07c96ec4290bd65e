# A verification development for the research platform

This directory holds TLA+ models of the parts of the research platform that keep
state over time, TLC configurations that check them on small instances, and TLAPS
proofs of what holds for every instance. Paths are relative to `src/`; unqualified
file names are in `research_platform/`.

Contents: [1 the system](#1-the-system) · [2 modules](#2-modules-and-their-correspondence-with-the-code) ·
[3 runs](#3-runs) · [4 findings](#4-what-the-runs-found) · [5 proofs](#5-proofs) ·
[6 not modelled](#6-what-is-not-modelled) · [7 what is left](#7-what-is-left)

## 1. The system

The repository is a Chinese/US equity research platform. Most of its lines are
numeric: signal functions, evidence parsers, one-off studies, conversions from files
to files. What has a protocol of its own falls in three groups.

**The US momentum production line** takes a strategy from point-in-time (PIT) data over
a historical replay and a data-source shadow to a paper account that a scheduled worker
runs unattended. It is kept in several SQLite databases, by commands started by
operators and by a task scheduler, any of which may die at any statement.

```
  PIT catalog ──release──▶ lifecycle gate ──head of the lineage──▶ runtime worker ──▶ paper executor
  (us_pit/)               (us_program.py)                        (us_paper_runtime.py) (us_paper.py)
                            ▲   ▲   ▲                                   ▲                  ▲
     historical replay ─────┘   │   └── paper qualification     TDX quotes, calendar   month-end decision
     (us_momentum_backtest.py)  │      (us_paper_qualification.py)  (us_tdx.py)       (us_paper_decision.py)
                        TDX shadow collector (us_tdx_shadow.py)
```

**The research service** answers HTTP requests and command lines: background jobs, a cache
of market data snapshots and features that both fill and prune, backtests, and accounts
in which people decide the signals of scans.

```
  api.py ──submit──▶ jobs.py ──▶ service.py ──▶ backtest_engine.py ──▶ data_cache.py, storage.py
                                     └─ scan ─▶ strategies ──signals──▶ portfolio.py
```

**The forward ledgers** record what strategies say of each new session or week, and never
of an old one: the weekly triangle and the V9/repo observer.

### 1.1 Inventory

| component | state | operations | hard because | correct when |
|---|---|---|---|---|
| Lifecycle gate, `us_program.py` | one row, its log, the ledger of admitted releases | `register_*`, `start_paper_collection`, `admit_paper_release`, `status` | verification takes minutes outside the transaction; calls are repeated; a second release follows a failure | the row is what the log says, evidence counts once and for its own release, the lineage is one chain |
| Release ledgers, `us_program.py`, `us_paper_runtime.py`, `__main__.py` | the admissions, in two databases | `us-paper start`, `admit-release`, `tick` | no transaction spans both | the runtime never leaves the chain, a divergence heals |
| Paper executor, `us_paper.py` | account, periods, orders, positions, observations, fills, corporate actions, cash ledger | `create_period`, `record_observation`, `tick`, `execute_intraday_stop`, `kill`, `acknowledge_data_recovery`, `apply_corporate_actions` | quotes come late, in any order or never; actions come late or from another release | fills explain the book and the cash, a missed stop is made good, nothing is bought out of its window |
| Runtime worker, `us_paper_runtime.py` | lease, staging, published status | `tick`, `kill` | several transactions per tick, a kill between them | an unstaged session buys nothing, the published status is in the end the account's |
| Month-end decision, `us_paper_decision.py` | the period, its write-once archive | `decide` in retry slots | a fetch over midnight, two deciders, a crash between period and archive | one causal decision, archived |
| TDX shadow, `us_tdx_shadow.py` | lease, slots, openings, seal | `tick`, `reconcile_raw_opens` | the lease runs out during the fetch, the seal is not read again | one worker for a slot, a seal that stands |
| Historical replay, `strategies/us_momentum_backtest.py` | session, positions, pending orders | one session | actions, gaps, forced exits, orders and lows in one pass | no position escapes its stop or its universe |
| Jobs, `jobs.py`, `api.py` | table, fingerprints, queue | submit, run, release, shutdown | handlers ask before they submit | one flight per call, every job ends |
| Memory, features and snapshots, `data_cache.py`, `backtest_engine.py`, `storage.py`, `service.py` | LRU; directory, row and flight lock; rows, files, catalog, references | get, put, build, publish, prune | locks cover one process, directories and rows are changed apart | limits hold, locks are let go, a READY entry is not lost |
| Daily backtest, `backtest_engine.py` | positions, pending signals, groups | one day | exits are blocked by limits for days, entries lapse | an exit takes the first opening |
| Portfolio, `portfolio.py`, `storage.py` | signals, orders, positions, fills | scan, decide, fill | people decide while a scan runs, a scan comes days late | fills explain the holdings, one order per signal |
| Weekly triangle, `weekly_triangle_observations.py`, `strategies/weekly_triangle.py` | setups, breakouts, the strategy's memory | scan, refresh | a refresh waits minutes between its read and its write | a week is recorded as it was, a conversion stands |
| V9/repo observer, `v9_repo_forward_shadow.py` | an append-only chain, the channel lock | `capture_live` | a process with a timeout commits after its deadline | a chain without gaps, loans settled once |

The other components are conversions, evaluations or wiring; `PROJECT.json` lists them
with the reason, section 6 sums it up. The hazards — where this code could go wrong in
ways a unit test hardly reaches — are in `PROJECT.json` at their lines, with the
properties that would notice.

## 2. Modules and their correspondence with the code

| module | what it is |
|---|---|
| `USProgram` | the lifecycle gate with its log, its ledger and concurrent admitters |
| `QualificationGate` | the abstract gate: what the rest of the platform relies on |
| `PaperReleaseLedgers` | `USProgram` and the runtime's ledger, with crashes between the two |
| `USPaper` | the paper executor |
| `USPaperRuntime` | `USPaper` and the worker that drives it |
| `USPaperActions` | corporate actions, dividends and the cash of one sleeve |
| `USPaperDecision` | the month-end decision and its archive |
| `USPaperLease` | the frame of a worker's tick: lease, kill, published status |
| `USTdxShadow` | the collector of quote evidence |
| `USReplay` | the historical replay |
| `JobManager`, `MemoryLRU`, `FeatureFrames`, `SnapshotCache` | the research service's jobs and the three levels of its cache |
| `DailyBacktest` | the day loops of the single-stock and the pair backtest |
| `PaperPortfolio` | the accounts in which people decide |
| `WeeklyTriangle`, `V9RepoShadow` | the forward ledgers |
| `MCUSProgram`, `MCUSPaperRuntime`, `MCPaperServices`, `MCResearch`, `MCSnapshotCache`, `MCRecords` | instances for TLC |
| `USProgramProofs`, `PaperReleaseLedgersProofs`, `USReplayProofs` | theorems about the module they are named after |
| `USPaperProofs` | theorems about `USPaper` and `USPaperRuntime` |
| `PaperServicesProofs` | about `USPaperDecision`, `USPaperLease` and `USPaperActions` |
| `ShadowAndAccountsProofs` | about `USTdxShadow` and `PaperPortfolio` |
| `ResearchProofs` | about `JobManager` and `MemoryLRU` |
| `RecordsProofs` | about `V9RepoShadow`, `WeeklyTriangle`, `SnapshotCache` and `DailyBacktest` |

`PROJECT.json` maps each definition to the lines it stands for. In every module a call
that the code rejects, or answers idempotently, changes nothing: it is a stuttering step
and so no action. SQLite transactions are atomic, durable and serialised.

### USProgram, QualificationGate, PaperReleaseLedgers

| code | model |
|---|---|
| the row of `us_program_state` | `row`; the payload columns keep a hash and a verdict |
| `us_program_events`, `us_program_paper_release_admissions` | `events`, `admissions` |
| what a running `admit_paper_release` holds | `pending[a]` |
| `_idempotent_or_conflict` | the guard `~Recorded(kind, hash)` |
| the `register_*` methods, `start_paper_collection` | the action of that name |
| `admit_paper_release` | `VerifyAdmission`, then `CommitAdmission` or `AbandonAdmission` |
| the runtime's database file: missing, schema only, bound | `file` |
| `us_paper_runtime_release_admissions` | `ledger` |
| an `admit-release` process between its commits, a `tick` between its reads | `mirroring[a]`, `ticking[w]` |
| the releases monthly periods are bound to | `periods` |

A release is a model value with three attributes: whether its data gates hold (`Ready`), the
catalog it is stored in (`Catalog`) and its certified months (`History`). The candidate
check — every row and input of every old month identical, one month more at least — is
`Extends`. Evidence is a hash and a verdict; any verdict may come at any time. A failed
replay (`HISTORICAL_FAILED`) accepts a new release; no registration leaves `PAPER_BLOCKED` or
`PAPER_QUALIFIED`.

`QualificationGate` has three variables and five actions and knows nothing of evidence,
logs or retries. `ImplementsGate` is the refinement: the stage is a function of
`row.state`, the lineage is the column of releases in `admissions`. It lets the lineage
grow after the verdict, because the code does (section 4, observations).

`us-paper start` is `CreateRuntime` (the schema script commits by itself) and `BindRuntime`,
with `CrashStart` between. `us-paper admit-release` is `CommitThenHold` or `RetryAdmission`
(the answer for the release already at the head), then `MirrorAdmission` or
`CrashBeforeMirror`. A tick is `ReadProgramHead`, `CompareRuntimeHead`, `TakeDecision`.

### USPaper, USPaperRuntime

| code | model |
|---|---|
| now, the session and its windows | `clock`: before the open, in the capture window, until the close, after it |
| `us_paper_orders` | `orders[d][s]`, one order per security and execution session |
| `us_paper_positions` | `positions[s]`: stop price and recovery session |
| `us_paper_observations` | `opens[s]`, `dailies[s]` of the current session |
| `us_paper_fills` | `fills`, identified by security, session, side and reason |
| `closed_at` of `us_paper_sessions` | `closed` |
| what a running worker's tick has still to record | `worker` |

`Tick` is the whole of `tick`, in its order: expiry of orders whose open did not come
(`Expired`), the quotes that may be processed now (`Due`: a BUY waits inside the window
until every required quote is there), risk and recovery exits, SELLs, BUYs within the
position limit, then — after the close — marks, newly missed stops and degradation.
Which affordable BUYs are taken is a choice among the sets the limit admits, so the
properties hold whatever the money says. Stops are `StopDistance` below the entry.
`QuotesAgree` says whether the feed's captured open and its daily bar's open are one number.
The worker's tick is `BeginOpenTick`, `BeginMonitorTick` or `BeginCloseTick`, then one
transaction per `ObserveOpen`, `StopHeld` or `ObserveDaily`, and `FinishTick`, which is
`USPaper!Tick`; `Crash` or `Kill` may come between any two. One worker: the scheduled task
ignores a new instance while one runs (`USPaperLease` has several).

### USPaperActions, USPaperDecision, USPaperLease

`USPaperActions` has integers where `USPaper` has none: shares, ratios, prices, cash in lieu,
dividends owed. `rows` is `us_paper_corporate_actions`; `book` is what the one transaction
of `apply_corporate_actions` changes. `Apply` is that transaction: insert, settle in order, pay what is
due. An action that comes after the opening is BLOCKED for ever, one found unsafe after its
fraction was paid is BLOCKED with the cash kept: both as the code does. While
`ActionsConflict` refuses the batch no tick goes on to orders.

`USPaperDecision` is one month-end: `Begin` in a slot, `Fetch` (which may end in a later
slot, after midnight or badly), `Create`, which commits the period with the time the caller
gave or the clock's, then `CheckPointer`, `WriteScratch`, `Replace` for the archive. `PassNow` are
the callers that give the time they began at. Signals are a function of the bars.

`USPaperLease` keeps only what surrounds a tick: `BeginTick` reads the time, `Acquire` takes the
lease with it, `Judge` reads the account, `Publish` writes the status; `KillAccount` and
`ShowKill` are the kill command's two databases.

### USTdxShadow

One session of the window. Time counts slots; a tick takes the lease with the time it began at
(`TakeLease`), reads the seal and the missing symbols (`Look`), asks for quotes outside of any
transaction and writes (`Record`), without looking at the seal again. `Lag` bounds how old
the time a tick was called with may be when it takes the lease.

### USReplay

| code | model |
|---|---|
| the loop over sessions | `Trade`, one step per session |
| `_apply_corporate_actions`, one action after the other in the order of security ids | `Applied`, over the sequence of the day's actions |
| `_execute_session`: gaps, forced exits, SELLs, BUYs, lows | `Gapped`, `Forced`, `sold`, `MayBuy`/`Bought`, `Dipped`, in this order |
| rows, documented halts, gaps in the data | `Bar`, `Halted`, `Missing` |
| the month-end: strategy and membership exits | `Decide` |
| any exception | `Raise`, which ends the replay |

Prices are in the units of the position they meet: an action moves a stop by the factor it
moves the price by. Which BUYs the cash allows is a choice.

### JobManager, MemoryLRU, FeatureFrames, SnapshotCache

`JobManager` has the threads of the HTTP server (`caller`) and of the pool (`worker`):
a handler may ask for an active job before it submits; `submit` is entering the table under
the lock (`Enter`) and then handing over to the executor (`HandOver`), possibly after a `Shutdown`; a
finished job still holds its fingerprint until `Release`.
`MemoryLRU` has one step per eviction, since the machine's memory is asked again
before each. `FeatureFrames` has two steps for `rmtree`; `SnapshotCache` has one step
per statement and per removed directory: builders (backtests and synchronisations) look up,
build, publish and prune, operators prune, and a crash loses a process's locks but none of
its files.

### DailyBacktest

`NextDay` is one trading day for single stocks (`TradeStocks`: due SELLs, then BUYs while the
limits leave room beside the codes another component has reserved, then `Roll`, then
the day's signals) and for groups (`TradeGroups`: both legs or none). Prices become four
kinds of opening. `Reserved` computes what the component that ran first holds each day.

### PaperPortfolio

A scan is a sequence of transactions: each pending order is filled, cancelled or left
(`Sell`, `Buy`), then signals are stored (`Save`; exits approved as they are made, entries
proposed), then approved ones become orders (`QueueApproved`); it may die between any two
(`StopScan`). `Check` and `Decide` are an operator's SELECT and its transaction. Two strategies
may hold the same code.

### WeeklyTriangle, V9RepoShadow

Time is the completed week, or the session. A scan of the triangle holds the machine-wide data
channel from begin to end; a refresh is `Rebuild`, `ReadPending`, `Fetch` (which needs the channel) and
`WriteBack`. `remembered` is the strategy's memory of the week it analysed last: the candidates among
what the first scan of the week looked at (`Analyse`, over any set of codes: a code that is sampled out,
suspended, ineligible or held on the day of that scan is not looked at). Later scans of the week take
it over, and `Capture` records what is in it.
A capture of the observer is a command with a disposable process: preflight,
`Connect`, `Collect` under the channel, a second preflight, `ReadChain`, `AppendCapture`,
`Answer`; `TimeOut` kills it anywhere and looks at the chain to say what happened. While the chain is empty
`NextSession` waits for running commands: an assumption about the first capture, section 3.

## 3. Runs

Components that share no variable are checked side by side in one run: a variable `which`
chooses one in the initial state, and only that one moves (`Moves`), so the run's states
are the sum and not the product of the components'. Fairness is restated on these steps.

| run | module | distinct states | asks |
|---|---|---|---|
| `program` | `MCUSProgram` | 124,200 | is the gate sound and a `QualificationGate`; do the two ledgers stay together and heal; does a replay watch every position? |
| `paper` | `MCUSPaperRuntime` | 2.4 million | does the executor keep its book, limit and stops, called freely and by its worker; is a slot one worker's; do the accounts' fills explain their holdings? |
| `services` | `MCPaperServices` | 376,000 | is a decision causal, archived and made; is cash explained and a dividend paid; does a kill show? |
| `research` | `MCResearch` | 77,000 | do jobs, flights and builders end; are calls flown once and memory bounded? |
| `records` | `MCRecords` | 0.9 million | is a READY snapshot kept; do the forward ledgers record what happened, once; does an exit take the first opening? |
| `paper_resume`, `runtime_conflict`, `shadow_sealed` | `MCUSPaperRuntime` | violation | section 4 |
| `decision_now` | `USPaperDecision` | violation | section 4 |
| `actions_late` | `MCPaperServices` | violation | section 4 |
| `snapshot_reference` | `MCSnapshotCache` | violation | section 4 |
| `triangle_conversions` | `WeeklyTriangle` | violation | section 4 |

### program

*Programme.* `EvidenceCountsOnce`: replays never count twice. `RowReplaysLog`: each evidence
column is the last decision of its kind since the last release, so none is lost and none
survives a new release. `PaperRestsOnEvidence`, `QualifiedReleaseIsFrozen`, and the refinement
`ImplementsGate`. Six releases — a chain of three, a fork of it, one in another catalog,
one not ready — are one representative of each answer the candidate check can give, and
three chained releases let two admitters race twice; two hashes let a decision be replayed and
superseded. No counter is capped: every log is finite because evidence counts once.

*Ledgers.* `RuntimeFollowsProgram`: the runtime's ledger is a prefix of the programme's.
`PeriodsAreAdmitted`: a decision's release is in it, although the tick reads one head before it
opens the other database. `RetryHeals`: every divergence is repaired by running the command
again, except the one `StrandedForGood` describes: two admissions reached the programme
before either was mirrored, and only the newer can ever be handed out again. Three releases are
the least with which the programme is two ahead; one worker suffices, as workers write
neither ledger.

*Replay.* `EveryPositionIsWatched`: after a session every held security was halted with a
record of it or traded above its stop all day, also if it was bought or arrived by an action
that day. `OutsidersLeave`: a position outside the universe at a month-end does not outlive the next
session, and one that an action marked waits for a halt only. Three
securities and five sessions let a spinoff, a merger and a split meet positions that are
leaving, with room for two; two prices put a quote at the stop or above it.

*Fairness* in `ledgers`: a verification under way ends (weak), an operator whose command did
not end in success runs it again, and not every such run dies before it mirrors (strong,
since a crash disables and re-enables both steps). The code has no retry of its own: it
answers a repeated admission with the one at the head so that the command can be run again, and until
the ledgers agree every tick ends in `ADMITTED_RELEASE_LEDGER_OUT_OF_SYNC`.

### paper

*Executor and worker.* `FillsExplainBook`: purchases less sales are what is held, and FILLED orders
are exactly those with a fill, so the `INSERT OR IGNORE` of a fill never swallows one.
`PositionLimit`, over every split of an opening into ticks. `BreachIsRemembered`, `RecoveryTakesFirstOpen`,
`RecoveryBlocksBuys`: the life of a missed stop, from its first evidence to the exit.
`ClosedSessionIsSettled`: nothing waits after the closing tick. `KillIsFinal`. `BuysShareTheWindow`:
no BUY of a session is filled while another waits or has expired, since the executor waits for
the complete set inside the window; the worker, whose own gate is all or nothing, inherits it over crashes. Three sessions are one to plan, one
to trade and plan again, and one to trade with a book (a missed stop of the second is
exited in the third); two securities with one slot make the limit bind and let an
exit free it for a BUY; the code only compares prices with stops, so two prices do.

*Shadow.* `OneWorkerPerSlot`: ticks of two workers are never in flight for one slot, although a lease
is taken with a past time and runs out during the fetch. Two ticks of one worker and one of
another over four slots, a lease of three slots and a lag of one (the code's 120 s
and 60 s, in slots that may seem to end up to one early).

*Accounts.* `FillsExplainAccounts`: each approved order is filled once and the fills are the
holdings, with two people deciding while scans run. `OneSessionBuysAreFresh`: a BUY valid for one
session never fills at an open before its approval. Two strategies, one with signals of
one session and one of two, and the same code; two days and two signals let the second
day's scan meet the first's order.

### services

*Decision.* `PeriodIsCausal`: the period is of the month-end, after the close, and not dated
before the bars it rests on. `ArchiveIsCommitted`: what is archived was committed, and the one archived as
created is the period's, whichever ticks race or die. `MonthEndGetsItsPeriod`: on a planned day — every
slot begun, every tick ended, a usable answer in the last slot, no crash and no kill — there is a period
with its archive. Three slots and three ticks (one scheduled) let a fetch end in the next slot or after
midnight; two versions of the bars let a revision arrive between retries. Fairness: weak, of the
planned day's steps; it is the schedule of `scripts/` and `docs/us-momentum-production.md`.

*Actions.* `CashIsExplained`: cash is the initial cash, the fills and the cash ledger, and the
shares follow from fills and applied actions. `DueDividendsArePaid`: no tick goes on to orders
with a dividend due, also for days on which none ran. Seven actions over three days — every kind, one into
a security already held, one with an unpriced fraction and one unsound — and a head that may roll
forward on any of them.

*Lease.* `KillShows`: after a kill the published status is in the end never `RUNNING`, although a
tick that looked before may publish after. Two scheduled ticks with one worker id and one of another.
Fairness: the scheduler starts ticks for ever and one that is not killed ends; crashes are at most
`MaxCrashes` (1).

### research

`OneFlightPerFingerprint`, `HandedOverJobsFinish` (fairness: a pool thread keeps running, job functions
return, an HTTP thread that entered a job reaches the executor; nothing is assumed of new
requests), `WithinLimit` (sizes 0 to the limit of 3), `FlightsEnd` (a thread inside the `with` block
goes on; nothing is said of who gets the lock next), `BuildersEnd` (a builder at work goes on; a crash
ends it, and its lock with it). Two HTTP threads, two pool threads and three jobs let a job be
submitted again before its predecessor has released; two threads of one process and one of
another let a feature be built while it is removed; a backtest and two synchronisations publish
and prune.

### records

*Snapshots.* `ReadyGivesWayToReady`: a READY entry gives way only to another READY one or to a
prune that listed it. Three backtests — two of one key, one of a range it covers — an operator that prunes,
a limit that is always exceeded, failures and crashes.

*Observer.* `CapturesFormAChain`, `EveryLoanSettlesOnce`, `StoredIsNotReportedLost`: two commands over four
sessions, each process killed at any point. A loan needs three captures to be settled twice. The
environment is assumed to begin no session while a command runs that could store the chain's first
capture (`NextSession`): the code does not check it, since its preflight finds no gap in an empty
chain (`v9_repo_forward_shadow.py:592-594`), and two commands of different sessions that both saw it
empty could otherwise leave a gap between the first two captures.

*Triangle.* `OutcomesAreEarned`: only the first setup of an episode is resolved, as converted only beside a
breakout of the ledger in its window and as not converted only when the window has passed, whatever
refreshes write back. `OnlyAnOverlapReopens`: an outcome is taken back only by a refresh that
read it before a scan changed it. That every candidate of a week is recorded is no property: the code
does not see to it (section 4). One stock, four weeks, gap 2 and window 3 (the code's 14 and 35
days, scaled to weeks so that an episode can end and a window pass), two refreshes.

*Daily.* `ExitsTakeTheFirstOpening`: an exit stays pending until its position has gone, and only a limit, a
missing bar or the day of the purchase keeps it there; so for a pair's close. Two stocks beside a reserved
third, one pair, four days: two to buy and be blocked, two to be blocked again and be sold.

All configurations say `CHECK_DEADLOCK FALSE`: the programme ends in a final verdict with every
release admitted, days, sessions and weeks are bounded, and a killed account with nothing to do stops.
Symmetry (securities, backtests of one key, commands, refreshes) is used in runs without liveness
only.

## 4. What the runs found

Each of these is a run that must end in the violation; the full text is in `PROJECT.json`.

1. `paper_resume` — nothing a worker does ever ends `DATA_DEGRADED`; the only assignment of RUNNING is
   `acknowledge_data_recovery`, which no command calls, while the disabled resume command says that "A
   subsequent verified worker tick owns recovery" (`__main__.py:2521`).
2. `runtime_conflict` — observations are also matched by security, session and kind (`us_paper.py:1352`) and
   contain their fetch time, so a second capture tick conflicts under a new key, and a quote
   that failed once is never made good.
3. `decision_now` — the scheduled command passes the time it read before the fetch (`__main__.py:2206`), so
   every observation is from the future and no month-end gets a period.
4. `actions_late` — an action first seen after the opening is BLOCKED as late (`us_paper.py:774`) and the
   tick goes on with unadjusted stops.
5. `shadow_sealed` — the seal is read before the quotes are asked for and not when they are
   written (`us_tdx_shadow.py:448`).
6. `snapshot_reference` — prune lists rows and reads the references once (`data_cache.py:406-416`). A backtest
   whose directory it listed as BUILDING records its result after that, as SUCCEEDED with this snapshot
   (`backtest_engine.py:964-976`, before `commit_snapshot`); the prune of another backtest then removes
   the directory (435-437).
7. `triangle_conversions` — a refresh writes back what it read before a scan recorded a conversion
   (`weekly_triangle_observations.py:156`).

Met while modelling, and part of the models unless marked (*not modelled*):

- *Programme.* `admit_paper_release` tests the state before its verification and not under the lock
  (`us_program.py:1616`, `1822`): a programme blocked meanwhile still gets the admission. `status` reads
  row and log in two statements (`865`, `872`), so a concurrent registration makes it raise
  (*not modelled*). A start that dies after the schema script (`us_paper_runtime.py:248`) leaves a file that
  `start` refuses and no tick can open.
- *Executor.* A captured open above the stop with a daily bar whose own open is at it falls
  between the two callers of `_schedule_recovery_exit` (`us_paper.py:2118`, `2133`): `BreachIsRemembered` needs
  `QuotesAgree`. An order WAITING_OPEN left on an old ticker blocks every alias migration
  (`2908`; *not modelled*).
- *Actions.* The hash of an action covers the release it came with: when the head rolls forward on an
  ex-date, the next tick's replay of the same action is refused (`us_paper_runtime.py:578`), against the docstring at
  `us_paper.py:545`, and every later tick of the day ends there, stops included. An action into a
  successor that is held is BLOCKED but its cash in lieu stays (`us_paper.py:991-1022`). A spinoff
  may exceed `max_positions`; a merger or termination of a security that is not held leaves its
  waiting BUY; actions of a day without a tick are never handed over.
- *Lease.* All scheduled ticks share the worker id `windows-task-scheduler`, so the lease excludes nothing
  among them; a kill's display can be overwritten until the next tick. The shadow's command-line
  processes share an id in the same way.
- *Decision.* A crash between period and archive leaves the archive missing for ever; the loser of a
  concurrent decision archives its own; the pointer's temporary name is fixed.
- *Shadow.* `reconcile` with a later `observed_at` is refused although its docstring (563-564) calls it
  idempotent.
- *Cache.* The dependency ids prune compares are made in another format (`data_cache.py:428`,
  `backtest_engine.py:885`) and never match; a prune that fails after the publication marks a successful backtest
  FAILED (`backtest_engine.py:977-979`); a refresh orphans the earlier directory (`data_cache.py:283`); a feature
  rebuild raises when prune removes the directory at the same time (`354-356`).
- *Jobs.* A plug-in reload checks for active jobs and reloads in two steps (`api.py:255-262`). A
  submit to a pool that was shut down meanwhile raises after the job was entered (`jobs.py:46`): the entry stays
  QUEUED and keeps its fingerprint. `HandedOverJobsFinish` speaks of jobs the pool has received and does not
  forbid it.
- *Accounts.* Two deciders both pass the pending check and the later one's answer stands; the EXPIRED update is
  rolled back by the exception that follows it; `expire_signals` has no caller; signals valid for more than one
  session are filled at an open before their approval; a second SELL of the same day outlives its position and
  sells a later one; catch-up scans fill out of market-time order.
- *Replay.* A SELL ordered at a month-end whose security is converted on the execution day is
  dropped (positions are keyed by id, `us_momentum_backtest.py:527-531`) against "Orders execute once" (156-157); the
  successor of a split has no forced exit until the next month-end, unlike a merger's; a
  documented halt on the day an order falls due ends the whole replay; dividends not yet paid are not in
  the equity (*not modelled*).
- *Daily backtest.* Codes of the Chan component are reserved only between its first and last trade
  (`backtest_engine.py:4283-4303`), so positions it still holds afterwards are not; a position whose stock drops out
  of the V2/V3 eligibility is invisible and cannot be sold although it trades (`2249`, `2275`); a pair whose short leg the
  cash cannot buy back stays open for ever.
- *Triangle.* The week's memory holds what its first scan looked at, and its signature does not say what that
  was (`strategies/weekly_triangle.py:112-113`): later full scans take it over (`184-204`), so a candidate
  that was sampled out, or suspended, ineligible or held on that day (`218-224`), never enters the
  ledger, against `docs/weekly-triangle-research.md:70`; `hypothesis_selected` is ranked again at every rebuild though line 74 says frozen; a
  BLOCKED observation is never looked at again.
- *Observer.* An intraday capture is possible and write-once although the manifest (84) says after the close; one
  missed session blocks for ever while the status says COLLECTING; a timeout compares counts only, so
  another command's commit is reported as RECOVERED (1205-1222).

## 5. Proofs

TLAPS proves, from the named assumptions of each module and for every value of its
constants:

| module | theorems | about |
|---|---|---|
| `USProgramProofs` | `TypeCorrect`, `AuditIsExact`, `EvidenceOnce`, `RowIsReplay`, `PaperOnEvidence`, `ReleaseStaysBound`, `VerdictStays`, `LineageNeverForks`, `ProgrammeImplementsGate` | `TypeOK`, `AuditMatchesRow`, `EvidenceCountsOnce`, `RowReplaysLog`, `PaperRestsOnEvidence`, `QualifiedReleaseIsFrozen`, `PaperVerdictIsFinal`, `LineageIsOneChain`, `ImplementsGate` |
| `PaperReleaseLedgersProofs` | `LedgersTypeCorrect`, `RuntimeNeverForks`, `PeriodsStayAdmitted`, `StrandedStays` | `RuntimeFollowsProgram`, `PeriodsAreAdmitted`, `StrandedForGood` |
| `USPaperProofs` | `PaperTypeCorrect`, `LimitHolds`, `RecoveryStopsBuying`, `RecoveryIsNotPutOff`, `SessionsAreSettled`, `BreachesAreKept`, `FillsAreTheBook`, `BuysComeTogether`, `KillStays` | the executor's invariants, `FillsExplainBook` and `BuysShareTheWindow` among them, and `KillIsFinal` |
| | `WorkerTypeCorrect`, `WorkerKeepsTheBook`, `WorkerCannotRevive` | the same of the worker |
| `PaperServicesProofs` | `DecisionTypeCorrect`, `PeriodNeverLooksAhead`, `ArchiveFollowsPeriod` | `PeriodIsCausal`, `ArchiveIsCommitted` |
| | `LeaseTypeCorrect`, `LeaseIsNotStolen` | `LeaseRunsOutFirst` |
| | `ActionsTypeCorrect`, `CashIsAccountedFor`, `DividendsArePaidWhenDue` | `CashIsExplained`, `DueDividendsArePaid` |
| `ShadowAndAccountsProofs` | `ShadowTypeCorrect`, `OneWorkerForEverySlot`, `EvidenceStands` | `OneWorkerPerSlot`, `EvidenceIsWrittenOnce` |
| | `PortfolioTypeCorrect`, `AccountsAreExplained`, `OneSessionBuysStayFresh` | `FillsExplainAccounts`, `OneSessionBuysAreFresh` |
| `ResearchProofs` | `JobsTypeCorrect`, `CallsFlyOnce`; `LimitIsKept` | `OneFlightPerFingerprint`; `WithinLimit` |
| `RecordsProofs` | `ChainHasNoGap`, `LoansSettleOnce`, `NothingStoredIsLost` | `CapturesFormAChain`, `EveryLoanSettlesOnce`, `StoredIsNotReportedLost` |
| | `OutcomesHaveGrounds`, `OutcomesReopenOnlyByOverlap` | `OutcomesAreEarned`, `OnlyAnOverlapReopens` |
| | `ReadyRowsLast` | `ReadyGivesWayToReady` |
| | `DailyTypeCorrect`, `ExitsAreFilledFirst` | `ExitsTakeTheFirstOpening` |
| `USReplayProofs` | `ReplayTypeCorrect`, `PositionsAreWatched`, `OutsidersAreGone` | `EveryPositionIsWatched`, `OutsidersLeave` |

Every safety and action property of a passing run is stated by one of them.

The assumptions type the constants, say that a model value for "none" is no row, and keep what the
code checks before it uses a value:
`ReleaseAssumption`, `AdmissionAssumption`, `PaperAssumption`, `RowAssumption`, `JobConstants` (there are
workers, and the bound on jobs is positive), `MemoryConstants`, `ShadowConstants`, `CacheConstants` (the key
of an entry is no path of a building one), `PortfolioConstants` (a one-session signal stands one
day), `ActionsConstants` (ids in the order of the batch; ratios have a positive denominator; a sound
dividend or termination names its cash), `ReplayConstants` (a stop lies below the entry; a universe
consists of the replay's securities), `DailyConstants`, `TriangleConstants` (gap and window are naturals), and the `Constants` of the decision and the lease.
Two carry weight: `ShadowConstants` has 2 * `Lag` < `LeaseSlots`, without which two workers may hold one
slot, and `BreachesAreKept` assumes `QuotesAgree`.

**Programme.** `QualifyWrites` reduces the five registrations to one event whose evidence the log lacks;
types, the audit and uniqueness follow from that alone. `PaperRestsOnEvidence` is not inductive: nothing keeps
a data release from replacing the bound one under a lineage. `PaperBinding` adds that a lineage exists
only from the start of paper on, when no registration that moves the release is open, and that `DATA_READY`
means the release is ready (which the gate's `PassBacktest` needs). `LineageIsOneChain` is not inductive because the
commit appends what was verified long before: `PendingVerified` says that what an admitter holds was
verified against the head it holds, the recheck of the head under the lock makes this head the current
one, and `ExtendsTransitive` carries it to all earlier releases. The refinement needs all of them.

**Ledgers.** `LedgersInv` is the programme's invariant, the types of the runtime, the two properties and
`HeldIsAdmitted`: an admission that waits to be mirrored is the one the programme's ledger has, the first
admission is the base of the release under test, the runtime's file is bound exactly when its ledger has an
entry, and the head a tick has seen synchronised is in the ledger. So what the runtime appends continues a
prefix.

**Executor.** `SleeveInv`: types; the position limit; a held position with a recovery exit pending means that the
account is not RUNNING; orders of a closed session do not wait; a breach whose bar was processed left its
exit. One lemma for each part of `Tick`, in the order of the code, since each part of the invariant is
only restored by a later part. `FillsExplainBook` counts: that a fill is never one already there
needs `FillsAreDated` — a fill of today from an opening is of a security whose quote is processed,
and one of an intraday stop is of a security that is gone while the window is over, so that it is not bought
back that session. `BuysShareTheWindow` needs `NoneExpiresEarly`: in the window no order has expired, so a tick
that buys has the complete set or is the one that expires the rest. The worker's steps are calls of
the executor, ticks or stutters (`WorkerSteps`), so `WorkerInv` has all of this and the invariants of its own
tables.

**Decision.** `DecisionInv`: what a process holds is sound for the slot it began in (`Sound`), what it archives was
committed (`Committed`), and the row is sound (`RowSound`).

**Lease and shadow.** `NoFutureTime` (a process holds no time later than now) makes the lease's expiry at least as early as
the code's own reading. In the shadow `LeaseCovers`: a tick in flight for a slot was begun under a lease of its worker, and a
lease outlives the lag of every tick that may still come for the same slot.

**Actions.** `CashIsExplained` is a sum over two sets and follows from `Unposted`: the cash that does not
come from the ledger changes with the fills alone. Each piece of a settlement — the fraction, the shares, a
dividend owed or paid, a termination — keeps it, because a credit enters cash and ledger together and
only under a key the ledger lacks (`CreditBalances`); `BookSound` adds what that rests on: one claim per
action, a claim paid when its entry is there, none paid before its day. The batch is a recursive function over
the ids; `Settles` is carried through it by the least id at which it fails. `MarksTheBook`, the
mark of each of today's fills in the book, makes a fill a new element of the set. `PaidUp`: while a tick that has
settled its actions is in flight, nothing due is unpaid.

**Accounts.** `AccountInv`: an order that a scan has on its list is pending when the list is made and is
looked at once (`ScanKnows`), an order is FILLED exactly when one fill is its own (`FillsOnce`), and of a
code a strategy has one BUY more than SELLs while it holds it (`PositionsBalance`). `OneSessionBuysAreFresh` needs that the approval was
in time when it was given, when it was queued and when the order was made (`DecisionsInTime`,
`OrdersInTime`): an operator's check and decision are two steps.

**Replay.** `WhatASessionLeaves`: a position after a session is a BUY of the day above its stop, or came through all
the passes — the actions, the gaps and forced exits, the SELLs, the lows. `OutsidersAreOrdered` — a month-end's decision orders every position outside the
universe away and buys none of them — is what makes `OutsidersLeave` inductive over the night. The chain
of a day's actions is unfolded by its least counterexample.

**Jobs, memory.** `JobsInv`: an active fingerprint points at its job (`Pointed`), a job is in the queue at most once
(`QueuedOnce`), entered by one thread (`EnteredOnce`) and run by one (`RunOnce`). `MemoryInv`: what an
unfinished put took out has room again after the evictions (`RoomForPrevious`), since the code puts it back when memory is low.

**Observer.** What a command has read or checked is older than the chain it appends to. `CheckedStaysGood`: it is at most
one session ahead of the chain, and one that is ahead has read all of it, because only captures of the next
session are ever appended. `GoodChain` has the settlements: a capture settles, in order, the loans made up to two
captures before it. `VerdictIsRight` relates a command's counts to the chain. The first two captures follow each
other because `NextSession` waits for commands while the chain is empty, an assumption about the environment.

**Triangle.** `TriangleInv`: an outcome that a refresh has read is earned as well (`ReadOutcomesAreEarned`), so
writing it back does no harm; what earns it stays, because breakouts and weeks only grow and rows are
added for the current week alone, which begins no earlier episode anew (`EarnedStays`). For
`OnlyAnOverlapReopens`: all scans of a week find the same outcome of a row (`FoundThisWeek`), so an outcome a
refresh has read can have been taken back but not changed (`ReadOutcomesHold`), and one it missed was found
this week (`OnlyNewOutcomesAreMissed`).

**Snapshots, days.** `IndexInv` types the index and the directories; a builder writes in a row of its own until
it commits (`RowsOfTheIndex`), so failing or dying it takes only that row with it. `DailyInv` is the types, with nothing made later than today; the rest is one
lemma for the stocks and one for the pairs of a day.

Only model-checked: liveness (`RetryHeals`, `MonthEndGetsItsPeriod`, `KillShows`, `HandedOverJobsFinish`, `FlightsEnd`,
`BuildersEnd`), which rests on fairness and ENABLED; the whole of `FeatureFrames`, whose one property is
liveness; `CacheTypeOK` (`IndexInv` is what the proof needs of it); and the violations of
section 4. No module declares a RECURSIVE operator. What a recursive function computes is proved without an
induction theorem, whose operator parameter no installed prover instantiates: `WFMin` gives the least argument
at which a statement fails, and one unfolding contradicts it.

## 6. What is not modelled

- Numeric evaluation (scores, metrics, qualification, promotion, validation gates, the minute replay of the
  Chan strategy): pure functions of immutable inputs; their verdicts are inputs of the models.
- Parsing, capture and reconciliation of market evidence (the `sse_*`, `bse_*`, `cninfo_*` and
  `official_*` families, the security master, the early-winner and delisted-history studies): conversions of
  files to files, the greater part of the lines, without state that outlives a call.
- The PIT store (`us_pit/`): content-addressed, each attempt writes names of its own. A capture that crosses
  midnight in New York publishes a day with the next day's data, `write_source_batch` copies two files
  one after the other, and an override is approved in two statements; these are single-writer conversions
  with no protocol to compose.
- `EarlyWinnerTrading` is archived (`docs/architecture.md:48`).
- HTTP routes other than those that submit, front end, composition, configuration: wiring.
- Of modelled components: the executor's ticker aliases, the runtime's preflight, frozen accounts and order
  groups of the portfolio, the observer's virtual positions, the triangle's returns and ranks; in
  the backtests fees, sizes and marks; `_fill_us_pending`, which no enabled strategy reaches, since US strategies are
  replayed by `run_backtest`.

## 7. What is left

1. `USPaperActions` over `USPaper`: actions, aliases and orders of one session in one model,
   with the integer cash of the opening.
2. The PIT store's overrides and source batches with a crash between their statements.
3. The portfolio's order groups and frozen accounts.
4. Proofs: an abstract cache — a map from keys to complete values — that `SnapshotCache` implements, and
   an abstract ledger of forward outcomes that `WeeklyTriangle` implements outside of the overlaps.
