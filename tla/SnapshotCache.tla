---------------------------- MODULE SnapshotCache ----------------------------
(***************************************************************************)
(* Market data snapshots: the index data_cache_entries and its governance  *)
(* (data_cache.py), the files and their catalog data_snapshots             *)
(* (storage.py), and the two flows that fill and use them: a backtest      *)
(* (backtest_engine.py) and the daily synchronisation (service.py).        *)
(*                                                                         *)
(* The threads of one process share the flight locks; the database and the *)
(* directory are used without a lock, each statement and each removal of a *)
(* directory on its own.  A builder's snapshot id and the key of its       *)
(* BUILDING row are made from its own id, so they are the builder here.    *)
(***************************************************************************)
EXTENDS Integers, Sequences, FiniteSets, SequencesExt, FiniteSetsExt

CONSTANTS
    Backtests, Syncs,  \* runs of BacktestService.run and of sync_data
    Operators,         \* threads that serve cache-prune
    Keys,              \* cache keys of the queries
    KeyOf,             \* the key each builder asks for
    Covers,            \* pairs: a snapshot of the first key serves the second
    Datasets,          \* what a snapshot consists of, in the order written
    Events,            \* the datasets registered as snapshot dependencies
    Limit,             \* disk_cache_bytes; every file counts 1
    None

Builders == Backtests \cup Syncs
Threads == Builders \cup Operators
RowKeys == Keys \cup Builders
Files == ToSet(Datasets)

ASSUME CacheConstants ==
    /\ Keys \cap Builders = {}
    /\ KeyOf \in [Builders -> Keys]
    /\ Covers \subseteq Keys \X Keys
    /\ Events \subseteq Files
    /\ Limit \in Nat
    /\ None \notin RowKeys
    /\ None \notin [snap : Builders, status : {"BUILDING", "READY", "FAILED"}, size : Nat]

VARIABLES
    rows,      \* data_cache_entries: [snap, status, size] of each key, or None
    recency,   \* the keys of rows by last_accessed_at
    files,     \* the files in each snapshot's directory; {}: no directory
    catalog,   \* the datasets of each snapshot that data_snapshots lists
    deps,      \* snapshot_dependencies, as <<snapshot, dataset>>
    result,    \* backtests: [status, ref] of each backtest
    lock,      \* holder of the flight lock of each key
    pc,        \* where each thread is
    hit,       \* the row a builder found: [key, snap]
    written,   \* how many datasets a builder has written and catalogued
    sweep      \* what a thread's prune has read: [todo, total, kept]

disk == <<rows, recency, files, catalog, deps>>
vars == <<disk, result, lock, pc, hit, written, sweep>>

NoSweep == [todo |-> <<>>, total |-> 0, kept |-> {}]

Init ==
    /\ rows = [k \in RowKeys |-> None]
    /\ recency = <<>>
    /\ files = [b \in Builders |-> {}]
    /\ catalog = [b \in Builders |-> {}]
    /\ deps = {}
    /\ result = [b \in Backtests |-> [status |-> "NONE", ref |-> None]]
    /\ lock = [k \in Keys |-> None]
    /\ pc = [t \in Threads |-> "idle"]
    /\ hit = [b \in Builders |-> None]
    /\ written = [b \in Builders |-> 0]
    /\ sweep = [t \in Threads |-> NoSweep]

At(t, place) == pc[t] = place
Go(t, place) == pc' = [pc EXCEPT ![t] = place]

Touched(k) == Append(SelectSeq(recency, LAMBDA j : j # k), k)
Whole(s) == files[s] = Files /\ catalog[s] = Files

\* Mutant: a way out keeps the flight lock.
LeaveLocked(b) ==
    /\ Go(b, "done")
    /\ UNCHANGED lock

\* Every way out of run and sync_data passes the finally block or the end of the
\* with block that releases the flight lock.
Leave(b) ==
    /\ Go(b, "done")
    /\ lock' = [lock EXCEPT ![KeyOf[b]] = None]

Conclude(b, status, ref) ==
    result' = IF b \in Backtests
              THEN [result EXCEPT ![b] = [status |-> status, ref |-> ref]]
              ELSE result

\* Mutant: the build starts in the row of the cache key itself.
BuildRowShared(b) == KeyOf[b]

\* begin_snapshot writes BUILDING under a key of its own.
BuildRow(b) == b

\* The except block: the BUILDING row, if it is still there, becomes FAILED, the
\* backtest as well; its snapshot_id stays what it was.
Raise(b) ==
    /\ rows' = IF rows[BuildRow(b)] = None THEN rows
               ELSE [rows EXCEPT ![BuildRow(b)].status = "FAILED",
                                 ![BuildRow(b)].size = Cardinality(files[b])]
    /\ Conclude(b, "FAILED", IF b \in Backtests THEN result[b].ref ELSE None)
    /\ Leave(b)
    /\ UNCHANGED <<recency, files, catalog, deps, hit, written, sweep>>

---------------------------------------------------------------------------
\* Looking up.

Start(b) ==
    /\ At(b, "idle")
    /\ Go(b, "waiting")
    /\ Conclude(b, "RUNNING", None)
    /\ UNCHANGED <<disk, lock, hit, written, sweep>>


Acquire(b) ==
    /\ At(b, "waiting")
    /\ lock[KeyOf[b]] = None
    /\ lock' = [lock EXCEPT ![KeyOf[b]] = b]
    /\ Go(b, "lookup")
    /\ UNCHANGED <<disk, result, hit, written, sweep>>

\* find: READY, of the key or covering it, and its directory exists.
Usable(k, b) ==
    /\ rows[k] # None
    /\ rows[k].status = "READY"
    /\ k = KeyOf[b] \/ <<k, KeyOf[b]>> \in Covers
    /\ files[rows[k].snap] # {}

\* find: the exact key before the others, those by last access.
Preferred(b) ==
    LET usable == SelectSeq(recency, LAMBDA k : Usable(k, b))
    IN CASE usable = <<>> -> None
         [] \E i \in DOMAIN usable : usable[i] = KeyOf[b] -> KeyOf[b]
         [] OTHER -> Last(usable)

FindHit(b) ==
    /\ At(b, "lookup")
    /\ Preferred(b) # None
    /\ Whole(rows[Preferred(b)].snap)
    /\ recency' = Touched(Preferred(b))
    /\ hit' = [hit EXCEPT ![b] = [key |-> Preferred(b), snap |-> rows[Preferred(b)].snap]]
    /\ Go(b, "loading")
    /\ UNCHANGED <<rows, files, catalog, deps, result, lock, written, sweep>>

\* Nothing usable, or refresh_data was asked for: begin_snapshot.
Begin(b) ==
    /\ At(b, "lookup")
    /\ rows' = [rows EXCEPT ![BuildRow(b)] = [snap |-> b, status |-> "BUILDING", size |-> 0]]
    /\ recency' = Touched(BuildRow(b))
    /\ Go(b, "writing")
    /\ UNCHANGED <<files, catalog, deps, result, lock, hit, written, sweep>>

\* The found snapshot is read, long after it was found; a file that is gone raises.
Load(b) ==
    /\ At(b, "loading")
    /\ IF Whole(hit[b].snap)
       THEN /\ IF b \in Backtests
               THEN Go(b, "replaying") /\ UNCHANGED lock
               ELSE Leave(b)
            /\ UNCHANGED <<disk, result, hit, written, sweep>>
       ELSE Raise(b)

\* _run_cached_backtest: the strategies ran; the source snapshot is recorded and
\* the row, if its key still has one, counts as used.
Replay(b) ==
    /\ At(b, "replaying")
    /\ Conclude(b, "SUCCEEDED", hit[b].snap)
    /\ recency' = IF rows[hit[b].key] = None THEN recency ELSE Touched(hit[b].key)
    /\ Leave(b)
    /\ UNCHANGED <<rows, files, catalog, deps, hit, written, sweep>>

---------------------------------------------------------------------------
\* Building.

\* write_bars, write_records: the finished file is moved into the directory,
\* which is created again if it is gone ...
WriteFile(b) ==
    /\ At(b, "writing")
    /\ written[b] < Len(Datasets)
    /\ files' = [files EXCEPT ![b] = @ \cup {Datasets[written[b] + 1]}]
    /\ Go(b, "written")
    /\ UNCHANGED <<rows, recency, catalog, deps, result, lock, hit, written, sweep>>

\* ... then its digest is taken, which raises if it is gone, and it is listed.
ListFile(b) ==
    /\ At(b, "written")
    /\ LET d == Datasets[written[b] + 1]
       IN IF d \in files[b]
          THEN /\ catalog' = [catalog EXCEPT ![b] = @ \cup {d}]
               /\ written' = [written EXCEPT ![b] = @ + 1]
               /\ Go(b, "writing")
               /\ UNCHANGED <<rows, recency, files, deps, result, lock, hit, sweep>>
          ELSE Raise(b)

\* The provider or a strategy raised.
Break(b) ==
    /\ pc[b] \in {"writing", "executing"}
    /\ Raise(b)

\* Every dataset is there; the event datasets become dependencies.
Execute(b) ==
    /\ At(b, "writing")
    /\ written[b] = Len(Datasets)
    /\ deps' = IF b \in Backtests
               THEN deps \cup {<<b, d>> : d \in Events \cap files[b] \cap catalog[b]}
               ELSE deps
    /\ Go(b, "executing")
    /\ UNCHANGED <<rows, recency, files, catalog, result, lock, hit, written, sweep>>

\* The strategies ran: the backtest refers to its snapshot from here on.
Record(b) ==
    /\ At(b, "executing")
    /\ Conclude(b, "SUCCEEDED", b)
    /\ Go(b, "publishing")
    /\ UNCHANGED <<disk, lock, hit, written, sweep>>

\* commit_snapshot: the BUILDING row must still be there; the row of the cache key
\* is replaced and the BUILDING row deleted in one transaction.
Commit(b) ==
    /\ At(b, "publishing")
    /\ IF rows[BuildRow(b)] # None /\ rows[BuildRow(b)].status = "BUILDING"
       THEN /\ rows' = [k \in RowKeys |->
                  CASE k = KeyOf[b] -> [snap |-> b, status |-> "READY", size |-> Cardinality(files[b])]
                    [] k = b -> None
                    [] OTHER -> rows[k]]
            /\ recency' = SelectSeq(Touched(KeyOf[b]), LAMBDA k : k # b)
            /\ Go(b, "listing")
            /\ UNCHANGED <<files, catalog, deps, result, lock, hit, written, sweep>>
       ELSE Raise(b)

---------------------------------------------------------------------------
\* prune: by an operator, or by a builder that has published.

Ask(t) ==
    /\ t \in Operators
    /\ At(t, "idle")
    /\ Go(t, "listing")
    /\ UNCHANGED <<disk, result, lock, hit, written, sweep>>

\* FAILED rows first, then the rest by last access.
PruneOrder ==
    LET failed(k) == rows[k].status = "FAILED"
    IN SelectSeq(recency, failed) \o SelectSeq(recency, LAMBDA k : ~failed(k))

ListRows(t) ==
    /\ At(t, "listing")
    /\ LET entry(k) == [key |-> k, snap |-> rows[k].snap,
                        failed |-> rows[k].status = "FAILED", size |-> rows[k].size]
       IN sweep' = [sweep EXCEPT ![t] =
            [todo |-> [i \in DOMAIN PruneOrder |-> entry(PruneOrder[i])],
             total |-> MapThenSumSet(LAMBDA k : rows[k].size, ToSet(recency)),
             kept |-> {}]]
    /\ Go(t, "protecting")
    /\ UNCHANGED <<disk, result, lock, hit, written>>

\* _protected_snapshot_ids: what backtests refer to when prune asks.
References == {result[b].ref : b \in Backtests} \ {None}

ReadReferences(t) ==
    /\ At(t, "protecting")
    /\ sweep' = [sweep EXCEPT ![t].kept = References]
    /\ Go(t, "pruning")
    /\ UNCHANGED <<disk, result, lock, hit, written>>

Target(t) == Head(sweep[t].todo)

\* Below the limit only FAILED rows are removed, and they come first.
Enough(t) ==
    sweep[t].todo # <<>> => sweep[t].total <= Limit /\ ~Target(t).failed

\* A dependency id names a snapshot and a dataset; it is compared with keys and
\* snapshot ids, and is never one.
Kept(t) ==
    \/ Target(t).snap \in sweep[t].kept
    \/ {Target(t).key, Target(t).snap} \cap deps # {}

EndPrune(t) ==
    /\ At(t, "pruning")
    /\ Enough(t)
    /\ sweep' = [sweep EXCEPT ![t] = NoSweep]
    /\ IF t \in Operators THEN Go(t, "idle") /\ UNCHANGED lock ELSE Leave(t)
    /\ UNCHANGED <<disk, result, hit, written>>

Skip(t) ==
    /\ At(t, "pruning")
    /\ ~Enough(t)
    /\ Kept(t)
    /\ sweep' = [sweep EXCEPT ![t].todo = Tail(@)]
    /\ UNCHANGED <<disk, result, lock, pc, hit, written>>

\* path.exists() ...
Choose(t) ==
    /\ At(t, "pruning")
    /\ ~Enough(t)
    /\ ~Kept(t)
    /\ Go(t, IF files[Target(t).snap] # {} THEN "removing" ELSE "forgetting")
    /\ UNCHANGED <<disk, result, lock, hit, written, sweep>>

\* ... and rmtree, which raises out of prune if the directory is gone by then.
RemoveTree(t) ==
    /\ At(t, "removing")
    /\ LET s == Target(t).snap
       IN IF files[s] # {}
          THEN /\ files' = [files EXCEPT ![s] = {}]
               /\ Go(t, "forgetting")
               /\ UNCHANGED <<rows, recency, catalog, deps, result, lock, hit, written, sweep>>
          ELSE IF t \in Operators
               THEN /\ Go(t, "idle")
                    /\ sweep' = [sweep EXCEPT ![t] = NoSweep]
                    /\ UNCHANGED <<disk, result, lock, hit, written>>
               ELSE Raise(t)

\* The catalog entries and then the row of the key, whatever it says by now.
Forget(t) ==
    /\ At(t, "forgetting")
    /\ LET r == Target(t)
       IN /\ catalog' = [catalog EXCEPT ![r.snap] = {}]
          /\ rows' = [rows EXCEPT ![r.key] = None]
          /\ recency' = SelectSeq(recency, LAMBDA k : k # r.key)
          /\ sweep' = [sweep EXCEPT ![t].todo = Tail(@), ![t].total = @ - r.size]
    /\ Go(t, "pruning")
    /\ UNCHANGED <<files, deps, result, lock, hit, written>>

\* The process dies with all its threads; a backtest stays RUNNING.
Crash ==
    /\ \E t \in Threads : pc[t] \notin {"idle", "done"}
    /\ pc' = [t \in Threads |-> IF t \in Operators \/ pc[t] = "idle" THEN "idle" ELSE "done"]
    /\ lock' = [k \in Keys |-> None]
    /\ hit' = [b \in Builders |-> None]
    /\ sweep' = [t \in Threads |-> NoSweep]
    /\ UNCHANGED <<disk, result, written>>

BuilderNext(b) ==
    \/ Start(b) \/ Acquire(b) \/ FindHit(b) \/ Begin(b) \/ Load(b) \/ Replay(b)
    \/ WriteFile(b) \/ ListFile(b) \/ Break(b) \/ Execute(b) \/ Record(b) \/ Commit(b)

PruneNext(t) ==
    \/ ListRows(t) \/ ReadReferences(t) \/ EndPrune(t) \/ Skip(t)
    \/ Choose(t) \/ RemoveTree(t) \/ Forget(t)

Next ==
    \/ \E b \in Builders : BuilderNext(b)
    \/ \E t \in Threads : PruneNext(t)
    \/ \E t \in Operators : Ask(t)
    \/ Crash

\* A thread that is at work goes on.
AtWork(b) == ~At(b, "idle") /\ (BuilderNext(b) \/ PruneNext(b))

Fairness == \A b \in Builders : WF_vars(AtWork(b))

Spec == Init /\ [][Next]_vars /\ Fairness

---------------------------------------------------------------------------
CacheTypeOK ==
    /\ \A k \in RowKeys : rows[k] # None =>
          rows[k] \in [snap : Builders, status : {"BUILDING", "READY", "FAILED"},
                       size : 0..Len(Datasets)]
    /\ ToSet(recency) = {k \in RowKeys : rows[k] # None}
    /\ Len(recency) = Cardinality(ToSet(recency))
    /\ files \in [Builders -> SUBSET Files] /\ catalog \in [Builders -> SUBSET Files]
    /\ deps \subseteq Backtests \X Events
    /\ result \in [Backtests -> [status : {"NONE", "RUNNING", "SUCCEEDED", "FAILED"},
                               ref : Builders \cup {None}]]
    /\ lock \in [Keys -> Builders \cup {None}]
    /\ hit \in [Builders -> [key : RowKeys, snap : Builders] \cup {None}]
    /\ written \in [Builders -> 0..Len(Datasets)]


\* A refresh that fails or dies does not cost the READY entry that was there
\* (test_failed_refresh_does_not_replace_ready_snapshot): it gives way only to
\* another READY one or to a prune that listed it.
ReadyGivesWayToReady ==
    [][\A k \in Keys :
        (rows[k] # None /\ rows[k].status = "READY" /\ rows'[k] # rows[k])
            => \/ rows'[k] # None /\ rows'[k].status = "READY"
               \/ \E t \in Threads : At(t, "forgetting") /\ Target(t).key = k]_vars

\* Every builder comes to an end and lets go of its key.
BuildersEnd == \A b \in Builders : At(b, "waiting") ~> At(b, "done") /\ lock[KeyOf[b]] # b

\* docs/backtesting.md:80: an evidence snapshot that a backtest refers to is not
\* removed automatically.
ReferencedSnapshotsStay ==
    \A b \in Backtests : result[b].ref # None => files[result[b].ref] = Files
===========================================================================
