# Verification of backtrader-mcp

TLA+ models of the stateful core of `backtrader-mcp` (the Python package under
`src/backtrader_mcp/`), TLC configurations that check them on small instances, and proofs
that TLAPS checks for every value of the constants. Paths and line numbers below are
relative to the repository root; file names without a directory are in
`src/backtrader_mcp/`.

1. [The system](#1-the-system)
2. [The modules](#2-the-modules)
3. [What the runs check](#3-what-the-runs-check)
4. [Where the code differs from what it says](#4-where-the-code-differs-from-what-it-says)
5. [What is proved](#5-what-is-proved)
6. [Fairness](#6-fairness)
7. [What is not modelled](#7-what-is-not-modelled)
8. [Plan](#8-plan)

## 1. The system

An MCP server lets a language model write a trading strategy as a *draft*, validate it,
ask for it to be run on a registered dataset, and apply it to a directory of the user's.
A person approves runs and changes from a terminal. Everything durable is in one
*state root*: an SQLite database (`state.py`), content-addressed objects, draft and job
directories, lock files, transaction journals. Several processes share it: the server
(whose tool calls run in threads, next to a watchdog thread), one detached worker per job,
that worker's candidate processes, and every invocation of the command line, each of
which also runs the recovery of `service.py` 45-49 when it starts.

| Component | State | Operations | Talks to | What makes it correct |
|---|---|---|---|---|
| Job lifecycle: `jobs.py`, `worker.py`, `process_control.py` | the `job` row (state, pids, heartbeat, result), process handles | start, worker's run loop, status, cancel, watchdog tick, recover, clean | SQLite compare-and-set, signals, the lock `job:{id}` | state order; a terminal state is final; SUCCEEDED means every execution delivered; ORPHANED is true of the process; cancel ends the job; every job ends; no process outlives its job |
| Run authorization: `jobs.py` 153-546, `security.py`, `state.py` 282-370 | `run_plan`, `approval`, `nonce`, `idempotency` and `job` rows | prepare, approve (CLI), start | locks `run-plan:{id}` and `job-concurrency` | one worker per plan; one job per approval; the cap is exact; a failed attempt costs nothing that cannot be replaced; what runs is what was approved |
| Target transactions: `changes.py` | target directory, stage, backup, journal, `change` row | prepare, approve, apply, recover | lock `change:{id}`, file system | the target is always one whole tree; only the approved preimage is replaced; an applied change is in place |
| Dataset store: `data.py` | CAS objects, manifests, `dataset` rows | register, derive, read, clean | file system then rows; candidates read the objects | a registered dataset stays readable; one source digest names one content; a DataSpec rests on aligned feeds; a table is its source bar for bar; a feed overlap is counted exactly; an accepted feed can be built |
| Drafts: `drafts.py` | draft directories and rows, validation rows | create, update, repair, validate, clean | lock `draft:{id}`, validation tokens | a planned draft is one that was validated, unchanged; a revision names one content; a repair happens once; a planned draft is not cleaned |
| Catalog: `catalog.py` | `catalog_source`, `dual_corpus` rows | refresh, search, dual corpus | `replace_prefix`, `replace_kind` | a snapshot is what a scan without the cache would give; its entries can be searched; a search misses no match and its pages are its list |
| State store: `state.py` | the tables | put, update with expected revision, nonces, idempotency, approvals | SQLite transactions | each operation is atomic |
| Locks: `locks.py` | flock per name | acquire | all of the above | one holder; released on return, exception and death |
| Tokens and paths: `security.py` | signing key, nonces | issue, verify, consume, `confined_path` | state store | a token is used once |
| Reports: `reports.py`, and the checks of results in `worker.py` 195-275, 459-494 | none | normalize, compare, check evidence, rank a sweep | | symmetric, idempotent; honest evidence is accepted; the best leads the ranking |
| Validation, contracts, scaffold, runtime probe, doctor, catalog parsing | none, or read only | static analysis, code generation, probes | subprocesses | pure functions of their input |
| Server, service, CLI | wiring | dispatch of calls, recovery at start, watchdog thread | everything | |

The hard behaviours, each listed with its line under `hazards` in `PROJECT.json`:

* the job row has many concurrent writers (starting call, worker, status, cancel,
  watchdog, recovery) which decide from an earlier read;
* a start and an apply write several rows in separate transactions and can stop after any
  of them; the order of these writes decides what a retry finds;
* the apply's directory swap must survive a crash at any statement, including one in its
  own recovery, and recovery runs unlocked in every new process;
* locks cover one id each: two plans, or two change sets for one target, run in parallel;
* file writes precede row writes, and collectors collect references before they delete;
* reads without a lock (a draft's row and its files, a source file hashed and then parsed,
  a cache and the tree it describes) meet writers at any point between them;
* the numeric parts have edges: stamps that fall together when they are cut to seconds or
  to an adapter's grain, the first rows of a derived column, three feeds instead of two,
  ties in a ranking.

## 2. The modules

```
JobRecord     <-implements-  JobLifecycle       <-- MCJobLifecycle      (TLC)
                                                <-- JobLifecycleProofs  (TLAPS)
                             RunAuthorization   <-- MCRunAuthorization
                                                <-- RunAuthorizationProofs
TargetRecord  <-implements-  TargetTransaction  <-- MCTargetTransaction
                                                <-- TargetTransactionProofs
DatasetRecord <-implements-  DatasetStore       <-- MCDatasetStore
                                                <-- DatasetStoreProofs
                             DraftRevision      <-- MCDraftRevision
                                                <-- DraftRevisionProofs
                             CatalogRefresh     <-- MCCatalogRefresh
                                                <-- CatalogRefreshProofs
FeedData, Reports, CatalogSearch  <-- Algorithms  <-- MCAlgorithms
                                                <-- AlgorithmsProofs
Sorting  <-- Reports, CatalogSearch, InductionLemmas;  InductionLemmas  <-- AlgorithmsProofs
```

The stateful modules meet at a few rows. `RunAuthorization` ends a start with `Launch`, where
`JobLifecycle` begins with `CreateJobRecord`, and sees everything `JobLifecycle` does to a job
as active, then ended. `DraftRevision` ends with a prepared plan, which is where a plan of
`RunAuthorization` begins; a content of `DatasetStore` is the outcome of `FeedData`'s
canonicalisation. `TargetTransaction` and `CatalogRefresh` share no row with the others. They
are separate because no property relates their details, and a product of them would only hide
the interleavings that matter.

**Grain.** One step is one SQLite transaction, one lock, one signal, one process creation,
one call that touches the file system, or one read that a later step depends on. Statements
between two such points touch only the call's own variables. `atomic_write` (write, sync,
rename) is one step; `shutil.rmtree` is two, since a half-removed tree is a state others can
see.

In each module the comment `Mutation:` marks an operator that is not part of the model: a
plausible bug in the definition that follows it, which the run of the property it is paired
with in `PROJECT.json` must catch.

### JobRecord and JobLifecycle

`JobRecord` is the promise a reader of the row relies on: QUEUED, RUNNING, an optional
CANCEL_REQUESTED, one terminal state that only retention removes, and a result exactly when
SUCCEEDED. `JobLifecycle` is one job with everybody who touches it. (`clean_jobs`, `status`
and the others treat the jobs of a list independently.)

| Variable | In the code |
|---|---|
| `job` | the row: `state`, whether `started_at` and a result are set, whether `worker_pid` is recorded, which execution's `child_pid` is recorded |
| `starter` | the statement of `start_strategy_run` from `_create_job_record` to the pid write (`jobs.py` 329-546) |
| `worker`, `execution` | the statement of `run_worker`/`_execute_mode` (`worker.py` 361-721) and the run mode and parameter variant it is at |
| `candidate` | the process of each execution: running, or its exit and result file |
| `signalled` | SIGTERMs sent and not delivered |
| `call` | per caller: operation, statement, and its own copy of the pids it read |
| `clock` | the wall clock against the run's deadline and against the watchdog's |

The job's file lock needs no variable: `Begin` refuses a second locking operation, and
`OneLockHolder`, a part of the proved invariant, says so. `recover_jobs` takes no lock in the
code and takes none here. Abstractions: pids are not reused (the README of the project names
that risk itself); a process that a SIGTERM reaches ends in one step, as nothing in the
package installs a handler (`terminate_pid` sends no SIGKILL, so a strategy that installs one
lives on: `process_control.py` 68-77; `terminate_popen`, by which the worker ends its own
candidate, does send one); a heartbeat may be found stale at any time
once the run has started, which allows every timing of the heartbeat thread; error texts,
`finished_at`, log files and result links are left out.

### RunAuthorization

The rows of `run_plan`, `approval`, `nonce`, `idempotency` and `job`, the two locks, and any
number of calls of `start_strategy_run`, one step per statement. A job row remembers in
`strayed` whether its worker executed inputs other than the frozen ones. `draft` is a version
number that stands for all the inputs a plan freezes (draft, dataset, runtime, validation): the
start compares them with the plan in the same way (`jobs.py` 452-471) and each can change
independently of it. `CheckApproval` and `CreateApproval` are two steps because
`approve_run_plan` checks the plan and inserts the approval in separate transactions. Left out:
`prepare_strategy_run`'s own key, `clean --kind approvals|nonces|idempotency` (it deletes rows
that are expired), and the response payload.

Plans, approvals, keys and jobs are finite sets of ids, so every behaviour stops when they
are used up: `CHECK_DEADLOCK FALSE`. The same holds of the other stateful modules, where a
job or a change reaches its end, a source, revision or edit bound is reached.

### TargetRecord and TargetTransaction

`TargetRecord` says that the target's tree changes only as a whole, from the exact preimage of
a prepared change to that change's tree. `TargetTransaction` is `apply_strategy_changes` with
`_replace_tree` (`changes.py` 200-305) and `recover_transactions` (307-335). A directory is
the original tree, a change's tree, `partial` or `absent`; manifests compare trees, so equal
trees are equal values. Calls of different changes, recoveries and deaths interleave at every
statement, as they do in the code: the lock is per change set and recovery takes none. A
process that has died is started again and goes through all journals before it serves, while
the others may go on serving: a recovery lists them once (`BeginRecovery`, into `todo`), reads
them one by one (`ReadJournal`; one that another recovery has removed makes it raise,
`Abandon`), and its removals leave a tree partial before it is absent (`RecoverRemoves`);
`ComeUp` is its return.

Two history variables say what has met. `beside` holds the changes whose apply has had another
process at work beside it. `mixed` says that an apply or a recovery began while another
process was at work, or an apply began upon the journal that another change had left, or a
change was prepared on a target that was moved aside. Neither guards an action. The properties
say by them what they do not claim; section 4 shows for each exemption what happens without it.

The refinement maps `tree` to `Visible`: the target, or, while it has been moved aside, the
backup of the change whose stage is about to replace it. Left out: the approval and the
idempotency key of apply, and changes of the draft after prepare, both checked before the
first step that changes anything.

### DatasetRecord and DatasetStore

`DatasetRecord` promises that what is registered stays registered and that a dataset of
several feeds rests on registered datasets. `DatasetStore` is `register_dataset`,
`register_data_spec`, `derive_tabular_dataset`, a read of the canonical paths, and
`clean_cas` (`data.py` 121-262, 434-435, 552-1127), step by step.

| Variable | In the code |
|---|---|
| `source` | the bytes of each source file, which anyone may edit at any time (`EditSource`) |
| `objects` | each file under the CAS directory: absent, fresh, or old (`Age`: its mtime is before the collector's cutoff) |
| `rows` | the `dataset` rows: id and the digest of the bytes they were made of |
| `pc`, `op`, `todo`, `raw`, `reuse`, `goal`, `parts` | the statement and locals of each call |
| `refs`, `listed`, `victim` | what a collector has gathered, listed and is about to unlink |

`ReadSource`, `FindRegistered` and `CheckSource` are three steps: the digest is looked up
among the rows, and the file is read again for its content, so it may change in between.
`Canonical` and `Transformed` are functions of the bytes; what they compute is `FeedData`'s
business. Calls and collectors interleave at every statement. `swept` is the history of a call: a
clean was at work at some time since the call saw that its object was there (`SeesObjects`,
`HaveSeen`). A dataset whose row came from such a call is `exposed`, until a call that is not
swept registers it again; the properties of readable datasets exempt it, and section 4 shows
what can become of it.

### DraftRevision

Drafts of several files, their row, validations, plans, and the answers of
`apply_strategy_repair` (`drafts.py` 49-370, `jobs.py` 175-289). An update is `Acquire`,
`CheckUpdate`, `WriteFile`, `ReviseRow` under the draft's lock; a validation is `LookDraft`,
one `ReadFile` per file and the verdict, with no lock; so is the verification of a token
when a plan is prepared. A call or a clean may die at every statement, which releases the lock
and leaves a file newer than its row, or a row without its directory. `clean_drafts` interleaves
with all of it, and `swept` and `exposed` (of plans) are as in `DatasetStore`.

### CatalogRefresh

A refresh reads the previous snapshot and the cache, takes the fingerprint of each file,
parses those the cache does not know, and writes in four transactions (entries, stale
entries, cache, snapshot; `catalog.py` 385-650). `Covers` is which cache rows the prefix of a
scope matches, `CacheName` the name a file is cached under (its path in a root, its bare name
in a pair of corpora). The files of a scope are a set that is scanned in the order `Rank`
gives it (the code sorts paths), so that `First` is the next file and a scan is a set that
shrinks. `Unpacked` gives the stamps the files come with, `EditStamps` is the first an edit
leaves; a stamp stands for `mtime_ns` and size, so each edit leaves a new one. `current` and
`moved` are history variables: no file of the scope has changed since the refresh began.
Nothing in the code keeps two refreshes of one scope apart, so nothing in the model does: `beside`
is the history of a refresh (another of its scope was at work beside it), `lone` of a snapshot
(its refresh had the scope to itself), `mingled` of a scope (two refreshes have been at work on it
at once).

### FeedData, Reports, CatalogSearch and Algorithms

The computations that hold no state, as operators: the canonical table of a source, the
acceptance of a feed descriptor, what the candidate's adapters build from it, the overlap of
several feeds, derived columns (`FeedData`); normalised metrics, their comparison, feed
evidence, the ranking of a sweep (`Reports`); search, ranking and pages (`CatalogSearch`).
They follow the algorithms: row by row, with running sums and accumulators, as recursive
functions over the prefixes of their input whose step is an operator of its own (`TakeRow`,
`CountWith`, `DeriveStep`). `Sorted` (module `Sorting`) stands for Python's `sorted`, the one
sequence that lists a set by a total order; the callers break ties by position where the code
relies on a stable sort (`Ahead`, `Earlier`).
`Algorithms` asks for one of them at a time on every input of bounded sets and compares the
answer with a definition that is not the algorithm. Numbers are scaled integers, so the
rounding of floats (the drift of the running sum of a moving average, for instance) is not
represented. Inputs are what the entry points let through: cells of a registered table are
numbers; the options of a feed may name any of the known ones, of which `AdapterOptionsAccepted`
takes only a time column. A binding may have any name of `FeedNames`, of which `PlainNames` are
those the worker's pattern takes. Catalogue entries are told apart by the row they are stored in
(`state.py` 111-113) and may share a canonical id. A sweep ranks results, of which there is one
per combination and run mode.

## 3. What the runs check

| Run | Instance | Shows |
|---|---|---|
| `JobLifecycle` | 2 callers, 2 executions, 2 faults, fairness | `TypeOK`, `SuccessIsComplete`, `OrphanHasNoWorker`, `CancelEndsTheJob`, `RunningCandidateIsRecorded`, `ImplementsJobRecord`, `WorkerHonoursCancel`; `WatchedJobEnds`: the watchdog ends every job with a recorded worker, hung processes included; `EveryJobEndsBarringFaults` |
| `RunAuthorizationSafety` | 2 plans, 2 approvals, 2 keys, 2 jobs, 2 callers, cap 1, one fault or one edit | `TypeOK`, `PlanNamesItsLaunch`, `OneJobPerApproval`, `WithinCapacity`, `NonceBurnsLast`, `StartedPlanIsLaunched` |
| `RunAuthorizationLiveness` | 2 plans, 2 keys, 1 approval, 1 job, 2 callers, 1 fault | `EveryStartReturns` |
| `TargetTransaction` | 2 changes, 1 recovery, at most two of the three at work; 3 faults, or 1 once mixed | `RecoveredTargetIsWhole`, `ImplementsTargetRecord`, `AppliedIsInPlace`, `ComesUpAgain` |
| `DatasetStoreSafety` | 2 sources, 3 contents and one malformed file, 2 calls, 1 collector, at most two of them at work, at most 3 rows, one edit or one fault | `TypeOK`, `RegisteredIsReadable`, `SameBytesSameContent`, `SpecsAreAligned`, `ImplementsDatasetRecord` |
| `DraftRevisionSafety` | 1 draft of 2 files, 2 versions, 3 revisions, 1 key, 2 calls, 1 collector, at most two of them at work, two validations, one plan, 1 fault | `PlannedContentWasValidated`, `RevisionNamesContent`, `RepairHappensOnce`, `PlannedDraftStays` |
| `CatalogRefreshSafety` | 1 root and 1 pair of corpora, 2 files each, 3 contents, 2 calls of any scopes, 1 edit, 1 fault | `SnapshotIsTrue`, `CurrentSnapshotIsServed`, `EntriesAreTheSnapshots` |
| `Algorithms` | tables of up to 3 rows, 3 feeds, columns of up to 5 cells, 4 results, 3 bindings, 3 entries | one property per computation: `TableIsItsSource`, `AcceptedFeedIsBuilt`, `OverlapRefusesNoCommonStamps`, `DerivedIsItsDefinition`, `ComparisonIsSymmetric`, `HonestEvidenceIsAccepted`, `BestLeadsTheRanking`, `SearchMissesNothing` |

The four other runs end in a violation and belong to the next section.

**Why the bounds are enough.** Two callers let one hold the job's lock (or be the recovery,
which takes none) while the other waits; two executions make "the previous candidate" and
"the next candidate" different processes; two faults let the server and the worker both die.
Two plans, keys, approvals and callers give every mix of same and different for a pair of
starts; the cap is 1 so that it is reached. `MCRunAuthorization!OneDisturbance` stops that run
behind the first fault or edit; the theorems cover any number of both. Two change sets are the
least that can meet at one target, and three faults cover a crash, a crash of its recovery and
a crash of the recovery after that. `MCTargetTransaction!WithinBound`, like `Small` in the other
MC modules, is a constraint of the run and no part of the model: at most two processes at
work, and behind what is mixed one fault (1.2 million states; the theorems know no such
bound). Beside a clean one call is at work in `DatasetStoreSafety` (2.3 million states) and
`DraftRevisionSafety` (8.5 million), which is the least for each race of section 4. In
`CatalogRefreshSafety` (2.8 million) two refreshes of one scope work at once, and once they have,
the other scope rests. In `MCDatasetStore` one content is reached in two ways (parsed and
derived), so that two calls race for one object, one pair of feeds is aligned and one is not,
and one file does not parse. A draft of two files is the least whose files can be read from
two revisions; three revisions let an update and a repair follow the first. In
`MCCatalogRefresh` the prefix of the root also covers the cache of the pair, and the two files
of the pair have one bare name. The bounded inputs of `Algorithms` hold the edges of each
computation: two stamps in one second, equal and falling stamps, an empty cell, the row before
and after the first full window, ties, a page that ends exactly at the last match. Symmetry is
used in runs without liveness properties only. Where a theorem exists (all properties of these
runs except four of liveness) the bound no longer matters for that property, beyond the
hypotheses named in section 5.

Each property of a passing run has a mutant in `PROJECT.json` that it catches. `TypeOK` is
checked where a plausible bug can break it without breaking more; the others, bases of their
invariants like these, are proved only.

## 4. Where the code differs from what it says

Each of these is a run that TLC ends with a counterexample of the code as it is.

* `RunAuthorizationBrick`: "a failure here never bricks the run plan" (`jobs.py` 474-476),
  but the plan is marked started before the nonce, the response and the launch.
* `CatalogRefreshSharedNames`: `inspect_strategy` reports staleness "when source bytes changed
  since the refresh" (`docs/concepts/catalog.en.md` 30-32), but the cache of a dual corpus is
  keyed by bare file names (`catalog.py` 574): two `run.py` of one size and time share a row,
  and the second refresh gives one package the other's digests.
* `AlgorithmsOverlapOfMany`: the overlap is said to be that of `set.intersection`
  (`docs/iterations/iteration-009-streaming-storage-efficiency/设计文档.md` 18-19), but each
  pass assigns the count anew (`data.py` 590): of three feeds only master and last count.
  `LastFeedDecides` proves that this is what the code computes for any number of feeds, and
  `OverlapOfThreeOvercounts` gives three feeds without a common stamp for any two stamps.
* `AlgorithmsDerivedFeeds`: "derived datasets feed `precomputed_ml` strategies directly"
  (`docs/concepts/datasets.en.md` 59-62), but a derived dataset has no timeframe
  (`data.py` 708, 962-967) and the candidate's `_timeframe` raises for "unspecified".
  `NoDerivedFeedIsBuilt` proves it of every derived column.

More counterexamples shaped the models and the bounds of the passing runs. Each can be had
with TLC by listing the property named, or the property without the exemption by a history
variable that the table names, and giving the constants these values; what is not mentioned
stays as in the run of the module.

| Property | Module and constants | What happens |
|---|---|---|
| `NoDetachedCandidate` | `JobLifecycle`, `Spec`, 2 callers, 1 execution, no fault | a candidate launched and not yet recorded when cancel ends its worker runs on, and nothing knows its pid (`worker.py` 610-628) |
| `EveryJobEnds` | `JobLifecycle`, 1 fault | a crash between the job row and its worker pid leaves a job that status, recovery and watchdog all skip (`jobs.py` 856) |
| `RunsFrozenInputs` | `RunAuthorization`, 2 of each id, cap 2, 1 edit, no fault | the worker trusts the draft as it is when it runs, not as the approved plan froze it (`worker.py` 361) |
| `NeverBricked` | `TargetTransaction`, 1 change, 1 fault | a crash while the stage is filled leaves it without a journal, and every retry is refused, though "a mid-apply failure never bricks the change set" (`changes.py` 237-239) |
| `ReplacesOnlyItsPreimage` | `TargetTransaction` without `\ beside`, no fault | the lock is per change set, so two of them can both pass the preimage check (`changes.py` 215, 234) |
| `AppliedIsInPlace` | `TargetTransaction` without `\ beside`, no fault | a command started while an apply runs recovers its transaction from under it (`service.py` 46-47 takes no lock); a half-removed stage can be promoted and reported as applied |
| `RecoveredTargetIsWhole` | `TargetTransaction` without `~mixed`, 2 faults | c1 raises after its swap, at the journal's last phase, and leaves journal and backup (`changes.py` 300-305); c2 is applied and dies after moving the target aside; recovery of c1 takes the old journal for the swap under way and puts the tree before both back (329-330); recovery of c2 drops its stage and its journal, and its backup stays parked for ever. "the journaled directory swap is crash-recoverable" (`README.md` 468-470) |
| `ImplementsTargetRecord` | `TargetTransaction` without `\/ mixed'`, 2 faults | the same: the older tree is back in the target, though no change says so. Without any fault, a change is prepared while another has moved the target aside, so upon nothing |
| `RegisteredIsReadable` | `DatasetStore` without `\ exposed` | `clean_cas` gathers references, a registration finds its object present and puts its row, and the object is unlinked; registering again ends at `data.py` 755. "a referenced object is never deleted" (`docs/operations/cleanup.en.md` 17-18) |
| `PlannedDraftStays` | `DraftRevision` without `\ exposed` | the same race of `clean_drafts` and a run that is being prepared (`drafts.py` 335) |
| `CurrentSnapshotIsServed` | `CatalogRefresh`, of all scopes instead of `lone` | of two refreshes of one scope the older puts the entries of a file as it was over those of the newer, whose snapshot is then served with digests of the old file (`catalog.py` 533-541); `SnapshotIsTrue` survives, as the run and section 5 show |
| `EntriesAreTheSnapshots` | `CatalogRefresh` without `\ mingled` | both delete what was stale for the snapshot they read first, and an entry that only the loser put is named by no snapshot |

Further divergences, seen while modelling:

* "A visible `CANCEL_REQUESTED` suppresses `SUCCEEDED`/`FAILED`/`TIMED_OUT`" (`README.md`
  349-351) holds of the worker, which is what `WorkerHonoursCancel` states. A launch failure
  (`jobs.py` 539) and the watchdog's timeout (824) do replace it, so `JobRecord!GiveUp` allows
  that.
* A syntax error is a diagnostic of the refresh that read the file and not of the next one,
  which hits the cache: the snapshot hash of an unchanged tree changes (`SnapshotIsTrue` is
  therefore about entries). A refresh that dies leaves entries that no snapshot names,
  which is why `EntriesAreTheSnapshots` is about finished refreshes without faults.
* `_validate_result` takes the extra metrics out of a result before it is stored, so
  comparisons never see them; a sweep's top-level extras are merged combination by
  combination, the last one winning, and are not those of the best.
* `allow_non_positive_prices` may be given per feed (`docs/concepts/datasets.en.md` 31-35,
  `README.md` 415-418), but registration refuses every option of a feed except `time_column`
  (`data.py` 356-371), so it reaches no table.
* "Deterministic ranking" (`docs/concepts/catalog.en.md` 15-16) holds up to entries of one score
  and one canonical id (`catalog.py` 309, 336), which a pair of corpora shares with the packaged
  catalogue (188). Such entries come in the order they are stored in (`state.py` 111-113), which a
  refresh rewrites. `SearchMissesNothing` is what holds of them too.
* A contract takes any identifier as the name of a feed (`contracts.py` 174), the worker only
  ASCII ones of at most 128 characters (`worker.py` 38): honest evidence of a feed named with a
  Greek letter is refused. `HonestEvidenceIsAccepted` states both sides.
* With two run modes each combination is ranked twice and `combination_count` counts results
  (`worker.py` 417-452, 484).
* Two writes of a file that leave one `mtime_ns` and one size are one to the cache
  (`catalog.py` 422). The model gives each write a stamp of its own.
* The Yahoo and MT5 adapters cut stamps to days and minutes; registration checks the declared
  timeframe only, so stamps off that frame fall together. `AcceptedFeedIsBuilt` is about
  aligned stamps.
* A resampling to a finer timeframe is accepted; a dataset registered without a timeframe has
  the "unspecified" one just as a derived dataset has; `returns` of a one-row table stores an
  empty dataset; `dropna` finds nothing to drop in a registered table, whose cells all parse.

## 5. What is proved

The proofs assume only the named assumptions of the modules: numbers of executions, faults and
edits are natural, ids are finite in number where they are counted, marker values differ from
ids and numbers, tolerances are natural, files have an order, an edit leaves a later stamp than
the files came with. Only three theorems need more than that, and their statements say so:
`FingerprintsTell`, of the catalogue, without which `CatalogRefreshSharedNames` is a
counterexample. Nothing is assumed of who works beside whom; what a property exempts by a
history variable, the theorem exempts, and section 4 shows that no exemption is idle. The
strengthenings can be given to TLC as invariants of the same instances, by an MC module that
extends the module of proofs.

**JobLifecycleProofs.** `Invariant` (in `JobLifecycle`) is inductive: `TypeOK`, `StartOrder`
(row, starter and worker agree how far a start came), `CandidateOrder` (candidates before the
current execution are done, those after it not begun, and the poll loop has recorded its
candidate), `SignalsToTheLiving`, `ResultOrder`, `OrphanVerdict` (who is about to write
ORPHANED has seen a worker that is gone, and it stays gone), `OneLockHolder`, `CancelProgress`
(what an accepted cancel may rely on between its steps). None of the properties is inductive
alone: `CancelEndsTheJob`, for instance, needs `CancelProgress` for the steps of the cancel,
and `OneLockHolder` so that no locking call intervenes. Each part has a lemma with one step
per action. From it follow, for any number of callers, executions and faults,
`SuccessCorrect`, `OrphanCorrect`, `CancelCorrect`, `RecordedCorrect`,
`WorkerHonoursCancelCorrect`, and `RecordCorrect`: `Spec` implements `JobRecord!Spec`, every
step being a step of the record or a stutter.

**RunAuthorizationProofs.** `Invariant` adds to the four properties: `LocksHeld`,
`CallsAreWhole`, `NewJobIsMine`, `PlanFollowsCall` (the plan read as prepared under the lock
is still prepared until this call marks it), `ApprovalIsPaid`, `StartedPlanHasJob`, `JobRows`,
`RoomForOne` (between the count and the row there is still room: the lock is what keeps it).
The capacity part reasons with cardinalities: only `PutJob` adds an active job
(`OnlyPutJobAdds`), and it adds one. `StartedPlanIsLaunched`, which is about starts without
faults, needs one part more: `NothingInTheWay` (the key a call looked up under its locks has
still no answer, and the nonce of the plan it has marked is unused), so that no statement
after the mark can refuse. Theorems: `TypeCorrect`, `LaunchCorrect`, `ApprovalCorrect`,
`CapacityCorrect`, `NonceCorrect`, `StartedPlanCorrect`.

**TargetTransactionProofs.** Any number of change sets, recoveries and faults, interleaved in any
way. `Invariant` has two halves. `Stations` and `AloneProgress` hold of everything: a change that
nothing has worked beside finds at each of its statements what it left there (its preimage in
the target until it moves it, its stage full, its own tree in the target once it is promoted),
whatever journals, backups and half-removed stages earlier calls have left. They give
`AppliedCorrect` and `PreimageCorrect` (action properties): the counterexamples of section 4 to
both therefore need two processes at once, and no fault makes one without them.

`Orderly` holds as long as nothing is mixed and is about one question: where is the target's
tree? `TargetIsSomewhere` answers it: in place, or never there, or in the backup of one change
that is in the middle of its swap (`Swapped`), which either is at work or has the only journal
a recovery will find. `JournalKnows` ties a backup to its journal and its stage, `ApplyProgress`
and `RecoveryProgress` say what each statement may rely on (a call about to move the target has
a full stage, a journal and no backup; a recovery about to restore has the backup that is the
only copy), `OneAtATime` (one process at work; a journal that is left is of the change at work)
and `PreparedFirst` the rest. It gives `WholeCorrect` and `RecordCorrect`: under the mapping of
section 2 each step is one of `TargetRecord` or a stutter, until something is mixed. The one step
that replaces the tree is the rename of the stage, in the apply (`PromoteStage`) or in a recovery
(`RecoverPromote`).

**CatalogRefreshProofs.** Any scopes, files, prefixes, calls, edits and faults. `Whole` (types,
and a call that writes has no file left to scan) holds without a hypothesis and gives
`TypeCorrect`. `Truth` needs `FingerprintsTell`: no two files of one scope come with one cache
name and one stamp. A strategy root has it, because paths are names; a pair of corpora has it
only if its `run.py` files differ in size or time, and `CatalogRefreshSharedNames` is what
happens otherwise. Refreshes may overlap in any way. The parts follow the digests on their way:
`StampsArePast` and `StampsTell` (an edit leaves a stamp never seen, so a name and a stamp still
belong to one file), `CacheTells`, `LookTells` (a file edited between its `stat` and its read is
found with its new content under its old stamp, which no later `stat` will match), `ScanTells`
(the next cache), `ScanIsTrue` (unless a file of the scope has moved, the scan is what the files
hold). It gives `SnapshotCorrect` and `ReadyCorrect`; the latter is the very property the run
`CatalogRefreshSharedNames` finds violated, so its counterexample is due to shared names and to
nothing else. `Rows` holds whatever the fingerprints tell, of refreshes that are not `beside`
and scopes that are not `mingled`: `CallsApart` (the snapshot a call has read stays its
scope's), `MineIsServed` (what a call has put stays until its snapshot lists it) and
`RowsWhileWriting` (without faults: the rows of a scope while they are replaced, first the old
and the new entries, then the new alone). It gives `EntriesCorrect`; all three together give
`ServedCorrect`: what a lone refresh has put is served also while later ones, however many at
once, put and delete theirs.

**AlgorithmsProofs.** Each property of the run `Algorithms` is drawn from a theorem about
inputs of any size, not the bounded ones of the run.

| Theorem | For every input | Gives |
|---|---|---|
| `CanonicalTable` | the pass over a table returns `TakenUpTo`, the converted rows if each is sound and follows the one before it, else nothing | `TableCorrect` |
| `AcceptedFeed` | an accepted descriptor is built, and stamps on the declared frame survive the adapter | `FeedCorrect` |
| `LastFeedDecides`, `OverlapBounds` | the overlap is what the last feed that is not the master shares with it: no less than what all feeds share, no more than the master has, and of two feeds the intersection | `OverlapCorrect` |
| `DerivedColumn` | the rows and values a profile defines, for any column of numbers and any period | `DerivedCorrect` |
| `NormalizingIsIdempotent`, `ComparingIsSymmetric` | any metrics, any profile; a run also never differs from itself | `ComparisonCorrect` |
| `HonestEvidence` | evidence is accepted exactly if names are distinct and plain and each feed delivered a bar | `EvidenceCorrect` |
| `BestIsRankedFirst` | the ranking lists each result once, by falling rate, the best first | `RankingCorrect` |
| `SearchIsUnordered`, `PagesAreTheList` | the stored order decides only the places of entries of one score and id; pages put together are the list | `SearchCorrect` |

`OverlapBounds` and `OverlapCorrect` are about stamps that are distinct within a feed, as those of a
canonical table are. They state what is true of three feeds or more, too; that the count is then
too large is `OverlapOfThreeOvercounts` and the finding of section 4. The only invariant needed
to apply these theorems to `Spec` is `Asked`: a case is one of those the actions ask for.

The theorems about passes and sorts are inductions over the input. The provers cannot
instantiate an induction rule over a predicate, so the rules are stated for sets, in
**InductionLemmas**: a set of naturals that is not empty has a least member (`LeastNatural`,
from the well-foundedness of `<`), hence a set that holds 0 and goes from each number to the
next covers an interval (`InductionUpTo`), and a recursion over an interval has a solution
(`RecursionUpTo`). The proof of a pass writes down what it should have computed after each row
as a function of the row number (`TakenUpTo`, for example), shows that this function solves the
recursion, and that two solutions cannot differ, since there would be a least row at which
they do. A sort is treated in the same way: a finite set can be sorted by a total order
(`SortingExists`: each member goes where the number of its predecessors puts it), a sorted
sequence lists every member once (`SortingIsComplete`), and there is only one (`SortingIsUnique`:
at the least position where two differ, each has a member that the other has further on, so
that either member would come before the other).
A search sorts by a key that entries may share. Two stored orders then agree on the keys and not
on the entries: the sort puts an entry behind exactly as many as precede it (`PlacesAreOrdered`,
`PlacesUpTo`), and if the key at a place differed, more entries than there are places would
have to come before it (`NoneIsAhead`).

**DatasetStoreProofs.** Two invariants, both stated there. `Invariant` holds whatever
`clean_cas` does: `CallIsWhole` (what each statement of a call may rely on: bytes read once are
the bytes that were hashed and parsed), `FeedsAreSettled` (a dataset of several feeds is about
to be stored with feeds that have their rows and were compared), `BytesAreOfFiles` (provenance
belongs to rows of files). It gives `TypeCorrect`, `ContentCorrect` and `AlignmentCorrect`.
`StoreInvariant` adds `ObjectsFirst` (a call between its last look at an object and its row has
that object on disk, unless it is swept) and `ReferencesAreSpared` (what a collector is about to
unlink is needed by no row that is not exposed). It gives `ReadableCorrect` and `RecordCorrect`:
the store implements `DatasetRecord!Spec`, every step being one of the record or a stutter.

**DraftRevisionProofs.** `Invariant` holds whatever `clean_drafts` does and whoever dies:
`RequestsAreWhole` (a call has one request, a key was used for one request), `OneWriter` (a call
holds the lock of its draft exactly while it revises it), `WriterKnowsRow` (between check and
row the draft keeps the revision that was checked, unless `clean_drafts` takes it),
`CreatorIsAlone` (nobody knows a draft before its row), `RepairsMoveOn` (a repair that was made
leaves its draft past the revision it was asked for, so that no repetition passes the check
again), `TokensAreTrue`, and, without faults, `FilesFollowRow`. It gives `TypeCorrect`,
`PlannedCorrect`, `RevisionCorrect` and `RepairCorrect`. `RepairHappensOnce` shows why a
strengthening is needed: two calls with one key can both be past the lookup of the answer, and
only `WriterKnowsRow` with `RepairsMoveOn` keep the second from revising. `PlanInvariant` adds
`ReadersKeepDraft` (a call that is not swept keeps the draft it has looked at) and
`PlansAreSpared` (no clean has condemned the draft of a plan that is not exposed) and gives
`DraftStaysCorrect`. Lemmas first sort the steps of a call (it ends, begins, makes or moves) and
say which step writes which variable, so that a part of the invariant has a case only for the
steps that touch it.

**Model-checked only.** The liveness properties `WatchedJobEnds`, `EveryJobEndsBarringFaults`,
`EveryStartReturns` and `ComesUpAgain`, which need fairness and are out of the provers' reach.
`ReplacesOnlyItsPreimage`, in turn, is proved (`PreimageCorrect`) and no run of the project
lists it; TLC finds it true in the instance of the run `TargetTransaction`.

## 6. Fairness

* `JobLifecycle!Fairness`: the server's threads run on and signals are delivered (weak
  fairness); time passes; the watchdog's tick, a loop that blocks in flock, gets the job's
  lock in the end (strong fairness: other callers may take it in between, but flock queues
  its waiters). Nothing is assumed of worker and candidates, which may hang for ever: that
  is what the watchdog is for.
* `RunAuthorization!FairSpec`: each call's own statements (weak), each flock (strong).
* `TargetTransaction!FairSpec`: a recovery runs through, and a dead process is started again
  (weak). Nothing is assumed of applies, which may hang at any statement; `ComesUpAgain` only asks
  that they do not act for ever (`CallsRest`). Calls repeated without end can remove what a
  recovery is about to remove, each time, and make every recovery raise: TLC finds that loop.

## 7. What is not modelled

See `components` in `PROJECT.json` for the reasons, component by component. Static validation
and contracts, scaffolding, runtime probes and doctor are functions of files or subprocesses
without shared state; a bounded model of them would restate their tables of rules. The parsing
of a source by its AST in the catalog, backtrader itself and the generated strategy code are
data to the models. The Windows branches of `process_control.py` and `locks.py` are left out;
logging, audit rows, settings and request schemas carry no control. Signatures are assumed
unforgeable. Objects altered on disk by hand are found by the hash that every read checks and
are left out of `DatasetStore`.

## 8. Plan

Done: every stateful component is modelled and checked; every safety and action property of a
passing run is proved, the refinements of `JobRecord`, `TargetRecord` and `DatasetRecord` and
the correctness of the algorithms for inputs of any length among them.

Left, in this order:

1. The idempotency key and the approval of apply, and `prepare_strategy_run`'s key, which
   follow the protocol `RunAuthorization` has for starts; then their part in the theorems.
2. Should the overlap of several feeds be repaired (`data.py` 590), `OverlapIsIntersection` as
   an invariant of `Algorithms` and a theorem; should derived datasets get a timeframe,
   `DerivedFeedIsBuilt` as an invariant.
