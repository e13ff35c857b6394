# A verification project for virtual compaction (F2Load)

The repository is RocksDB with *virtual compaction*: `db_bench --benchmarks=fillvirtual`
builds an LSM tree of descriptors ("virtual SSTs"), lets RocksDB's own picker compact
them, and writes real SST files only at the end. This directory models the concurrent
core of such a load in TLA+, checks it with TLC on small instances, and proves part of
it with TLAPS for every instance.

## 1. The system

### Parts

| part | source | state | operations |
|---|---|---|---|
| virtual SST registry | `db/virtual_compaction/virtual_sst_registry.h` | `registry_`, `retired_` | Register, Remove, LookupMany, ConsumeVirtualOrRetired, GetSnapshot |
| visible L0 window | `db/db_impl/db_impl_compaction_flush.cc:5190-5448` | FIFO of pending files, bytes counted as visible, target | EnqueueVirtualL0Files, RefillVirtualL0Window, AccountVirtualL0CompactionLocked |
| commit queue | same file, 5616-5808 | queue, leader flag, per-request status | CommitVirtualCompactionEdit |
| MANIFEST writers' queue | `db/version_set.cc:6005-7013` | `manifest_writers_`, the current Version | LogAndApply, ProcessManifestWrites |
| compaction driver | `db_impl_compaction_flush.cc:3662-4600, 5810-6279, 1451-1589` | inputs being compacted, next file number | BackgroundCompaction, RunVirtualCompaction, PerformTrivialMove |
| leveled picker | `db/compaction/compaction_picker*.cc` | `being_compacted`, running L0 compactions | PickCompaction, ReleaseCompactionFiles |
| obsolete files | `db/db_impl/db_impl_files.cc` | obsolete metadata, collected numbers | FindObsoleteFiles, PurgeObsoleteFiles, CleanupVirtualCompactionObsoleteFiles |
| error handler | `db/error_handler.*` | background error | SetBGError, IsBGWorkStopped |
| loader, Phase 1 and drain | `tools/db_bench_tool.cc:6595-7424` | stage, drain round | enqueue, WaitForCompact, SetOptions, drain loop, pause, cleanup, snapshot |
| loader, Phase 2 | `tools/db_bench_tool.cc:7426-8243`, installer at `db_impl_compaction_flush.cc:5488-5614` | tasks, results, VersionEdit, sequence numbers | materialize, install |
| descriptors | `db/virtual_compaction/{plr_model,virtual_sst}.cc` | none (pure) | merge, split, materialize keys, KMV sketches |
| size model | `db/virtual_compaction/sst_size_*` | none (pure) | AddCalibration, Estimate, MaxEntries |
| key sources | `tools/db_bench_tool.cc:2275-2680` | bitmaps, ring | UniqueKeyReservation, BaselineKeyStream, KeyMembership |

### How they interact, and what is hard

One loader thread and many compaction workers share the DB mutex. The mutex is released in
four places in the middle of an operation: the MANIFEST write, the merge of the descriptors,
the leader's delay, and the purge. So

* two refills run at once, the loader's and the commit leader's, each deciding on a byte
  count that the other is about to change;
* a compaction holds looked-up inputs across a merge, a wait in the commit queue, a wait in
  the MANIFEST queue and a MANIFEST write, while files come, move and go;
* a follower's work is done by somebody else, in both queues; it finds out later, and what it
  still has to do (counting its bytes) is late by an arbitrary time;
* a trivial move makes metadata obsolete whose number stays alive;
* any MANIFEST write or merge may fail, with files popped, registered, released or purged.

What must be right: the registry and the Version agree; a file is in one level; inputs are
exclusive to one compaction; nothing is lost; the purge spares the living; the window is
never underestimated and L0 stays bounded; every request is answered and the load ends;
Phase 2 sees a stable, drained tree.

## 2. Modules

| module | models |
|---|---|
| `VirtualSSTRegistry` | the registry, as operators on `live` and `retired` |
| `LoadState` | constants, all shared state, jobs, locking |
| `ManifestLog` | LogAndApply: queue, groups, install, failure, wake-ups |
| `VirtualL0Window` | refill and accounting |
| `CommitQueue` | group commit, and the tail of a background compaction |
| `VirtualCompaction` | picking, merging, moving, collecting, purging |
| `FillVirtual` | the loader, `Init`, `Next`, `Spec`, `FairSpec` |
| `LoadProperties` | the properties |
| `MCFillVirtual` | file sizes and symmetry for TLC |
| `LoadInvariant` | the inductive invariant of the proofs |
| `TypesManifest`, `TypesCommit`, `LoadTypes` | proofs: types, the shape of the MANIFEST queue and of jobs |
| `CommitProofs`, `HandProofs` | proofs: one leader, no request forgotten; batches, releases, the pause |
| `FileProofs`, `RegistryProofs`, `EntryProofs` | proofs: which files are where under refills and compactions; the write of a MANIFEST group, registry, levels, inputs, purge, snapshot; no file lost |

Each model module extends the previous one; the proof modules extend `LoadInvariant`, which
extends `LoadProperties`. `mutex` names the thread inside a critical section
that the model splits in several steps; all other steps start with the mutex free. `pc`
says where a thread is:

* `refill` - the top of RefillVirtualL0WindowLocked's outer loop;
* `manifestWait`, `manifestIO`, `manifestDone` - waiting for its turn in LogAndApply,
  writing the MANIFEST without the mutex, back from LogAndApply with the mutex;
* `follow`, `lead`, `delay`, `finishBatch`, `commitDone` - CommitVirtualCompactionEdit;
* `merge` - RunVirtualCompaction without the mutex;
* `backoff`, `purge` - BackgroundCallCompaction after an error.

`stage` says how far FillVirtual has got. `origin` and `lost` are history variables:
the generated files whose entries a file holds, and those popped by a refill that failed.

### Abstractions

* Keys are left out. Which idle files the picker takes, which files of the next level they
  overlap, and whether a pick is a trivial move, are open choices; so is the score of a level
  above L0 and the estimate of pending compaction bytes. L0's score is exact, for the
  documented configuration (`level_compaction_dynamic_level_bytes=false`).
* A descriptor is immutable, so only its presence is modelled. A merge is a choice of the
  number of outputs.
* A background error is final: automatic recovery after retryable I/O errors is left out.
* A worker is `idle` between compactions whether or not it is scheduled. One that was
  scheduled before a background error and starts after it finds background work stopped,
  returns the error, backs off and collects (`db_impl_compaction_flush.cc:3831-3861`). Its
  start changes nothing else, so `StopWork`, the step that sets the error, picks any set of
  idle workers to back off with the failed one.
* `obsolete` is a set of numbers; old Versions pinned by iterators or running compactions
  are an arbitrary subset that a collection leaves behind.
* `PauseBackgroundWork` is one step; the code stops scheduling a little earlier, so the
  model has more behaviours.
* `MissingInput` and the stale requests of `TakeBatch` are in the model and are never
  reached: `RegistryExact` and `InputsExclusive` say so.
* ProcessManifestWrites returns early, leaving its writers in the queue ("FIXME?"), when an
  edit cannot be applied to the builder (`version_set.cc:6180-6187`) or SaveTo fails
  (6233-6240). Neither is modelled, because a virtual load reaches neither.
  `VersionBuilder::Apply` rejects an edit that deletes a file from a level it is not in, or
  adds one that is already in the tree (`version_builder.cc:854-875, 940-957`): inputs stay
  where they were picked and belong to one edit (`InputsExclusive`, `OneLevelPerFile`), and
  what a refill or a merge adds is new (`FreshShape` in `LoadInvariant`, which is proved).
  SaveTo fails only in the consistency check that virtual mode skips (668-671). A limit on
  the memory of file metadata (977-985) is assumed not to be set or not to be hit.
* SetOptions: its status is ignored by FillVirtual (`db_bench_tool.cc:7282, 7310`). The option
  string always parses and the options were validated when the database was opened, so the
  dummy edit succeeds; only writing the OPTIONS file can fail, after the trigger has taken
  effect. A failing SetOptions is therefore the same step as one that succeeds.

## 3. Runs

| run | instance | checks |
|---|---|---|
| `Load` | 2 workers, 2 files of sizes 2 and 1, target 2, trigger 2, two numbers for merge outputs, 3 levels, 1 failure | `TypeOK`, `RegistryExact`, `OneLevelPerFile`, `InputsExclusive`, `NoFileLost`, `PurgeSparesLive`, `RetiredAreCollected`, `DrainedUnlessError`, `SnapshotStable` |
| `Window` | 1 worker, 5 files of sizes 2,1,1,2,2, target 2, batches of up to 3, 1 failure | `WindowNeverUndercounts`, `AdmissionInOrder`, `L0Bounded` |
| `Backpressure` | 1 worker, 7 files, batches of up to 2, slowdown at 1, stop at 3 files, any debt, 1 failure | `L0CountBounded` |
| `Commit` | 3 workers, batches of one request | `NoRequestForgotten` |
| `Liveness` | as `Load`, but one number for merge outputs; fair threads | `LoadEnds` |
| `Answered` | as `Liveness`, but both files enqueued at once | `RequestsAnswered` |

Bounds. `MaxFile` bounds the file numbers merges may allocate, `MaxOutputs` the outputs of a
merge, `MaxFailures` the failures, `NumL0` the generated files. Two workers give a leader and
a follower, two concurrent compactions, and three parties in the MANIFEST queue with the
loader; the third worker in `Commit` is there to push while a leader leaves and a follower
waits (`Commit` has trivial moves only and no failure). Three levels give a move and a merge
that touch a common level. One failed MANIFEST write or merge, at any place, reaches every
error path; after it background work stops. In `Load`, `Liveness` and `Answered` the first
file is due by its bytes and compacts during the load; the second is below both limits and
stays in L0 until the drain lowers the trigger from 2 to 1, which is the tail the drain is
for. `Liveness` and `Answered` have a number for one merge output, so that requests come from
merges and from moves, and a merge may be what fails. Five files let both refills hold a batch
while an earlier file is being compacted, which makes the bound of `L0Bounded` tight. Seven
files do the same for `L0CountBounded`: with slowdown at 1 and stop at 3 its bound is 5, L0
reaches 5, and it would reach 6 if the slowdown did not cut the batch to one file.

Fairness. `FairSpec` has weak fairness of each thread. The OS schedules threads, the mutex is
held for bounded steps only, MANIFEST writes and merges end. Waiting on a condition variable
is `asleep`: no fairness wakes a thread that nobody signals.

Three runs show where a document and the code disagree (`findings` in `PROJECT.json`):

* `TailDrains` - the drain can give up with no error. The loader's refill edit may be written
  by a worker as a follower of its group; the file is then in L0 before the loader counts it,
  and if a compaction consumes it first, the clamp at zero in
  `AccountVirtualL0CompactionLocked` swallows the subtraction. The bytes added afterwards never
  go away.
* `RegistersBelowTarget` - files are installed with the target already reached
  (DESIGN_AND_IMPLEMENTATION.md says they are not).
* `DrainedBeforePhase2` - after a background error Phase 2 starts with files in L0.

## 4. Proofs

| theorem | module | property |
|---|---|---|
| `TypeCorrect` | `LoadTypes` | `TypeOK` |
| `RequestsKept` | `CommitProofs` | `NoRequestForgotten` |
| `RegistryIsExact` | `RegistryProofs` | `RegistryExact` |
| `FilesInOneLevel` | `RegistryProofs` | `OneLevelPerFile` |
| `InputsStayExclusive` | `RegistryProofs` | `InputsExclusive` |
| `PurgeIsSafe` | `RegistryProofs` | `PurgeSparesLive` |
| `SnapshotIsStable` | `RegistryProofs` | `SnapshotStable` |
| `NothingLost` | `EntryProofs` | `NoFileLost` |

They hold for every finite set of workers, every number of files, levels and failures, every
limit and every file size, under two assumptions: `ConfigAssumption` (the options have the
types and the lower bounds the code gives them) and `BytesAssumption` (the bytes of disjoint
sets of files add up, and no file is empty). No fairness is used.

The properties are not inductive by themselves. `LoadInvariant` adds what each needs:

1. `TypeInv` - besides types, `QueueShape`: a thread is in `manifest_writers_` once, exactly
   while it waits for its edit, and only the front writes. Without it a group could contain a
   thread twice, or a thread could be woken with an answer that is not its own. `JobShape`: a
   compaction goes down, and a move has neither lower inputs nor outputs.
2. `CommitInv` - `LeaderShape`: at most one worker is in the leader's loop, through all its
   LogAndApply calls and refills; `RequestShape`: who has no request has nothing to release.
   They make `NoRequestForgotten` inductive.
3. `HandInv` - a batch of popped files belongs to a thread inside a refill's LogAndApply, and
   the compactions of an unwritten commit edit have not released their inputs. `PauseShape`:
   after the pause the workers are idle and only the loader's cleanup is left.
4. `FileInv` - `FifoShape` (FIFO in order, a popped file in one batch), `OutputShape` (outputs
   have numbers of their own) and `FreshShape` (a number not yet installed has never been in a
   Version, nor is it obsolete or about to be purged; a doomed one is not current). With these,
   `RegistryExact`, `OneLevelPerFile` and `InputsExclusive` are inductive, but only together: a
   group write is right because its inputs are exclusive, inputs stay exclusive because the
   picker sees the exact Version, and the callbacks of a group touch disjoint descriptors.
5. `EntryInv` - `OriginShape`: the outputs of a merge that waits for its commit hold the
   entries of all its inputs. With `FileInv` this gives `NoFileLost`.

Each layer is one lemma per action, or per group of actions that cannot disturb the layer
(`QuietFiles`, `QuietEntries`); the write of a MANIFEST group, which applies several edits at
once, is `InstallFiles` and `InstallEntries`. TLC checked every conjunct of the invariant on
the instance of `Load` before it was proved.

### Only model-checked

* `LoadEnds` and `RequestsAnswered`: liveness under fairness is out of the prover's reach.
* `WindowNeverUndercounts`, `AdmissionInOrder`, `L0Bounded`, `L0CountBounded`: they need an
  invariant that orders the batches along the MANIFEST queue and sums bytes over it.
* `RetiredAreCollected`, `DrainedUnlessError`: planned; they follow the pattern of `FileInv`.

## 5. Not modelled

* Phase 2: writing the SSTs, the fix-up of ranges, the installer.
* What is inside a descriptor: PLR models, KMV sketches, n-way merge (floating point).
* The size model and its calibration; the key sources.
* `RegisterVirtualL0File`, which has no caller.
* Key ranges in the picker, priorities of deeper levels, automatic error recovery, MANIFEST
  roll-over, several column families, crash and restart: a load that dies is started again
  from an empty database (`fresh_db` in `db_bench`), and descriptors exist only in memory.
* RocksDB proper (reads, WAL, memtables, table format): unchanged and not used by Phase 1.
* The experiment scripts and dump tools.

## 6. Plan

In this order:

1. `Materialize` - Phase 2's parallel writers and `InstallVirtualCompactionMaterialization`:
   nothing is installed after a failed writer, sequence numbers follow level, epoch and file
   number, they are published only after the MANIFEST commit. Composed with the snapshot of
   `FillVirtual`.
2. `AbstractLoad` - the tree as one atomic map from files to levels, with the load shown to
   implement it by a refinement mapping over `version` and `pending`; then proved from
   `FileInv` and `EntryInv`.
3. `KeyReservation` and `KeyStream` - the atomic bitmap that Phase 2's materialize workers
   claim keys in, and the bounded stream from one producer to the Phase 1 shards with Stop;
   safety proved, liveness checked.
4. Pure algorithms against reference definitions: `SSTSizeModel` (overflow checks, MaxEntries),
   `SplitIntoSSTs` (a partition of the positions), `MaterializeKeys` (strictly increasing keys
   in range), `KeyMembership` (rank and select), the range fix-up of Phase 2.
5. Proofs of `RetiredAreCollected`, `DrainedUnlessError`, `AdmissionInOrder`, and of the window:
   `WindowNeverUndercounts`, then `L0Bounded`.
