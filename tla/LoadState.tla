------------------------------ MODULE LoadState ------------------------------
(***************************************************************************)
(* The state shared by the threads of a virtual load: the loader thread of *)
(* db_bench (FG) and the background compaction workers, all under the DB   *)
(* mutex.  The modules that extend this one add the actions:               *)
(*                                                                         *)
(*   ManifestLog        VersionSet::LogAndApply                            *)
(*   VirtualL0Window    the bounded window of visible L0 files             *)
(*   CommitQueue        the group commit of virtual compactions            *)
(*   VirtualCompaction  picking, merging and trivially moving              *)
(*   FillVirtual        the loader, and the whole system                   *)
(*                                                                         *)
(* A step is the code between two operations on the mutex, or a part of it *)
(* when `mutex' names the thread, which then is the only one to run.       *)
(***************************************************************************)
EXTENDS Integers, Sequences, FiniteSets, VirtualSSTRegistry

CONSTANTS
  FG,                \* the loader thread
  Workers,           \* the background compaction threads
  None,              \* nobody holds the mutex
  NumL0,             \* virtual L0 files the loader generates, numbered 1..NumL0
  MaxFile,           \* bound: the largest file number a compaction allocates
  MaxLevel,          \* the last level
  Bytes,             \* byte size of a set of L0 files
  TargetBytes,       \* virtual_l0_target_visible_bytes_ (0: the front file's)
  MaxRegisterBatch,  \* virtual_l0_max_register_batch_files_
  MaxCommitBatch,    \* VCOMP_BG_COMMIT_BATCH_MAX
  CommitDelay,       \* VCOMP_BG_COMMIT_DELAY_US is not zero
  Backpressure,      \* virtual_l0_backpressure_
  SlowdownTrigger,   \* level0_slowdown_writes_trigger
  StopTrigger,       \* level0_stop_writes_trigger
  DebtPressures,     \* what the pending-compaction-bytes limits may ask for
  CompactionTrigger, \* level0_file_num_compaction_trigger during the load
  BaseBytes,         \* max_bytes_for_level_base
  EnqueueSizes,      \* how many files one EnqueueVirtualL0Files call brings
  MaxOutputs,        \* bound: output files of one merge
  MaxFailures        \* bound: failed MANIFEST writes and failed merges

L0Files == 1..NumL0
Files == 1..MaxFile
Levels == 0..MaxLevel
Threads == Workers \cup {FG}

\* The configuration is a legal one.
ASSUME ConfigAssumption ==
  /\ FG \notin Workers /\ None \notin Workers \cup {FG}
  /\ IsFiniteSet(Workers)
  /\ NumL0 \in Nat \ {0} /\ MaxFile \in Nat /\ MaxFile >= NumL0
  /\ MaxLevel \in Nat \ {0}
  /\ TargetBytes \in Nat /\ BaseBytes \in Nat \ {0}
  /\ MaxRegisterBatch \in Nat \ {0} /\ MaxCommitBatch \in Nat \ {0}
  /\ CommitDelay \in BOOLEAN /\ Backpressure \in BOOLEAN
  /\ SlowdownTrigger \in Nat /\ StopTrigger \in Nat
  /\ DebtPressures \subseteq {"kFree", "kSlowdown", "kStop"}
  /\ DebtPressures # {}
  /\ CompactionTrigger \in Nat \ {0}
  /\ EnqueueSizes \subseteq Nat \ {0}
  /\ MaxOutputs \in Nat \ {0} /\ MaxFailures \in Nat

\* The size of a set of files is the sum of the sizes of its members, none of
\* which is empty.
ASSUME BytesAssumption ==
  /\ Bytes \in [SUBSET L0Files -> Nat]
  /\ Bytes[{}] = 0
  /\ \A f \in L0Files : Bytes[{f}] > 0
  /\ \A S, T \in SUBSET L0Files :
       S \cap T = {} => Bytes[S \cup T] = Bytes[S] + Bytes[T]

VARIABLES
  mutex,        \* the thread that holds the DB mutex, or None
  pc,           \* where each thread is
  asleep,       \* threads blocked on a condition variable and not signalled
  version,      \* files of each level of the current Version
  obsolete,     \* numbers of metadata dropped by installed edits, not collected
  doomed,       \* numbers each thread has collected and is about to purge
  manifestQ,    \* manifest_writers_
  ioLen,        \* length of the prefix of manifestQ being written, or 0
  purpose,      \* what each thread last called LogAndApply for
  written,      \* outcome of that call, "none" until the writer is done
  pending,      \* virtual_l0_pending_
  visible,      \* virtual_l0_visible_bytes_
  batch,        \* files popped by each thread's refill and not yet counted
  feed,         \* locals of each thread's refill: target_bytes and trickled
  job,          \* the compaction of each worker
  released,     \* workers whose compaction_released is set
  request,      \* VirtualCompactionCommitRequest::status and done
  commitQ,      \* virtual_compaction_commit_queue_
  inProgress,   \* virtual_compaction_commit_in_progress_
  commitBatch,  \* the leader's commit_batch
  commitOk,     \* the leader's s.ok()
  bgError,      \* error_handler_ holds an error that stops background work
  nextFile,     \* next_file_number_
  origin,       \* history: the L0 files whose entries each file holds
  failures,     \* failures so far, for the bound MaxFailures
  lost,         \* L0 files popped by a refill whose MANIFEST write failed
  nextL0,       \* the next L0 file the loader generates
  trigger,      \* the current level0_file_num_compaction_trigger
  stage,        \* how far FillVirtual has got
  drainRound,   \* drain_round
  paused        \* bg_work_paused_

threadVars   == <<mutex, pc, asleep>>
manifestVars == <<manifestQ, ioLen, purpose, written>>
versionVars  == <<version, obsolete, doomed, live, retired>>
windowVars   == <<pending, visible, batch, feed, lost>>
commitVars   == <<released, request, commitQ, inProgress, commitBatch, commitOk>>
jobVars      == <<job, nextFile, origin, bgError>>
loaderVars   == <<nextL0, trigger, stage, drainRound, paused>>

vars == <<threadVars, manifestVars, versionVars, windowVars, commitVars,
          jobVars, loaderVars, failures>>

-----------------------------------------------------------------------------
(* Compactions.                                                            *)

NoJob == [level |-> 0, out |-> 0, inputs |-> {}, lower |-> {},
          outputs |-> {}, move |-> FALSE]

\* A compaction takes `inputs' at `level' and `lower' at its output level.
Jobs == [level : Levels, out : Levels, inputs : SUBSET Files,
         lower : SUBSET Files, outputs : SUBSET Files, move : BOOLEAN]

\* Every file of the current Version.
Current == UNION {version[l] : l \in Levels}

\* Files marked being_compacted: the inputs of compactions not yet released.
Held(w) == IF w \in released THEN {} ELSE job[w].inputs \cup job[w].lower
BeingCompacted == UNION {Held(w) : w \in Workers}

\* Mutant: being_compacted is not looked at.
IdleIgnoresHeld(l) == version[l]

\* What the picker may take of a level.
Idle(l) == version[l] \ BeingCompacted

\* GetFileLocation is valid for every input of the request.
InputsCurrent(w) == job[w].inputs \cup job[w].lower \subseteq Current

-----------------------------------------------------------------------------
(* Locking and condition variables.                                        *)

Free == mutex = None
Goto(t, label) == pc' = [pc EXCEPT ![t] = label]
=============================================================================
