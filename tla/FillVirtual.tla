----------------------------- MODULE FillVirtual -----------------------------
(***************************************************************************)
(* Benchmark::FillVirtual (tools/db_bench_tool.cc) from the first virtual  *)
(* L0 file to the snapshot Phase 2 materializes, and the whole system: the *)
(* loader and the compaction workers.                                      *)
(*                                                                         *)
(*   load -> lower -> drain <-> drainWait -> restore -> pause -> cleanup   *)
(*        -> snapshot -> phase2                                            *)
(*                                                                         *)
(* "failed" and "stuck" are the two early returns: a refill error, and     *)
(* "pending virtual L0 did not converge".                                  *)
(***************************************************************************)
EXTENDS VirtualCompaction

At(s) == stage = s /\ pc[FG] = "idle" /\ Free

AllIdle == \A w \in Workers : pc[w] = "idle"

\* Mutant: new files go before those that wait.
EnqueueInFront(k) ==
  /\ At("load")
  /\ nextL0 + k - 1 <= NumL0
  /\ nextL0' = nextL0 + k
  /\ pending' = [i \in 1..k |-> nextL0 + i - 1] \o pending
  /\ RefillEnter(FG, pending')
  /\ UNCHANGED <<asleep, manifestVars, versionVars, visible, batch, lost, released,
                 request, commitQ, inProgress, commitBatch, jobVars, trigger,
                 drainRound, paused, failures>>

\* EnqueueVirtualL0Files of k files: append them and refill.
Enqueue(k) ==
  /\ At("load")
  /\ nextL0 + k - 1 <= NumL0
  /\ nextL0' = nextL0 + k
  /\ pending' = pending \o [i \in 1..k |-> nextL0 + i - 1]
  /\ RefillEnter(FG, pending')
  /\ UNCHANGED <<asleep, manifestVars, versionVars, visible, batch, lost, released,
                 request, commitQ, inProgress, commitBatch, jobVars, trigger,
                 drainRound, paused, failures>>

\* WaitForCompact returns when nothing runs or needs to, or once a background
\* error is set, whatever still runs then.
WaitForCompact == bgError \/ (AllIdle /\ ~L0Needs)

\* Its status is printed and otherwise ignored.
LoadWait ==
  /\ At("load")
  /\ nextL0 > NumL0
  /\ WaitForCompact
  /\ stage' = "lower"
  /\ UNCHANGED <<threadVars, manifestVars, versionVars, windowVars, commitVars,
                 jobVars, nextL0, trigger, drainRound, paused, failures>>

\* Mutant: the trigger is not lowered before the drain.
SetTriggerConfigured ==
  /\ trigger' = CompactionTrigger
  /\ stage' = IF stage = "lower" THEN "drain" ELSE "pause"
  /\ UNCHANGED <<nextL0, drainRound, paused>>

\* SetOptions({level0_file_num_compaction_trigger}): 1 before the drain, the
\* configured value after it.
SetTrigger ==
  /\ trigger' = IF stage = "lower" THEN 1 ELSE CompactionTrigger
  /\ stage' = IF stage = "lower" THEN "drain" ELSE "pause"
  /\ UNCHANGED <<nextL0, drainRound, paused>>

\* Its dummy edit goes through LogAndApply: with no other writer it is done
\* without letting go of the mutex, otherwise it waits for its turn.  The options
\* are valid, so only the OPTIONS file can fail to be written, with the trigger
\* already in force, and FillVirtual ignores the status: the same step.
SetOptions ==
  /\ At("lower") \/ At("restore")
  /\ IF manifestQ = <<>>
       THEN SetTrigger /\ UNCHANGED <<threadVars, manifestVars>>
       ELSE /\ manifestQ' = Append(manifestQ, FG)
            /\ purpose' = [purpose EXCEPT ![FG] = "options"]
            /\ written' = [written EXCEPT ![FG] = "none"]
            /\ asleep' = asleep \cup {FG}
            /\ Goto(FG, "manifestWait")
            /\ UNCHANGED <<mutex, ioLen, loaderVars>>
  /\ UNCHANGED <<versionVars, windowVars, commitVars, jobVars, failures>>

\* The dummy writer reached the front: it is alone in its group (GroupLen),
\* applies without releasing the mutex, leaves and signals the new front.
OptionsLead ==
  /\ pc[FG] = "manifestWait" /\ FG \notin asleep /\ Free
  /\ purpose[FG] = "options" /\ manifestQ # <<>> /\ Head(manifestQ) = FG
  /\ manifestQ' = Tail(manifestQ)
  /\ asleep' = asleep \ {manifestQ[i] : i \in {2} \cap DOMAIN manifestQ}
  /\ written' = [written EXCEPT ![FG] = "ok"]
  /\ Goto(FG, "idle")
  /\ SetTrigger
  /\ UNCHANGED <<mutex, ioLen, purpose, versionVars, windowVars, commitVars,
                 jobVars, failures>>

\* One round of the final drain: RefillVirtualL0Window ...
DrainRefill ==
  /\ At("drain")
  /\ RefillEnter(FG, pending)
  /\ UNCHANGED <<asleep, manifestVars, versionVars, pending, visible, batch, lost,
                 released, request, commitQ, inProgress, commitBatch, jobVars,
                 nextL0, trigger, drainRound, paused, failures>>

\* Mutant: no limit on the rounds.
DrainForever == IF pending = <<>> THEN "restore" ELSE "drain"

\* Where a round of the drain leads.
DrainRoundNext ==
  IF pending = <<>> THEN "restore"
  ELSE IF drainRound > NumL0 + 1 THEN "stuck" ELSE "drain"

\* ... then WaitForCompact, and out when the FIFO is empty or after too many
\* rounds.
DrainWait ==
  /\ At("drainWait")
  /\ WaitForCompact
  /\ stage' = DrainRoundNext
  /\ drainRound' = IF stage' = "drain" THEN drainRound + 1 ELSE drainRound
  /\ UNCHANGED <<threadVars, manifestVars, versionVars, windowVars, commitVars,
                 jobVars, nextL0, trigger, paused, failures>>

\* Mutant: running compactions are not waited for.
PauseAtOnce ==
  /\ At("pause")
  /\ paused' = TRUE
  /\ stage' = "cleanup"
  /\ UNCHANGED <<threadVars, manifestVars, versionVars, windowVars, commitVars,
                 jobVars, nextL0, trigger, drainRound, failures>>

\* PauseBackgroundWork waits for the running compactions, whatever their fate.
Pause ==
  /\ At("pause")
  /\ AllIdle
  /\ paused' = TRUE
  /\ stage' = "cleanup"
  /\ UNCHANGED <<threadVars, manifestVars, versionVars, windowVars, commitVars,
                 jobVars, nextL0, trigger, drainRound, failures>>

\* CleanupVirtualCompactionObsoleteFiles: the deferred collection and its purge.
Cleanup ==
  /\ At("cleanup")
  /\ FindObsoleteFiles(FG)
  /\ Goto(FG, "purge")
  /\ stage' = "snapshot"
  /\ UNCHANGED <<mutex, asleep, manifestVars, version, registryVars, windowVars,
                 commitVars, jobVars, nextL0, trigger, drainRound, paused, failures>>

\* registry->GetSnapshot() and the levels of the current Version are read.
Snapshot ==
  /\ At("snapshot")
  /\ stage' = "phase2"
  /\ UNCHANGED <<threadVars, manifestVars, versionVars, windowVars, commitVars,
                 jobVars, nextL0, trigger, drainRound, paused, failures>>

-----------------------------------------------------------------------------
(* The specification.                                                      *)

Init ==
  /\ mutex = None
  /\ pc = [t \in Threads |-> "idle"]
  /\ asleep = {}
  /\ version = [l \in Levels |-> {}]
  /\ obsolete = {}
  /\ doomed = [t \in Threads |-> {}]
  /\ RegistryInit
  /\ manifestQ = <<>> /\ ioLen = 0
  /\ purpose = [t \in Threads |-> "none"]
  /\ written = [t \in Threads |-> "none"]
  /\ pending = <<>> /\ visible = 0
  /\ batch = [t \in Threads |-> {}]
  /\ feed = [t \in Threads |-> [target |-> 0, trickled |-> FALSE]]
  /\ lost = {}
  /\ job = [w \in Workers |-> NoJob]
  /\ released = {}
  /\ request = [w \in Workers |-> "none"]
  /\ commitQ = <<>> /\ inProgress = FALSE
  /\ commitBatch = {} /\ commitOk = TRUE
  /\ bgError = FALSE
  /\ nextFile = NumL0 + 1
  /\ origin = [f \in Files |-> {f} \cap L0Files]
  /\ failures = 0
  /\ nextL0 = 1
  /\ trigger = CompactionTrigger
  /\ stage = "load" /\ drainRound = 0 /\ paused = FALSE

Manifest(t) == ManifestWake(t) \/ ManifestInstalled(t) \/ ManifestFailed(t)

Refill(t) == RefillAdmit(t) \/ RefillCount(t) \/ RefillStop(t) \/ RefillFail(t)

Commit(w) ==
  \/ FollowerWait(w) \/ LeaderDelay(w) \/ LeaderBatch(w) \/ LeaderWake(w)
  \/ CommitInstalled(w) \/ CommitFailed(w)
  \/ FinishBatch(w) \/ LeaderExit(w) \/ CommitReturn(w)

Compact(w) ==
  Pick(w) \/ MergeDone(w) \/ MergeFailed(w) \/ CollectAfterFailure(w) \/ Purge(w)

WorkerNext(w) == Manifest(w) \/ Refill(w) \/ Commit(w) \/ Compact(w)

LoaderNext ==
  \/ \E k \in EnqueueSizes : Enqueue(k)
  \/ LoadWait \/ SetOptions \/ OptionsLead \/ DrainRefill \/ DrainWait
  \/ Pause \/ Cleanup \/ Snapshot
  \/ Manifest(FG) \/ Refill(FG) \/ Purge(FG)

\* The loader has returned or begun Phase 2, and no compaction runs.
Terminated ==
  /\ stage \in {"phase2", "failed", "stuck"}
  /\ AllIdle
  /\ UNCHANGED vars

Next == LoaderNext \/ (\E w \in Workers : WorkerNext(w)) \/ Terminated

Spec == Init /\ [][Next]_vars

\* Every thread that can run eventually does: the OS schedules it, the mutex is
\* held for bounded steps only, and a MANIFEST write and a merge end.
FairSpec == Spec /\ WF_vars(LoaderNext) /\ \A w \in Workers : WF_vars(WorkerNext(w))
=============================================================================
