----------------------------- MODULE HandProofs -----------------------------
(***************************************************************************)
(* What a thread has in its hands: batches of popped files belong to the   *)
(* refills that write them, and the compactions of an unwritten commit     *)
(* edit hold their inputs (HandInv of LoadInvariant).                      *)
(***************************************************************************)
EXTENDS CommitProofs

WriteLabels == {"manifestWait", "manifestIO", "manifestDone"}

\* A commit edit that is not yet written.
Unwritten(w) ==
  pc[w] \in {"manifestWait", "manifestIO"} /\ purpose[w] = "commit" /\ written[w] = "none"

\* One thread moves and no batch changes hands.
LEMMA BatchKept ==
  ASSUME BatchShape, UNCHANGED batch, purpose'[FG] # "commit", NEW t \in Threads,
         \A s \in Threads : s # t => pc'[s] = pc[s] /\ purpose'[s] = purpose[s],
         batch[t] = {} \/ (purpose'[t] = purpose[t] /\ pc'[t] \in WriteLabels)
  PROVE  BatchShape'
BY DEF BatchShape, WriteLabels

\* No commit edit appears and nothing is released.
LEMMA ReleaseKept ==
  ASSUME ReleaseShape, commitBatch' \cap released' \subseteq commitBatch \cap released,
         \A w \in Workers : Unwritten(w)' => Unwritten(w)
  PROVE  ReleaseShape'
BY DEF ReleaseShape, Unwritten

\* The steps of LogAndApply.
LEMMA ManifestHand ==
  ASSUME TypeInv, CommitInv, HandInv, NEW t \in Threads, Manifest(t)
  PROVE  HandInv'
<1>1. PICK label \in WriteLabels : Goto(t, label) /\ pc[t] \in WriteLabels
  BY DEF Manifest, ManifestWake, ManifestInstalled, ManifestFailed, Dequeue, WriteLabels
<1>2. UNCHANGED <<batch, purpose, commitBatch>>
  BY DEF Manifest, ManifestWake, ManifestInstalled, ManifestFailed, Dequeue, windowVars, commitVars
<1>3. \A s \in Threads : pc'[s] = IF s = t THEN label ELSE pc[s]
  BY <1>1 DEF Goto, TypeInv, TypeOK, ThreadTypes
<1>4. FG \in Threads /\ Workers \subseteq Threads
  BY DEF Threads
<1>5. BatchShape'
  BY <1>1, <1>2, <1>3, <1>4, BatchKept DEF HandInv, BatchShape
<1>6. CASE ManifestWake(t)
  <2>1. \A w \in Workers : Unwritten(w)' => Unwritten(w)
    BY <1>2, <1>3, <1>4, <1>6 DEF ManifestWake, Unwritten
  <2>2. released' = released
    BY <1>6 DEF ManifestWake, commitVars
  <2> QED BY <1>2, <1>5, <2>1, <2>2, ReleaseKept DEF HandInv
<1>7. CASE ManifestInstalled(t) \/ ManifestFailed(t)
  <2>1. PICK status \in {"ok", "failed"} : Dequeue(t, status) /\ released' = released \cup GroupJobs
    BY <1>7 DEF ManifestInstalled, ManifestFailed
  <2>2. \A s \in Threads : written'[s] = IF s \in Group THEN status ELSE written[s]
    BY <2>1 DEF Dequeue
  <2>3. ASSUME NEW w \in Workers, Unwritten(w)'
        PROVE  Unwritten(w) /\ w \notin Group
    <3>1. pc'[w] # "manifestDone" /\ written'[w] = "none"
      BY <2>3 DEF Unwritten
    <3>2. w # t
      BY <1>3, <1>4, <2>1, <3>1 DEF Dequeue, Goto, TypeInv, TypeOK, ThreadTypes
    <3> QED BY <1>2, <1>3, <1>4, <2>2, <2>3, <3>1, <3>2 DEF Unwritten
  <2>4. ASSUME NEW w \in Workers, Unwritten(w)'
        PROVE  GroupJobs = {}
    <3>1. SUFFICES ASSUME NEW s \in Group PROVE Commits(s) = {}
      BY Zenon DEF GroupJobs
    <3>2. PICK i \in 1..ioLen : s = manifestQ[i]
      BY DEF Group
    <3>3. i \in DOMAIN manifestQ /\ s \in Threads
      BY <3>2 DEF TypeInv, TypeOK, ManifestTypes
    <3>4. pc[s] \in LeadLabels /\ pc[w] \in LeadLabels /\ s # w
      BY <2>3, <2>4, <3>2, <3>3 DEF TypeInv, QueueShape, LeadLabels, Unwritten
    <3>5. s = FG
      BY <3>3, <3>4 DEF CommitInv, LeaderShape, Leading, Threads
    <3> QED BY <3>5 DEF Commits, HandInv, BatchShape
  <2>5. ReleaseShape'
    BY <1>2, <2>1, <2>3, <2>4 DEF HandInv, ReleaseShape, Unwritten
  <2> QED BY <1>5, <2>5 DEF HandInv
<1> QED BY <1>6, <1>7 DEF Manifest

\* A thread outside LogAndApply, or back from it without a batch, moves, and
\* nothing is released.
LEMMA HandKept ==
  ASSUME TypeInv, HandInv, UNCHANGED <<batch, purpose, written, commitBatch>>,
         released' \subseteq released,
         NEW t \in Threads, NEW label \in Labels, UNCHANGED pc \/ Goto(t, label),
         label \notin {"manifestWait", "manifestIO"},
         UNCHANGED pc \/ pc[t] \notin WriteLabels \/ purpose[t] # "refill"
  PROVE  HandInv'
<1>1. \A s \in Threads : s # t => pc'[s] = pc[s]
  BY DEF Goto, TypeInv, TypeOK, ThreadTypes
<1>2. pc'[t] = pc[t] \/ pc'[t] = label
  BY DEF Goto, TypeInv, TypeOK, ThreadTypes
<1>3. batch[t] = {} \/ UNCHANGED pc
  BY DEF HandInv, BatchShape, WriteLabels
<1>4. FG \in Threads /\ Workers \subseteq Threads
  BY DEF Threads
<1>5. BatchShape'
  BY <1>1, <1>3, <1>4 DEF HandInv, BatchShape
<1>6. ReleaseShape'
  <2>1. \A w \in Workers : Unwritten(w)' => Unwritten(w)
    BY <1>1, <1>2, <1>4 DEF Unwritten
  <2> QED BY <2>1, ReleaseKept DEF HandInv
<1> QED BY <1>5, <1>6 DEF HandInv

\* A compaction that ends, or does not start, concerns no thread in LogAndApply.
LEMMA RestsHand ==
  ASSUME TypeInv, HandInv, UNCHANGED <<batch, purpose, written, commitBatch>>,
         released' \subseteq released, NEW w \in Workers, pc[w] \notin WriteLabels, Rests(w)
  PROVE  HandInv'
<1>1. \A t \in Threads : pc[t] \in WriteLabels \/ pc'[t] \in WriteLabels => pc'[t] = pc[t]
  BY DEF Rests, WriteLabels
<1>2. BatchShape'
  BY <1>1 DEF HandInv, BatchShape, WriteLabels
<1>3. \A v \in Workers : Unwritten(v)' => Unwritten(v)
  BY <1>1 DEF Unwritten, WriteLabels, Threads
<1> QED BY <1>2, <1>3, ReleaseKept DEF HandInv

\* A thread outside LogAndApply calls it.
LEMMA LogAndApplyHand ==
  ASSUME TypeInv, HandInv, NEW t \in Threads, pc[t] \notin WriteLabels,
         NEW why \in {"refill", "commit", "options"}, t = FG => why # "commit",
         purpose' = [purpose EXCEPT ![t] = why], written' = [written EXCEPT ![t] = "none"],
         NEW label \in {"manifestWait", "manifestIO"}, Goto(t, label),
         \A s \in Threads : s # t => batch'[s] = batch[s],
         why = "refill" \/ batch'[t] = batch[t],
         why # "commit" => UNCHANGED <<commitBatch, released>>,
         why = "commit" => commitBatch' \cap released' = {}
  PROVE  HandInv'
<1>1. \A s \in Threads : /\ pc'[s] = IF s = t THEN label ELSE pc[s]
                         /\ purpose'[s] = IF s = t THEN why ELSE purpose[s]
                         /\ written'[s] = IF s = t THEN "none" ELSE written[s]
  BY DEF Goto, TypeInv, TypeOK, ThreadTypes, ManifestTypes
<1>2. FG \in Threads /\ Workers \subseteq Threads
  BY DEF Threads
<1>3. batch[t] = {}
  BY DEF HandInv, BatchShape, WriteLabels
<1>4. BatchShape'
  BY <1>1, <1>2, <1>3 DEF HandInv, BatchShape
<1>5. ReleaseShape'
  <2>1. CASE why = "commit"
    BY <2>1 DEF ReleaseShape
  <2>2. CASE why # "commit"
    <3>1. \A w \in Workers : Unwritten(w)' => Unwritten(w)
      BY <1>1, <1>2, <2>2 DEF Unwritten
    <3> QED BY <2>2, <3>1, ReleaseKept DEF HandInv
  <2> QED BY <2>1, <2>2
<1> QED BY <1>4, <1>5 DEF HandInv

\* The steps of a refill.
LEMMA RefillHand ==
  ASSUME TypeInv, HandInv, NEW t \in Threads, Refill(t)
  PROVE  HandInv'
<1>1. CASE RefillAdmit(t)
  <2>1. PICK n : batch' = [batch EXCEPT ![t] = Front(n)]
    BY <1>1 DEF RefillAdmit
  <2>2. \A s \in Threads : s # t => batch'[s] = batch[s]
    BY <2>1 DEF TypeInv, TypeOK, WindowTypes
  <2>3. /\ purpose' = [purpose EXCEPT ![t] = "refill"]
        /\ written' = [written EXCEPT ![t] = "none"]
        /\ \E label \in {"manifestWait", "manifestIO"} : Goto(t, label)
        /\ pc[t] = "refill" /\ UNCHANGED <<commitBatch, released>>
    BY <1>1 DEF RefillAdmit, LogAndApply, commitVars
  <2> QED BY <2>2, <2>3, LogAndApplyHand DEF WriteLabels
<1>2. CASE RefillStop(t)
  <2>1. PICK label \in {"idle", "finishBatch"} : Goto(t, label)
    BY <1>2 DEF RefillStop, RefillReturn
  <2>2. pc[t] = "refill" /\ UNCHANGED <<batch, purpose, written, commitBatch, released>>
    BY <1>2 DEF RefillStop, manifestVars, windowVars
  <2> QED BY <2>1, <2>2, HandKept DEF WriteLabels, Labels
<1>3. CASE RefillCount(t) \/ RefillFail(t)
  <2>1. PICK label \in {"idle", "finishBatch", "refill"} : Goto(t, label)
    BY <1>3 DEF RefillCount, RefillFail, RefillReturn
  <2>2. UNCHANGED <<purpose, written, commitBatch, released>> /\ batch' = [batch EXCEPT ![t] = {}]
    BY <1>3 DEF RefillCount, RefillFail, manifestVars, commitVars
  <2>3. \A s \in Threads : /\ pc'[s] = IF s = t THEN label ELSE pc[s]
                           /\ batch'[s] = IF s = t THEN {} ELSE batch[s]
    BY <2>1, <2>2 DEF Goto, TypeInv, TypeOK, ThreadTypes, WindowTypes
  <2>4. BatchShape'
    BY <2>2, <2>3 DEF HandInv, BatchShape
  <2>5. \A w \in Workers : Unwritten(w)' => Unwritten(w)
    BY <2>2, <2>3 DEF Unwritten, Threads
  <2> QED BY <2>2, <2>4, <2>5, ReleaseKept DEF HandInv
<1> QED BY <1>1, <1>2, <1>3 DEF Refill

\* The leader takes a batch: none of its compactions is released.
LEMMA TakeBatchHand ==
  ASSUME TypeInv, CommitInv, HandInv, NEW w \in Workers, pc[w] \in {"lead", "delay"}, TakeBatch(w)
  PROVE  HandInv'
<1>1. w \in Threads /\ w # FG
  BY ConfigAssumption DEF Threads
<1> DEFINE n == IF Len(commitQ) < MaxCommitBatch THEN Len(commitQ) ELSE MaxCommitBatch
           taken  == {commitQ[i] : i \in 1..n}
           commit == {v \in taken : InputsCurrent(v)}
           stale  == taken \ commit
<1>2. /\ commitBatch' = commit /\ released' = released \cup stale /\ UNCHANGED batch
      /\ IF commit = {}
           THEN RefillEnter(w, pending) /\ UNCHANGED manifestVars
           ELSE LogAndApply(w, "commit")
  BY DEF TakeBatch
<1>3. \A v \in taken : v \notin released
  <2>1. \A i \in 1..n : i \in DOMAIN commitQ /\ commitQ[i] \in Workers
    BY ConfigAssumption DEF TypeInv, TypeOK, CommitTypes
  <2> QED BY <2>1 DEF CommitInv, RequestShape, Waiting
<1>4. commitBatch' \cap released' = {}
  BY <1>2, <1>3
<1>5. CASE commit = {}
  <2>1. PICK label \in {"refill", "finishBatch"} : Goto(w, label)
    BY <1>1, <1>2, <1>5 DEF RefillEnter, RefillReturn
  <2>2. \A s \in Threads : pc'[s] = IF s = w THEN label ELSE pc[s]
    BY <2>1 DEF Goto, TypeInv, TypeOK, ThreadTypes
  <2>3. UNCHANGED purpose /\ batch[w] = {}
    BY <1>1, <1>2, <1>5 DEF manifestVars, HandInv, BatchShape
  <2>4. BatchShape'
    BY <1>1, <1>2, <2>2, <2>3 DEF HandInv, BatchShape
  <2> QED BY <1>4, <2>4 DEF HandInv, ReleaseShape
<1>6. CASE commit # {}
  <2>1. /\ purpose' = [purpose EXCEPT ![w] = "commit"]
        /\ written' = [written EXCEPT ![w] = "none"]
        /\ \E label \in {"manifestWait", "manifestIO"} : Goto(w, label)
    BY <1>2, <1>6 DEF LogAndApply
  <2>2. pc[w] \notin WriteLabels
    BY DEF WriteLabels
  <2> HIDE DEF commit, stale
  <2> QED BY <1>1, <1>2, <1>4, <2>1, <2>2, LogAndApplyHand
<1> QED BY <1>5, <1>6

\* The steps of CommitQueue.
LEMMA CommitHand ==
  ASSUME TypeInv, CommitInv, HandInv, NEW w \in Workers, Commit(w)
  PROVE  HandInv'
<1>1. w \in Threads /\ w # FG
  BY ConfigAssumption DEF Threads
<1>2. CASE FollowerWait(w) \/ LeaderDelay(w) \/ LeaderExit(w)
  <2>1. /\ UNCHANGED <<batch, purpose, written, commitBatch>> /\ released' \subseteq released
        /\ pc[w] \in {"follow", "lead"}
    BY <1>2 DEF FollowerWait, LeaderDelay, LeaderExit, manifestVars, windowVars, commitVars
  <2>2. \E label \in {"delay", "commitDone"} : UNCHANGED pc \/ Goto(w, label)
    BY <1>2 DEF FollowerWait, LeaderDelay, LeaderExit
  <2> QED BY <1>1, <2>1, <2>2, HandKept DEF WriteLabels, Labels
<1>3. CASE CommitReturn(w)
  <2>1. CompactionReturn(w, request[w] = "ok") /\ (request[w] = "ok") \in BOOLEAN
    BY <1>3 DEF CommitReturn
  <2>2. /\ UNCHANGED <<batch, purpose, written, commitBatch>> /\ released' \subseteq released
        /\ pc[w] \notin WriteLabels
    BY <1>3 DEF CommitReturn, CompactionReturn, WriteLabels, manifestVars, windowVars
  <2>3. Rests(w)
    BY <2>1, ReturnRests
  <2> QED BY <2>2, <2>3, RestsHand
<1>4. CASE CommitInstalled(w) \/ CommitFailed(w)
  <2>1. /\ UNCHANGED <<batch, purpose, written, commitBatch, released>> /\ purpose[w] = "commit"
    BY <1>4 DEF CommitInstalled, CommitFailed, manifestVars, windowVars
  <2>2. \E label \in {"refill", "finishBatch"} : Goto(w, label)
    BY <1>1, <1>4 DEF CommitInstalled, CommitFailed, RefillEnter, RefillReturn
  <2> QED BY <1>1, <2>1, <2>2, HandKept DEF WriteLabels, Labels
<1>5. CASE FinishBatch(w)
  <2>1. UNCHANGED <<batch, purpose>> /\ commitBatch' = {} /\ Goto(w, "lead") /\ pc[w] = "finishBatch"
    BY <1>5 DEF FinishBatch, manifestVars, windowVars
  <2>2. \A s \in Threads : pc'[s] = IF s = w THEN "lead" ELSE pc[s]
    BY <2>1 DEF Goto, TypeInv, TypeOK, ThreadTypes
  <2>3. BatchShape'
    BY <1>1, <2>1, <2>2 DEF HandInv, BatchShape
  <2> QED BY <2>1, <2>3 DEF HandInv, ReleaseShape
<1> QED BY <1>2, <1>3, <1>4, <1>5, TakeBatchHand DEF Commit, LeaderBatch, LeaderWake

\* The steps of VirtualCompaction.
LEMMA CompactHand ==
  ASSUME TypeInv, HandInv, NEW w \in Workers, Compact(w)
  PROVE  HandInv'
<1>1. w \in Threads
  BY DEF Threads
<1>2. /\ UNCHANGED <<batch, purpose, written, commitBatch>> /\ released' \subseteq released
      /\ pc[w] \in {"idle", "merge", "backoff", "purge"}
  BY DEF Compact, Pick, MergeDone, MergeFailed, CompactionReturn, CollectAfterFailure, Purge,
         manifestVars, windowVars, commitVars
<1>3. \/ StopWork(w)
      \/ \E label \in {"follow", "lead", "merge", "purge", "idle"} : Goto(w, label)
  BY DEF Compact, Pick, MissingInput, Push, MergeDone, MergeFailed, CompactionReturn,
         CollectAfterFailure, Purge
<1>4. CASE StopWork(w)
  <2>1. Rests(w)
    BY <1>4, StopRests
  <2> QED BY <1>2, <2>1, RestsHand DEF WriteLabels
<1>5. CASE ~StopWork(w)
  BY <1>1, <1>2, <1>3, <1>5, HandKept DEF WriteLabels, Labels
<1> QED BY <1>4, <1>5

\* The loader's steps.
LEMMA LoaderHand ==
  ASSUME TypeInv, CommitInv, HandInv, LoaderNext
  PROVE  HandInv'
<1>1. FG \in Threads
  BY DEF Threads
<1>2. CASE Manifest(FG) \/ Refill(FG)
  BY <1>1, <1>2, ManifestHand, RefillHand
<1>3. CASE SetOptions /\ manifestQ # <<>>
  <2>1. /\ purpose' = [purpose EXCEPT ![FG] = "options"]
        /\ written' = [written EXCEPT ![FG] = "none"]
        /\ Goto(FG, "manifestWait") /\ pc[FG] = "idle"
        /\ UNCHANGED <<batch, commitBatch, released>>
    BY <1>3 DEF SetOptions, At, windowVars, commitVars
  <2> QED BY <1>1, <2>1, LogAndApplyHand DEF WriteLabels
<1>4. CASE OptionsLead
  <2>1. /\ written' = [written EXCEPT ![FG] = "ok"] /\ Goto(FG, "idle")
        /\ UNCHANGED <<batch, purpose, commitBatch, released>> /\ purpose[FG] = "options"
    BY <1>4 DEF OptionsLead, windowVars, commitVars
  <2>2. \A s \in Threads : s # FG => pc'[s] = pc[s] /\ written'[s] = written[s]
    BY <2>1 DEF Goto, TypeInv, TypeOK, ThreadTypes, ManifestTypes
  <2>3. BatchShape'
    BY <1>1, <2>1, <2>2 DEF HandInv, BatchShape
  <2>4. \A w \in Workers : Unwritten(w)' => Unwritten(w)
    BY <2>1, <2>2, ConfigAssumption DEF Unwritten, Threads
  <2> QED BY <2>1, <2>3, <2>4, ReleaseKept DEF HandInv
<1>5. CASE \/ \E k \in EnqueueSizes : Enqueue(k)
           \/ LoadWait \/ (SetOptions /\ manifestQ = <<>>) \/ DrainRefill \/ DrainWait
           \/ Pause \/ Cleanup \/ Snapshot \/ Purge(FG)
  <2>1. /\ UNCHANGED <<batch, purpose, written, commitBatch, released>>
        /\ pc[FG] \in {"idle", "purge"}
    BY <1>5 DEF Enqueue, LoadWait, SetOptions, DrainRefill, DrainWait, Pause, Cleanup, Snapshot,
                Purge, At, manifestVars, windowVars, commitVars
  <2>2. \E label \in {"idle", "refill", "purge"} : UNCHANGED pc \/ Goto(FG, label)
    BY <1>5 DEF Enqueue, LoadWait, SetOptions, DrainRefill, DrainWait, Pause, Cleanup, Snapshot,
                Purge, RefillEnter, RefillReturn, threadVars
  <2> QED BY <1>1, <2>1, <2>2, HandKept DEF WriteLabels, Labels
<1> QED BY <1>2, <1>3, <1>4, <1>5 DEF LoaderNext

\* Batches and commit edits are in the hands of the threads that write them.
LEMMA HandInvStep == TypeInv /\ CommitInv /\ HandInv /\ [Next]_vars => HandInv'
<1>1. ASSUME TypeInv, CommitInv, HandInv, Next PROVE HandInv'
  <2>1. CASE Terminated
    BY <1>1, <2>1 DEF Terminated, vars, threadVars, manifestVars, windowVars, commitVars,
                      HandInv, BatchShape, ReleaseShape
  <2> QED BY <1>1, <2>1, ManifestHand, RefillHand, CommitHand, CompactHand, LoaderHand
          DEF Next, WorkerNext, Threads
<1>2. ASSUME HandInv, UNCHANGED vars PROVE HandInv'
  BY <1>2 DEF vars, threadVars, manifestVars, windowVars, commitVars, HandInv, BatchShape,
              ReleaseShape
<1> QED BY <1>1, <1>2

-----------------------------------------------------------------------------
(* After PauseBackgroundWork.                                              *)

\* No worker can start or go on, and the loader only cleans up.
LEMMA PausedSteps ==
  ASSUME PauseShape, paused, Next
  PROVE  Cleanup \/ Snapshot \/ Purge(FG) \/ UNCHANGED vars
<1>1. AllIdle /\ pc[FG] \in {"idle", "purge"} /\ stage \in {"cleanup", "snapshot", "phase2"}
  BY DEF PauseShape
<1>2. ASSUME NEW w \in Workers, WorkerNext(w) PROVE FALSE
  <2>1. pc[w] = "idle"
    BY <1>1 DEF AllIdle
  <2>2. ~Manifest(w) /\ ~Refill(w)
    BY <2>1 DEF Manifest, ManifestWake, ManifestInstalled, ManifestFailed, Refill, RefillAdmit,
                RefillCount, RefillStop, RefillFail
  <2>3. ~Commit(w)
    BY <2>1 DEF Commit, FollowerWait, LeaderDelay, LeaderBatch, LeaderWake, CommitInstalled,
                CommitFailed, FinishBatch, LeaderExit, CommitReturn
  <2>4. ~Compact(w)
    BY <2>1 DEF Compact, Pick, MergeDone, MergeFailed, CollectAfterFailure, Purge
  <2> QED BY <1>2, <2>2, <2>3, <2>4 DEF WorkerNext
<1>3. ~Manifest(FG) /\ ~Refill(FG)
  BY <1>1 DEF Manifest, ManifestWake, ManifestInstalled, ManifestFailed, Refill, RefillAdmit,
              RefillCount, RefillStop, RefillFail
<1>4. /\ \A k \in EnqueueSizes : ~Enqueue(k)
      /\ ~LoadWait /\ ~SetOptions /\ ~OptionsLead /\ ~DrainRefill /\ ~DrainWait /\ ~Pause
  BY <1>1 DEF Enqueue, LoadWait, SetOptions, OptionsLead, DrainRefill, DrainWait, Pause, At
<1> QED BY <1>2, <1>3, <1>4 DEF Next, LoaderNext, Terminated

\* Once background work is paused it stays so, with every worker at rest.
LEMMA PauseShapeStep == TypeInv /\ PauseShape /\ [Next]_vars => PauseShape'
<1>1. ASSUME PauseShape, UNCHANGED vars PROVE PauseShape'
  BY <1>1 DEF vars, threadVars, loaderVars, PauseShape, AllIdle
<1>2. ASSUME TypeInv, PauseShape, paused, Next PROVE PauseShape'
  <2>1. CASE Cleanup \/ Purge(FG)
    <3>1. /\ UNCHANGED paused /\ stage' \in {stage, "snapshot"}
          /\ Goto(FG, "purge") \/ Goto(FG, "idle")
      BY <2>1 DEF Cleanup, Purge, loaderVars
    <3>2. pc'[FG] \in {"idle", "purge"} /\ \A w \in Workers : pc'[w] = pc[w]
      BY <1>2, <3>1, ConfigAssumption DEF Goto, TypeInv, TypeOK, ThreadTypes, Threads
    <3> QED BY <1>2, <3>1, <3>2 DEF PauseShape, AllIdle
  <2>2. CASE Snapshot
    BY <1>2, <2>2 DEF Snapshot, threadVars, PauseShape, AllIdle
  <2> QED BY <1>1, <1>2, <2>1, <2>2, PausedSteps
<1>3. ASSUME ~paused, Next, paused' PROVE PauseShape'
  <2>1. Pause
    <3>1. ASSUME NEW w \in Workers, WorkerNext(w) PROVE UNCHANGED paused
      <4>1. ASSUME Manifest(w) \/ Refill(w) PROVE UNCHANGED paused
        BY <4>1 DEF Manifest, ManifestWake, ManifestInstalled, ManifestFailed, Refill, RefillAdmit,
                    RefillCount, RefillStop, RefillFail, loaderVars
      <4>2. ASSUME Commit(w) PROVE UNCHANGED paused
        BY <4>2 DEF Commit, FollowerWait, LeaderDelay, LeaderBatch, LeaderWake, TakeBatch,
                    CommitInstalled, CommitFailed, FinishBatch, LeaderExit, CommitReturn, loaderVars
      <4>3. ASSUME Compact(w) PROVE UNCHANGED paused
        BY <4>3 DEF Compact, Pick, MergeDone, MergeFailed, CollectAfterFailure, Purge, loaderVars
      <4> QED BY <3>1, <4>1, <4>2, <4>3 DEF WorkerNext
    <3>2. ASSUME Manifest(FG) \/ Refill(FG) PROVE UNCHANGED paused
      BY <3>2 DEF Manifest, ManifestWake, ManifestInstalled, ManifestFailed, Refill, RefillAdmit,
                  RefillCount, RefillStop, RefillFail, loaderVars
    <3>3. ASSUME LoaderNext, ~Pause PROVE UNCHANGED paused
      BY <3>2, <3>3 DEF LoaderNext, Enqueue, LoadWait, SetOptions, OptionsLead, SetTrigger,
                        DrainRefill, DrainWait, Cleanup, Snapshot, Purge, loaderVars
    <3> QED BY <1>3, <3>1, <3>3 DEF Next, Terminated, vars, loaderVars
  <2> QED BY <2>1 DEF Pause, At, threadVars, PauseShape, AllIdle
<1> QED BY <1>1, <1>2, <1>3 DEF PauseShape

\* PauseBackgroundWork leaves every worker at rest for good.
THEOREM PauseInvariant == Spec => []PauseShape
<1>1. Init => PauseShape
  BY DEF Init, PauseShape
<1> QED BY <1>1, PauseShapeStep, TypeInvariant, PTL DEF Spec
=============================================================================
