---------------------------- MODULE CommitProofs ----------------------------
(***************************************************************************)
(* The commit queue: one leader at a time, and no request forgotten.       *)
(***************************************************************************)
EXTENDS LoadTypes

\* Labels between compactions.
RestLabels == {"idle", "backoff", "purge"}

\* How a step that leaves the queue and the requests alone may move a worker:
\* within the leader's loop or between compactions.
Moves(w) ==
  \/ pc'[w] = pc[w]
  \/ pc[w] \in RestLabels /\ pc'[w] \in RestLabels
  \/ /\ pc[w] \in LeadLabels /\ pc'[w] \in LeadLabels
     /\ pc'[w] \in {"lead", "delay"} => pc[w] \in {"lead", "delay"}

\* Such a step preserves the invariant, even if it releases compactions of the
\* batch, as the MANIFEST callback does.
LEMMA CommitKept ==
  ASSUME TypeInv, CommitInv,
         UNCHANGED <<commitQ, inProgress, commitBatch, request, job>>,
         released' \subseteq released \cup commitBatch,
         \A w \in Workers : Moves(w)
  PROVE  CommitInv'
<1>1. \A w \in Workers : Waiting(w)' <=> Waiting(w)
  BY DEF Waiting
<1>2. LeaderShape'
  BY DEF CommitInv, LeaderShape, Leading, Moves, LeadLabels, RestLabels
<1>3. NoRequestForgotten'
  BY DEF CommitInv, NoRequestForgotten
<1>4. ASSUME NEW w \in Workers
      PROVE  /\ pc'[w] \in RestLabels \cup {"merge"} => request[w] = "none" /\ w \notin released'
             /\ pc'[w] \in RestLabels => job[w] = NoJob
             /\ pc'[w] = "commitDone" => request[w] # "queued"
             /\ Waiting(w) => w \notin commitBatch /\ w \notin released'
  <2>1. w \in commitBatch => request[w] = "queued"
    BY DEF CommitInv, NoRequestForgotten
  <2>2. pc'[w] \in RestLabels => pc[w] \in RestLabels
    BY DEF Moves, RestLabels, LeadLabels
  <2>3. pc'[w] \in {"merge", "commitDone"} => pc'[w] = pc[w]
    BY DEF Moves, RestLabels, LeadLabels
  <2> QED BY <2>1, <2>2, <2>3 DEF CommitInv, RequestShape, RestLabels
<1>5. RequestShape'
  BY <1>1, <1>4 DEF RequestShape, RestLabels
<1> QED BY <1>2, <1>3, <1>5 DEF CommitInv

\* A new request is the last of the queue, and its worker follows the leader or
\* is the leader.
LEMMA PushCommit ==
  ASSUME TypeInv, CommitInv, NEW w \in Workers, pc[w] \in {"idle", "merge"}, Push(w),
         UNCHANGED <<released, commitBatch>>,
         \A v \in Workers : v # w => job'[v] = job[v]
  PROVE  CommitInv'
<1>1. request[w] = "none" /\ w \notin released /\ w \notin commitBatch /\ ~Waiting(w)
  BY DEF CommitInv, RequestShape, NoRequestForgotten, Waiting
<1>2. /\ commitQ \in Seq(Workers) /\ Len(commitQ) \in Nat /\ DOMAIN commitQ = 1..Len(commitQ)
      /\ DOMAIN commitQ' = 1..(Len(commitQ) + 1)
      /\ \A i \in DOMAIN commitQ' : commitQ'[i] = IF i = Len(commitQ) + 1 THEN w ELSE commitQ[i]
  BY DEF Push, TypeInv, TypeOK, CommitTypes
<1>3. \A v \in Workers : Waiting(v)' <=> Waiting(v) \/ v = w
  BY <1>2 DEF Waiting
<1>4. \A v \in Workers : request'[v] = IF v = w THEN "queued" ELSE request[v]
  BY DEF Push, TypeInv, TypeOK, CommitTypes
<1>5. \A v \in Workers : pc'[v] = IF v # w THEN pc[v] ELSE IF inProgress THEN "follow" ELSE "lead"
  BY DEF Push, Goto, TypeInv, TypeOK, ThreadTypes, Threads
<1>6. inProgress' = TRUE
  BY DEF Push
<1>7. NoRequestForgotten'
  <2>1. \A v \in Workers : request'[v] = "queued" <=> v \in commitBatch' \/ Waiting(v)'
    BY <1>1, <1>3, <1>4 DEF CommitInv, NoRequestForgotten, Waiting
  <2>2. \A i, j \in DOMAIN commitQ' : i # j => commitQ'[i] # commitQ'[j]
    BY <1>1, <1>2 DEF CommitInv, NoRequestForgotten, Waiting
  <2> QED BY <1>6, <2>1, <2>2 DEF NoRequestForgotten, Waiting
<1>8. ~inProgress => commitBatch = {} /\ \A v \in Workers : ~Leading(v)
  BY DEF CommitInv, LeaderShape, NoRequestForgotten, TypeInv, TypeOK, CommitTypes
<1>9. LeaderShape'
  BY <1>5, <1>6, <1>8 DEF CommitInv, LeaderShape, Leading, LeadLabels
<1>10. RequestShape'
  BY <1>1, <1>3, <1>4, <1>5 DEF CommitInv, RequestShape
<1> QED BY <1>7, <1>9, <1>10 DEF CommitInv

\* A worker whose request is not queued may end its compaction.
LEMMA ReturnCommit ==
  ASSUME TypeInv, CommitInv, NEW w \in Workers, NEW ok \in BOOLEAN, request[w] # "queued",
         pc[w] \notin LeadLabels, CompactionReturn(w, ok),
         UNCHANGED <<commitQ, inProgress, commitBatch>>
  PROVE  CommitInv'
<1>1. \A v \in Workers : Waiting(v)' <=> Waiting(v)
  BY DEF Waiting
<1>2. \A v \in Workers :
        /\ v # w => /\ request'[v] = request[v] /\ job'[v] = job[v]
                    /\ pc'[v] = pc[v] \/ (pc[v] = "idle" /\ pc'[v] = "backoff")
        /\ v \in released' <=> v \in released /\ v # w
  BY ReturnRests DEF Rests, CompactionReturn, TypeInv, TypeOK, CommitTypes, JobTypes, Threads
<1>3. request'[w] = "none" /\ job'[w] = NoJob /\ pc'[w] \in {"idle", "backoff"}
  BY ReturnRests DEF Rests, CompactionReturn, TypeInv, TypeOK, CommitTypes, JobTypes
<1>4. NoRequestForgotten'
  BY <1>2, <1>3 DEF CommitInv, NoRequestForgotten
<1>5. LeaderShape'
  BY <1>2, <1>3 DEF CommitInv, LeaderShape, Leading, LeadLabels
<1>6. RequestShape'
  BY <1>1, <1>2, <1>3 DEF CommitInv, RequestShape
<1> QED BY <1>4, <1>5, <1>6 DEF CommitInv

\* The leader takes a batch: what it takes and does not answer is its batch.
LEMMA TakeBatchCommit ==
  ASSUME TypeInv, CommitInv, NEW w \in Workers, pc[w] \in {"lead", "delay"}, TakeBatch(w)
  PROVE  CommitInv'
<1> DEFINE n == IF Len(commitQ) < MaxCommitBatch THEN Len(commitQ) ELSE MaxCommitBatch
           taken == {commitQ[i] : i \in 1..n}
           commit == {v \in taken : InputsCurrent(v)}
           stale == taken \ commit
<1>1. commitQ \in Seq(Workers) /\ Len(commitQ) \in Nat /\ DOMAIN commitQ = 1..Len(commitQ)
      /\ n \in 0..Len(commitQ)
  BY ConfigAssumption DEF TypeInv, TypeOK, CommitTypes
<1>2. /\ commitQ' = SubSeq(commitQ, n + 1, Len(commitQ)) /\ commitBatch' = commit
      /\ request' = [v \in Workers |-> IF v \in stale THEN "ok" ELSE request[v]]
      /\ released' = released \cup stale /\ inProgress' = inProgress /\ job' = job
  BY DEF TakeBatch, jobVars
<1>3. \E label \in {"finishBatch", "refill", "manifestIO", "manifestWait"} : Goto(w, label)
  BY ConfigAssumption DEF TakeBatch, RefillEnter, RefillReturn, LogAndApply
<1>4. \A v \in Workers : v \in taken <=> \E i \in 1..n : commitQ[i] = v
  OBVIOUS
<1>5. commit \subseteq taken /\ stale \subseteq taken /\ \A v \in taken : v \in commit <=> v \notin stale
  OBVIOUS
<1> HIDE DEF n, taken, commit, stale
<1>6. /\ DOMAIN commitQ' = 1..(Len(commitQ) - n)
      /\ \A i \in 1..(Len(commitQ) - n) : commitQ'[i] = commitQ[i + n]
  BY <1>1, <1>2, SuffixOf
<1>7. \A i \in DOMAIN commitQ' : i + n \in DOMAIN commitQ /\ i + n \notin 1..n
                                /\ commitQ'[i] = commitQ[i + n]
  BY <1>1, <1>6
<1>8. \A v \in Workers : v \in taken => Waiting(v)
  BY <1>1, <1>4 DEF Waiting
<1>9. ASSUME NEW v \in Workers
      PROVE  Waiting(v)' <=> Waiting(v) /\ v \notin taken
  <2>1. ASSUME NEW i \in DOMAIN commitQ', commitQ'[i] = v
        PROVE  Waiting(v) /\ v \notin taken
    <3>1. commitQ[i + n] = v /\ i + n \in DOMAIN commitQ
      BY <1>7, <2>1
    <3>2. \A k \in 1..n : k \in DOMAIN commitQ /\ commitQ[k] # v
      BY <1>1, <1>7, <3>1 DEF CommitInv, NoRequestForgotten
    <3> QED BY <1>4, <3>1, <3>2 DEF Waiting
  <2>2. ASSUME NEW i \in DOMAIN commitQ, commitQ[i] = v, v \notin taken
        PROVE  \E k \in DOMAIN commitQ' : commitQ'[k] = v
    <3>1. i \notin 1..n
      BY <1>4, <2>2
    <3>2. i - n \in DOMAIN commitQ' /\ (i - n) + n = i
      BY <1>1, <1>6, <3>1
    <3> QED BY <1>7, <2>2, <3>2
  <2> QED BY <2>1, <2>2 DEF Waiting
<1>10. \A i, j \in DOMAIN commitQ' : commitQ'[i] = commitQ'[j] => i = j
  <2>1. \A i, j \in DOMAIN commitQ' : commitQ'[i] = commitQ'[j] => i + n = j + n
    BY <1>7 DEF CommitInv, NoRequestForgotten
  <2> QED BY <1>1, <1>6, <2>1
<1>11. commitBatch = {}
  BY DEF CommitInv, LeaderShape
<1>12. \A v \in Workers : request'[v] = "queued" <=> request[v] = "queued" /\ v \notin stale
  BY <1>2
<1>13. NoRequestForgotten'
  <2>1. \A v \in Workers : request'[v] = "queued" <=> v \in commitBatch' \/ Waiting(v)'
    BY <1>2, <1>5, <1>8, <1>9, <1>11, <1>12 DEF CommitInv, NoRequestForgotten, Waiting
  <2>2. (\E v \in Workers : request'[v] = "queued") => inProgress'
    BY <1>2, <1>12 DEF CommitInv, NoRequestForgotten
  <2> QED BY <1>10, <2>1, <2>2 DEF NoRequestForgotten, Waiting
<1>14. \A v \in Workers : v # w => pc'[v] = pc[v]
  BY <1>3 DEF Goto, TypeInv, TypeOK, ThreadTypes, Threads
<1>15. pc'[w] \in {"finishBatch", "refill", "manifestIO", "manifestWait"}
  BY <1>3 DEF Goto, TypeInv, TypeOK, ThreadTypes, Threads
<1>16. LeaderShape'
  BY <1>2, <1>14, <1>15 DEF CommitInv, LeaderShape, Leading, LeadLabels
<1>17. RequestShape'
  <2>1. ASSUME NEW v \in Workers, pc'[v] \in {"idle", "backoff", "purge", "merge", "commitDone"}
        PROVE  v # w /\ pc'[v] = pc[v] /\ v \notin taken
    BY <1>8, <1>14, <1>15, <2>1 DEF CommitInv, RequestShape, NoRequestForgotten, Waiting
  <2>2. \A v \in Workers : v \notin taken => request'[v] = request[v] /\ (v \in released' <=> v \in released)
    BY <1>2, <1>5
  <2>3. \A v \in Workers : Waiting(v)' => v \notin commitBatch' /\ v \notin released'
    BY <1>2, <1>5, <1>9 DEF CommitInv, RequestShape
  <2> QED BY <1>2, <2>1, <2>2, <2>3 DEF CommitInv, RequestShape
<1> QED BY <1>13, <1>16, <1>17 DEF CommitInv

\* The batch is answered.
LEMMA FinishBatchCommit ==
  ASSUME TypeInv, CommitInv, NEW w \in Workers, FinishBatch(w)
  PROVE  CommitInv'
<1>1. /\ commitBatch' = {} /\ released' = released \cup commitBatch
      /\ UNCHANGED <<commitQ, inProgress, job>> /\ Goto(w, "lead") /\ pc[w] = "finishBatch"
  BY DEF FinishBatch, jobVars
<1>2. \A v \in Workers : /\ v \in commitBatch => request'[v] \in {"ok", "failed"}
                         /\ v \notin commitBatch => request'[v] = request[v]
  BY DEF FinishBatch
<1>3. \A v \in Workers : pc'[v] = IF v = w THEN "lead" ELSE pc[v]
  BY <1>1 DEF Goto, TypeInv, TypeOK, ThreadTypes, Threads
<1>4. \A v \in Workers : Waiting(v)' <=> Waiting(v)
  BY <1>1 DEF Waiting
<1>5. NoRequestForgotten'
  BY <1>1, <1>2 DEF CommitInv, NoRequestForgotten, RequestShape, Waiting
<1>6. LeaderShape'
  BY <1>1, <1>3 DEF CommitInv, LeaderShape, Leading, LeadLabels
<1>7. RequestShape'
  BY <1>1, <1>2, <1>3, <1>4 DEF CommitInv, NoRequestForgotten, RequestShape
<1> QED BY <1>5, <1>6, <1>7 DEF CommitInv

\* The leader leaves when the queue is empty, and nobody waits then.
LEMMA LeaderExitCommit ==
  ASSUME TypeInv, CommitInv, NEW w \in Workers, LeaderExit(w)
  PROVE  CommitInv'
<1>1. /\ pc[w] = "lead" /\ commitQ = <<>> /\ Goto(w, "commitDone") /\ inProgress' = FALSE
      /\ UNCHANGED <<commitQ, commitBatch, request, released, job>>
  BY DEF LeaderExit, jobVars
<1>2. commitBatch = {} /\ \A v \in Workers : ~Waiting(v) /\ request[v] # "queued"
  <2>1. commitBatch = {}
    BY <1>1 DEF CommitInv, LeaderShape
  <2>2. DOMAIN commitQ = {}
    BY <1>1
  <2>3. \A v \in Workers : ~Waiting(v)
    BY <2>2 DEF Waiting
  <2>4. \A v \in Workers : request[v] # "queued"
    BY <2>1, <2>2 DEF CommitInv, NoRequestForgotten
  <2> QED BY <2>1, <2>3, <2>4
<1>3. \A v \in Workers : pc'[v] = IF v = w THEN "commitDone" ELSE pc[v]
  BY <1>1 DEF Goto, TypeInv, TypeOK, ThreadTypes, Threads
<1>4. \A v \in Workers : ~Leading(v)'
  BY <1>1, <1>3 DEF CommitInv, LeaderShape, Leading, LeadLabels
<1>5. LeaderShape'
  BY <1>4 DEF LeaderShape, Leading, LeadLabels
<1>6. RequestShape'
  BY <1>1, <1>2, <1>3 DEF CommitInv, RequestShape, Waiting
<1>7. NoRequestForgotten'
  BY <1>1, <1>2 DEF NoRequestForgotten, Waiting
<1> QED BY <1>5, <1>6, <1>7 DEF CommitInv

\* Steps of LogAndApply and of a refill keep a worker in the leader's loop.
LEMMA LogCommit ==
  ASSUME TypeInv, CommitInv, NEW t \in Threads, Manifest(t) \/ Refill(t)
  PROVE  CommitInv'
<1>1. PICK label \in LeadLabels \cup {"idle"} :
        Goto(t, label) /\ (label = "idle" => t = FG) /\ label \notin {"lead", "delay"}
  <2>1. CASE ManifestWake(t)
    BY <2>1 DEF ManifestWake, LeadLabels
  <2>2. CASE ManifestInstalled(t) \/ ManifestFailed(t)
    <3>1. Goto(t, "manifestDone")
      BY <2>2 DEF ManifestInstalled, ManifestFailed, Dequeue
    <3> QED BY <3>1 DEF LeadLabels
  <2>3. CASE RefillAdmit(t) \/ RefillCount(t)
    <3>1. Goto(t, "manifestIO") \/ Goto(t, "manifestWait") \/ Goto(t, "refill")
      BY <2>3 DEF RefillAdmit, RefillCount, LogAndApply
    <3> QED BY <3>1 DEF LeadLabels
  <2>4. CASE RefillStop(t) \/ RefillFail(t)
    <3>1. (t = FG /\ Goto(t, "idle")) \/ Goto(t, "finishBatch")
      BY <2>4 DEF RefillStop, RefillFail, RefillReturn
    <3> QED BY <3>1 DEF LeadLabels
  <2> QED BY <2>1, <2>2, <2>3, <2>4 DEF Manifest, Refill
<1>2. pc[t] \in LeadLabels
  BY DEF Manifest, ManifestWake, ManifestInstalled, ManifestFailed, Refill, RefillAdmit,
         RefillCount, RefillStop, RefillFail, LeadLabels
<1>3. UNCHANGED <<commitQ, inProgress, commitBatch, request, job>>
  BY DEF Manifest, ManifestWake, ManifestInstalled, ManifestFailed, Refill, RefillAdmit,
         RefillCount, RefillStop, RefillFail, commitVars, jobVars
<1>4. released' = released \/ released' = released \cup GroupJobs
  BY DEF Manifest, ManifestWake, ManifestInstalled, ManifestFailed, Refill, RefillAdmit,
         RefillCount, RefillStop, RefillFail, commitVars
<1>5. released' \subseteq released \cup commitBatch
  BY <1>4, EditTypes
<1>6. \A w \in Workers : Moves(w)
  BY <1>1, <1>2, ConfigAssumption DEF Moves, Goto, TypeInv, TypeOK, ThreadTypes, Threads
<1> QED BY <1>3, <1>5, <1>6, CommitKept

\* The steps of CommitQueue.
LEMMA CommitCommit ==
  ASSUME TypeInv, CommitInv, NEW w \in Workers, Commit(w)
  PROVE  CommitInv'
<1>1. CASE FollowerWait(w)
  BY <1>1, CommitKept DEF FollowerWait, commitVars, jobVars, Moves
<1>2. CASE LeaderDelay(w) \/ CommitFailed(w) \/ CommitInstalled(w)
  <2>1. /\ UNCHANGED <<commitQ, inProgress, commitBatch, request, job, released>>
        /\ pc[w] \in {"lead", "manifestDone"}
    BY <1>2 DEF LeaderDelay, CommitFailed, CommitInstalled, commitVars, jobVars
  <2>2. \/ pc[w] = "lead" /\ Goto(w, "delay")
        \/ \E label \in {"finishBatch", "refill"} : Goto(w, label)
    BY <1>2, ConfigAssumption DEF LeaderDelay, CommitFailed, CommitInstalled, RefillEnter,
                                  RefillReturn
  <2>3. \A v \in Workers : Moves(v)
    BY <2>1, <2>2 DEF Moves, Goto, TypeInv, TypeOK, ThreadTypes, Threads, LeadLabels
  <2> QED BY <2>1, <2>3, CommitKept
<1>3. CASE LeaderBatch(w) \/ LeaderWake(w)
  BY <1>3, TakeBatchCommit DEF LeaderBatch, LeaderWake
<1>4. CASE CommitReturn(w)
  <2>1. CompactionReturn(w, request[w] = "ok") /\ UNCHANGED <<commitQ, inProgress, commitBatch>>
    BY <1>4 DEF CommitReturn
  <2>2. request[w] # "queued" /\ pc[w] \notin LeadLabels
    BY <1>4 DEF CommitReturn, CommitInv, RequestShape, LeadLabels
  <2>3. (request[w] = "ok") \in BOOLEAN
    OBVIOUS
  <2> QED BY <2>1, <2>2, <2>3, ReturnCommit
<1> QED BY <1>1, <1>2, <1>3, <1>4, FinishBatchCommit, LeaderExitCommit DEF Commit

\* The steps of VirtualCompaction.
LEMMA CompactCommit ==
  ASSUME TypeInv, CommitInv, NEW w \in Workers, Compact(w)
  PROVE  CommitInv'
<1>1. CASE Pick(w)
  <2>1. /\ pc[w] = "idle" /\ UNCHANGED <<released, commitBatch>>
        /\ \A v \in Workers : v # w => job'[v] = job[v]
    BY <1>1 DEF Pick, MissingInput, TypeInv, TypeOK, JobTypes
  <2>2. CASE Push(w)
    BY <2>1, <2>2, PushCommit
  <2>3. CASE Goto(w, "merge") /\ UNCHANGED <<commitQ, request, inProgress>>
    <3>1. \A v \in Workers : pc'[v] = IF v = w THEN "merge" ELSE pc[v]
      BY <2>3 DEF Goto, TypeInv, TypeOK, ThreadTypes, Threads
    <3>2. \A v \in Workers : Waiting(v)' <=> Waiting(v)
      BY <2>3 DEF Waiting
    <3>3. /\ LeaderShape'
          /\ NoRequestForgotten'
      <4>1. \A v \in Workers : Leading(v)' => Leading(v)
        BY <3>1 DEF Leading, LeadLabels
      <4>2. LeaderShape'
        BY <2>1, <2>3, <3>1, <4>1 DEF CommitInv, LeaderShape
      <4>3. NoRequestForgotten'
        BY <2>1, <2>3, <3>1, <4>1 DEF CommitInv, NoRequestForgotten
      <4> QED BY <4>2, <4>3
    <3>4. RequestShape'
      BY <2>1, <2>3, <3>1, <3>2 DEF CommitInv, RequestShape
    <3> QED BY <3>3, <3>4 DEF CommitInv
  <2>4. CASE MissingInput(w)
    <3>1. Rests(w) /\ UNCHANGED <<commitQ, inProgress, request, job>>
      BY <2>4, StopRests DEF MissingInput
    <3>2. \A v \in Workers : Moves(v)
      BY <2>1, <3>1 DEF Rests, Moves, RestLabels, Threads
    <3> QED BY <2>1, <3>1, <3>2, CommitKept
  <2> QED BY <1>1, <2>2, <2>3, <2>4 DEF Pick
<1>2. CASE MergeDone(w)
  BY <1>2, PushCommit DEF MergeDone, TypeInv, TypeOK, JobTypes
<1>3. CASE MergeFailed(w)
  BY <1>3, ReturnCommit DEF MergeFailed, CommitInv, RequestShape, LeadLabels
<1>4. CASE CollectAfterFailure(w) \/ Purge(w)
  BY <1>4, CommitKept DEF CollectAfterFailure, Purge, commitVars, jobVars, Moves, RestLabels, Goto,
                          TypeInv, TypeOK, ThreadTypes, Threads
<1> QED BY <1>1, <1>2, <1>3, <1>4 DEF Compact

\* The loader moves no worker and touches no request.
LEMMA LoaderCommit ==
  ASSUME TypeInv, CommitInv, LoaderNext
  PROVE  CommitInv'
<1>1. CASE Manifest(FG) \/ Refill(FG)
  BY <1>1, LogCommit DEF Threads
<1>2. CASE ~(Manifest(FG) \/ Refill(FG))
  <2>1. \/ \E k \in EnqueueSizes : Enqueue(k)
        \/ LoadWait \/ SetOptions \/ OptionsLead \/ DrainRefill \/ DrainWait
        \/ Pause \/ Cleanup \/ Snapshot \/ Purge(FG)
    BY <1>2 DEF LoaderNext
  <2>2. UNCHANGED <<commitQ, inProgress, commitBatch, request, released, job>>
    BY <2>1 DEF Enqueue, LoadWait, SetOptions, OptionsLead, DrainRefill, DrainWait, Pause,
                Cleanup, Snapshot, Purge, commitVars, jobVars
  <2>3. UNCHANGED pc \/ \E label \in Labels : Goto(FG, label)
    BY <2>1 DEF Enqueue, LoadWait, SetOptions, OptionsLead, DrainRefill, DrainWait, Pause,
                Cleanup, Snapshot, Purge, threadVars, RefillEnter, RefillReturn, Labels
  <2>4. \A v \in Workers : Moves(v)
    BY <2>3, ConfigAssumption DEF Moves, Goto, TypeInv, TypeOK, ThreadTypes, Threads
  <2> QED BY <2>2, <2>4, CommitKept
<1> QED BY <1>1, <1>2

\* One leader at a time; requests are where they should be.
THEOREM CommitInvariant == Spec => []CommitInv
<1>1. Init => CommitInv
  <2> SUFFICES ASSUME Init PROVE CommitInv
    OBVIOUS
  <2>1. /\ \A w \in Workers : pc[w] = "idle" /\ request[w] = "none" /\ job[w] = NoJob
        /\ commitQ = <<>> /\ commitBatch = {} /\ released = {}
    BY DEF Init, Threads
  <2>2. LeaderShape
    BY <2>1 DEF LeaderShape, Leading, LeadLabels
  <2>3. RequestShape /\ NoRequestForgotten
    BY <2>1 DEF RequestShape, NoRequestForgotten, Waiting
  <2> QED BY <2>2, <2>3 DEF CommitInv
<1>2. TypeInv /\ CommitInv /\ [Next]_vars => CommitInv'
  <2>1. ASSUME TypeInv, CommitInv, Next PROVE CommitInv'
    BY <2>1, LogCommit, CommitCommit, CompactCommit, LoaderCommit, CommitKept
    DEF Next, WorkerNext, Terminated, vars, threadVars, commitVars, jobVars, Moves, Threads
  <2>2. ASSUME TypeInv, CommitInv, UNCHANGED vars PROVE CommitInv'
    BY <2>2, CommitKept DEF vars, threadVars, commitVars, jobVars, Moves
  <2> QED BY <2>1, <2>2
<1> QED BY <1>1, <1>2, TypeInvariant, PTL DEF Spec

\* No request is forgotten: between its push and its answer a compaction's
\* request is in the queue or in the leader's batch, exactly once, and somebody
\* leads, however pushes, batches and the end of the leadership interleave.
THEOREM RequestsKept == Spec => []NoRequestForgotten
<1>1. CommitInv => NoRequestForgotten
  BY DEF CommitInv
<1> QED BY <1>1, CommitInvariant, PTL
=============================================================================
