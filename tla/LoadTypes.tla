------------------------------ MODULE LoadTypes ------------------------------
(***************************************************************************)
(* Type correctness of the load, for every number of workers, files and    *)
(* levels and every setting of the limits: the remaining steps and the     *)
(* theorem.  TypeOK is not inductive: that L0 holds generated files only   *)
(* rests on the shape of the compactions, and that ioLen bounds a prefix   *)
(* of manifestQ on who is in that queue.                                   *)
(***************************************************************************)
EXTENDS TypesCommit

-----------------------------------------------------------------------------
(* Compactions.                                                            *)

\* The picker returns a compaction downwards, of L0 files or of files of one
\* lower level.
LEMMA PicksShape ==
  ASSUME TypeInv, NEW j \in Picks
  PROVE  /\ j \in Jobs /\ j.level < j.out /\ j.outputs = {}
         /\ j.level = 0 => j.inputs \subseteq L0Files
         /\ j.move => j.lower = {}
         /\ j.inputs \subseteq Idle(j.level) /\ j.lower \subseteq Idle(j.out)
         /\ j.inputs # {}
<1>1. PICK l \in 0..(MaxLevel - 1) :
        j \in [level : {l}, out : 1..MaxLevel, inputs : SUBSET Idle(l),
               lower : UNION {SUBSET version[k] : k \in 1..MaxLevel},
               outputs : {{}}, move : BOOLEAN]
  BY DEF Picks
<1>2. Pickable(j)
  BY DEF Picks
<1>3. /\ j.level = l /\ j.out \in 1..MaxLevel /\ j.inputs \subseteq version[l]
      /\ \E k \in 1..MaxLevel : j.lower \subseteq version[k]
      /\ j.outputs = {} /\ j.move \in BOOLEAN
      /\ j = [level |-> j.level, out |-> j.out, inputs |-> j.inputs, lower |-> j.lower,
              outputs |-> j.outputs, move |-> j.move]
  BY <1>1 DEF Idle
<1>4. \A k \in Levels : version[k] \subseteq Files
  BY DEF TypeInv, TypeOK, VersionTypes
<1>5. j.level \in Levels /\ j.out \in Levels /\ 1..MaxLevel \subseteq Levels
  BY <1>3, ConfigAssumption DEF Levels
<1>6. j.inputs \subseteq Files /\ j.lower \subseteq Files
  BY <1>3, <1>4, <1>5
<1>7. j \in Jobs
  BY <1>3, <1>5, <1>6 DEF Jobs
<1>8. j.level < j.out
  BY <1>2, <1>3, ConfigAssumption DEF Pickable
<1>9. j.level = 0 => j.inputs \subseteq L0Files
  BY <1>3 DEF TypeInv, TypeOK, VersionTypes
<1>10. /\ j.move => j.lower = {}
       /\ j.inputs \subseteq Idle(j.level) /\ j.lower \subseteq Idle(j.out) /\ j.inputs # {}
  BY <1>2 DEF Pickable
<1> QED BY <1>3, <1>7, <1>8, <1>9, <1>10

\* A worker picks.
LEMMA PickTypes ==
  ASSUME TypeInv, NEW w \in Workers, Pick(w)
  PROVE  TypeInv'
<1>1. PICK j \in Picks :
        IF ~AllVirtual(j.inputs \cup j.lower)
          THEN MissingInput(w)
          ELSE /\ job' = [job EXCEPT ![w] = j]
               /\ IF j.move
                    THEN Push(w)
                    ELSE /\ Goto(w, "merge")
                         /\ UNCHANGED <<mutex, asleep, commitQ, request, inProgress>>
               /\ UNCHANGED bgError
  BY DEF Pick
<1>2. /\ UNCHANGED <<manifestVars, versionVars, windowVars, released, commitBatch, commitOk,
                    nextFile, origin, loaderVars, failures>>
      /\ pc[w] = "idle" /\ w \in Threads
  BY DEF Pick, Threads
<1>3. VersionTypes' /\ WindowTypes' /\ LoaderTypes' /\ failures' \in 0..MaxFailures
  BY <1>2, TypesKept DEF TypeInv, TypeOK
<1>4. /\ ThreadTypes' /\ ManifestTypes' /\ QueueShape'
      /\ request' \in [Workers -> {"none", "queued", "ok", "failed"}]
      /\ commitQ' \in Seq(Workers) /\ inProgress' \in BOOLEAN
  <2>1. CASE Push(w)
    BY <1>2, <2>1, PushTypes
  <2>2. CASE Goto(w, "merge") /\ UNCHANGED <<mutex, asleep, commitQ, request, inProgress>>
    <3>1. QueueShape'
      BY <1>2, <2>2, QueueKept DEF TypeInv, TypeOK, Labels
    <3>2. ThreadTypes' /\ ManifestTypes'
      BY <1>2, <2>2, TypesKept DEF TypeInv, TypeOK, ThreadTypes, Goto, Labels
    <3> QED BY <2>2, <3>1, <3>2 DEF TypeInv, TypeOK, CommitTypes
  <2>3. CASE MissingInput(w)
    <3>1. Rests(w) /\ UNCHANGED <<mutex, asleep, commitQ, request, inProgress>>
      BY <2>3, StopRests DEF MissingInput
    <3>2. QueueShape' /\ ManifestTypes'
      BY <1>2, <3>1, RestsQueue, TypesKept DEF TypeInv, TypeOK
    <3>3. ThreadTypes'
      BY <3>1 DEF TypeInv, TypeOK, ThreadTypes, Rests
    <3> QED BY <3>1, <3>2, <3>3 DEF TypeInv, TypeOK, CommitTypes
  <2> QED BY <1>1, <2>1, <2>2, <2>3
<1>5. CommitTypes'
  BY <1>2, <1>4 DEF TypeInv, TypeOK, CommitTypes
<1>6. job' = job \/ job' = [job EXCEPT ![w] = j]
  BY <1>1 DEF MissingInput
<1>7. job' \in [Workers -> Jobs] /\ JobShape'
  BY <1>6, PicksShape DEF TypeInv, TypeOK, JobTypes, JobShape
<1>8. bgError' \in BOOLEAN
  BY <1>1 DEF MissingInput, TypeInv, TypeOK, JobTypes
<1>9. JobTypes'
  BY <1>2, <1>7, <1>8 DEF TypeInv, TypeOK, JobTypes
<1> QED BY <1>3, <1>4, <1>5, <1>7, <1>9 DEF TypeInv, TypeOK

\* File numbers do not run out: a merge that runs has one reserved.
LEMMA RoomLeft ==
  ASSUME TypeInv, NEW w \in Workers, pc[w] = "merge",
         NEW k \in 1..MaxOutputs, k <= Room + 1
  PROVE  nextFile + k \in (NumL0 + 1)..(MaxFile + 1) /\ nextFile..(nextFile + k - 1) \subseteq Files
<1> DEFINE M == {v \in Workers : pc[v] = "merge"}
<1>1. IsFiniteSet(M)
  BY FS_Subset, ConfigAssumption
<1>2. Cardinality(M) \in Nat /\ Cardinality(M) # 0
  BY <1>1, FS_CardinalityType, FS_EmptySet
<1>3. nextFile \in (NumL0 + 1)..(MaxFile + 1) /\ NumL0 \in Nat /\ MaxFile \in Nat
  BY ConfigAssumption DEF TypeInv, TypeOK, JobTypes
<1>4. k \in Nat /\ k >= 1 /\ k <= MaxFile + 1 - nextFile - Cardinality(M) + 1
  BY ConfigAssumption DEF Room
<1> HIDE DEF M
<1>5. nextFile + k <= MaxFile + 1
  BY <1>2, <1>3, <1>4
<1> QED BY <1>3, <1>4, <1>5 DEF Files

\* A merge ends with new files.
LEMMA MergeDoneTypes ==
  ASSUME TypeInv, MergeShape, NEW w \in Workers, MergeDone(w)
  PROVE  TypeInv'
<1>1. PICK k \in 1..MaxOutputs :
        /\ k <= Room + 1
        /\ job' = [job EXCEPT ![w].outputs = nextFile..(nextFile + k - 1)]
        /\ nextFile' = nextFile + k
        /\ origin' = [f \in Files |->
                        IF f \in nextFile..(nextFile + k - 1)
                          THEN UNION {origin[g] : g \in job[w].inputs \cup job[w].lower}
                          ELSE origin[f]]
  BY DEF MergeDone
<1>2. /\ UNCHANGED <<manifestVars, versionVars, windowVars, released, commitBatch, commitOk,
                    bgError, loaderVars, failures>>
      /\ pc[w] = "merge" /\ Push(w)
  BY DEF MergeDone
<1>3. VersionTypes' /\ WindowTypes' /\ LoaderTypes' /\ failures' \in 0..MaxFailures
  BY <1>2, TypesKept DEF TypeInv, TypeOK
<1>4. /\ ThreadTypes' /\ ManifestTypes' /\ QueueShape'
      /\ request' \in [Workers -> {"none", "queued", "ok", "failed"}]
      /\ commitQ' \in Seq(Workers) /\ inProgress' \in BOOLEAN
  BY <1>2, PushTypes
<1>5. CommitTypes'
  BY <1>2, <1>4 DEF TypeInv, TypeOK, CommitTypes
<1>6. /\ nextFile' \in (NumL0 + 1)..(MaxFile + 1)
      /\ nextFile..(nextFile + k - 1) \subseteq Files
  BY <1>1, <1>2, RoomLeft
<1>7. job' \in [Workers -> Jobs]
  BY <1>1, <1>6 DEF TypeInv, TypeOK, JobTypes, Jobs
<1>8. \A g \in job[w].inputs \cup job[w].lower : origin[g] \subseteq L0Files
  BY EditTypes DEF TypeInv, TypeOK, JobTypes
<1>9. origin' \in [Files -> SUBSET L0Files]
  BY <1>1, <1>8 DEF TypeInv, TypeOK, JobTypes
<1>10. JobTypes'
  BY <1>2, <1>6, <1>7, <1>9 DEF TypeInv, TypeOK, JobTypes
<1>11. job[w] # NoJob /\ ~job[w].move
  BY <1>2 DEF MergeShape
<1>12. /\ job'[w].level = job[w].level /\ job'[w].out = job[w].out
       /\ job'[w].inputs = job[w].inputs /\ job'[w].move = job[w].move
  BY <1>1 DEF TypeInv, TypeOK, JobTypes, Jobs
<1>13. \A v \in Workers \ {w} : job'[v] = job[v]
  BY <1>1 DEF TypeInv, TypeOK, JobTypes
<1>14. JobShape'
  BY <1>11, <1>12, <1>13 DEF TypeInv, JobShape
<1> QED BY <1>3, <1>4, <1>5, <1>10, <1>14 DEF TypeInv, TypeOK

\* A failed merge.
LEMMA MergeFailedTypes ==
  ASSUME TypeInv, NEW w \in Workers, MergeFailed(w)
  PROVE  TypeInv'
<1>1. CompactionReturn(w, FALSE) /\ pc[w] # "manifestIO" /\ pc[w] # "manifestWait"
  BY DEF MergeFailed
<1>2. failures' \in 0..MaxFailures
  BY ConfigAssumption DEF TypeInv, TypeOK, MergeFailed
<1> QED BY <1>1, <1>2, CompactionReturnTypes DEF MergeFailed, TypeInv, TypeOK

\* Collecting and purging obsolete files.
LEMMA PurgeTypes ==
  ASSUME TypeInv, NEW t \in Threads,
         CollectAfterFailure(t) \/ Purge(t)
  PROVE  TypeInv'
<1>1. /\ ManifestTypes' /\ WindowTypes' /\ CommitTypes' /\ JobTypes' /\ LoaderTypes'
      /\ JobShape' /\ failures' \in 0..MaxFailures
  BY TypesKept DEF TypeInv, TypeOK, CollectAfterFailure, Purge, jobVars
<1>2. PICK label \in {"purge", "idle"} : Goto(t, label)
  BY DEF CollectAfterFailure, Purge
<1>3. ThreadTypes'
  BY <1>2 DEF TypeInv, TypeOK, ThreadTypes, CollectAfterFailure, Purge, Goto, Labels
<1>4. QueueShape'
  BY <1>2, QueueKept DEF TypeInv, TypeOK, CollectAfterFailure, Purge, Labels
<1>5. VersionTypes'
  BY DEF TypeInv, TypeOK, VersionTypes, CollectAfterFailure, Purge, FindObsoleteFiles,
         registryVars, Consume
<1> QED BY <1>1, <1>3, <1>4, <1>5 DEF TypeInv, TypeOK

-----------------------------------------------------------------------------
(* The loader.                                                             *)

\* The files of one EnqueueVirtualL0Files call are generated files.
LEMMA EnqueueTypes ==
  ASSUME TypeInv, NEW k \in EnqueueSizes, Enqueue(k)
  PROVE  TypeInv'
<1> DEFINE new == [i \in 1..k |-> nextL0 + i - 1]
<1>1. VersionTypes' /\ JobTypes' /\ JobShape' /\ failures' \in 0..MaxFailures
  BY TypesKept DEF TypeInv, TypeOK, Enqueue, jobVars
<1>2. k \in Nat /\ k >= 1 /\ NumL0 \in Nat /\ nextL0 \in 1..(NumL0 + 1)
  BY ConfigAssumption DEF TypeInv, TypeOK, LoaderTypes
<1>3. nextL0 + k - 1 <= NumL0 /\ nextL0' = nextL0 + k /\ pending' = pending \o new
  BY DEF Enqueue
<1>4. nextL0' \in 1..(NumL0 + 1) /\ \A i \in 1..k : nextL0 + i - 1 \in L0Files
  BY <1>2, <1>3 DEF L0Files
<1>5. new \in [1..k -> L0Files]
  BY <1>4
<1> HIDE DEF new
<1>6. new \in Seq(L0Files)
  BY <1>2, <1>5, FunctionIsSeq
<1>7. pending' \in Seq(L0Files)
  BY <1>3, <1>6, ConcatProperties DEF TypeInv, TypeOK, WindowTypes
<1>8. /\ ThreadTypes' /\ ManifestTypes' /\ QueueShape'
      /\ commitOk' \in BOOLEAN /\ stage' \in Stages
      /\ feed' \in [Threads -> [target : Nat, trickled : BOOLEAN]]
  <2>1. FG \in Threads /\ pc[FG] = "idle" /\ RefillEnter(FG, pending')
        /\ UNCHANGED <<asleep, manifestVars>>
    BY DEF Enqueue, At, Threads
  <2> QED BY <1>7, <2>1, RefillEnterTypes
<1>9. UNCHANGED <<visible, batch, lost, released, request, commitQ, inProgress, commitBatch,
                  trigger, drainRound, paused>>
  BY DEF Enqueue
<1>10. WindowTypes' /\ CommitTypes' /\ LoaderTypes'
  BY <1>4, <1>7, <1>8, <1>9 DEF TypeInv, TypeOK, WindowTypes, CommitTypes, LoaderTypes
<1> QED BY <1>1, <1>8, <1>10 DEF TypeInv, TypeOK

\* A round of the drain refills.
LEMMA DrainRefillTypes ==
  ASSUME TypeInv, DrainRefill
  PROVE  TypeInv'
<1>1. VersionTypes' /\ JobTypes' /\ JobShape' /\ failures' \in 0..MaxFailures
  BY TypesKept DEF TypeInv, TypeOK, DrainRefill, jobVars
<1>2. FG \in Threads /\ pc[FG] = "idle" /\ RefillEnter(FG, pending)
      /\ UNCHANGED <<asleep, manifestVars>> /\ pending \in Seq(L0Files)
  BY DEF DrainRefill, At, Threads, TypeInv, TypeOK, WindowTypes
<1>3. /\ ThreadTypes' /\ ManifestTypes' /\ QueueShape'
      /\ commitOk' \in BOOLEAN /\ stage' \in Stages
      /\ feed' \in [Threads -> [target : Nat, trickled : BOOLEAN]]
  BY <1>2, RefillEnterTypes
<1>4. UNCHANGED <<pending, visible, batch, lost, released, request, commitQ, inProgress,
                  commitBatch, nextL0, trigger, drainRound, paused>>
  BY DEF DrainRefill
<1>5. WindowTypes' /\ CommitTypes' /\ LoaderTypes'
  BY <1>3, <1>4 DEF TypeInv, TypeOK, WindowTypes, CommitTypes, LoaderTypes
<1> QED BY <1>1, <1>3, <1>5 DEF TypeInv, TypeOK

\* The waits, the pause and the snapshot advance the stage; the drain counts
\* its rounds and stops counting at NumL0 + 2.
LEMMA StageTypes ==
  ASSUME TypeInv, LoadWait \/ DrainWait \/ Pause \/ Snapshot
  PROVE  TypeInv'
<1>1. UNCHANGED <<threadVars, manifestVars, versionVars, windowVars, commitVars, jobVars,
                  nextL0, trigger, failures>>
  BY DEF LoadWait, DrainWait, Pause, Snapshot
<1>2. /\ ThreadTypes' /\ ManifestTypes' /\ VersionTypes' /\ WindowTypes' /\ CommitTypes'
      /\ JobTypes' /\ JobShape' /\ QueueShape' /\ failures' \in 0..MaxFailures
  BY <1>1, TypesKept DEF TypeInv, TypeOK, threadVars, jobVars
<1>3. stage' \in Stages /\ paused' \in BOOLEAN
  BY DEF LoadWait, DrainWait, DrainRoundNext, Pause, Snapshot, Stages, TypeInv, TypeOK, LoaderTypes
<1>4. drainRound' \in 0..(NumL0 + 2)
  BY ConfigAssumption DEF LoadWait, DrainWait, DrainRoundNext, Pause, Snapshot,
                          TypeInv, TypeOK, LoaderTypes
<1>5. LoaderTypes'
  BY <1>1, <1>3, <1>4 DEF LoaderTypes, TypeInv, TypeOK
<1> QED BY <1>2, <1>5 DEF TypeInv, TypeOK

\* SetOptions changes the trigger to a positive number.
LEMMA SetTriggerTypes ==
  ASSUME LoaderTypes, SetTrigger
  PROVE  LoaderTypes'
BY ConfigAssumption DEF LoaderTypes, SetTrigger, Stages

\* SetOptions queues its dummy edit behind the writers there are.
LEMMA SetOptionsTypes ==
  ASSUME TypeInv, SetOptions
  PROVE  TypeInv'
<1>1. VersionTypes' /\ WindowTypes' /\ CommitTypes' /\ JobTypes' /\ JobShape'
      /\ failures' \in 0..MaxFailures
  BY TypesKept DEF TypeInv, TypeOK, SetOptions, jobVars
<1>2. CASE manifestQ = <<>>
  <2>1. SetTrigger /\ UNCHANGED <<threadVars, manifestVars>>
    BY <1>2 DEF SetOptions
  <2>2. ThreadTypes' /\ ManifestTypes' /\ QueueShape'
    BY <2>1, TypesKept DEF TypeInv, TypeOK, threadVars
  <2>3. LoaderTypes'
    BY <2>1, SetTriggerTypes DEF TypeInv, TypeOK
  <2> QED BY <1>1, <2>2, <2>3 DEF TypeInv, TypeOK
<1>3. CASE manifestQ # <<>>
  <2>1. /\ manifestQ' = Append(manifestQ, FG)
        /\ ioLen' = (IF manifestQ = <<>> THEN 1 ELSE ioLen)
        /\ purpose' = [purpose EXCEPT ![FG] = "options"]
        /\ written' = [written EXCEPT ![FG] = "none"]
        /\ Goto(FG, IF manifestQ = <<>> THEN "manifestIO" ELSE "manifestWait")
        /\ mutex' = mutex /\ asleep' = asleep \cup {FG} /\ UNCHANGED loaderVars
        /\ FG \in Threads /\ pc[FG] = "idle"
    BY <1>3 DEF SetOptions, Threads, At
  <2>2. LoaderTypes'
    BY <2>1, TypesKept DEF TypeInv, TypeOK
  <2>3. ThreadTypes'
    BY <2>1 DEF TypeInv, TypeOK, ThreadTypes, Goto, Labels
  <2>4. ManifestTypes' /\ QueueShape'
    BY <2>1, AppendWriter DEF TypeInv, TypeOK
  <2> QED BY <1>1, <2>2, <2>3, <2>4 DEF TypeInv, TypeOK
<1> QED BY <1>2, <1>3

\* The dummy edit leaves the front of the queue, which nobody is writing.
LEMMA OptionsLeadTypes ==
  ASSUME TypeInv, OptionsLead
  PROVE  TypeInv'
<1>1. /\ VersionTypes' /\ WindowTypes' /\ CommitTypes' /\ JobTypes' /\ JobShape'
      /\ failures' \in 0..MaxFailures
  BY TypesKept DEF TypeInv, TypeOK, OptionsLead, jobVars
<1>2. LoaderTypes'
  BY SetTriggerTypes DEF TypeInv, TypeOK, OptionsLead
<1>3. /\ FG \in Threads /\ pc[FG] = "manifestWait" /\ Goto(FG, "idle")
      /\ mutex' = mutex /\ asleep' \subseteq asleep
      /\ manifestQ # <<>> /\ Head(manifestQ) = FG /\ manifestQ' = Tail(manifestQ)
      /\ written' = [written EXCEPT ![FG] = "ok"] /\ UNCHANGED <<ioLen, purpose>>
  BY DEF OptionsLead, Threads
<1>4. ThreadTypes'
  BY <1>3 DEF TypeInv, TypeOK, ThreadTypes, Goto, Labels
<1>5. manifestQ \in Seq(Threads) /\ manifestQ[1] = FG /\ 1 \in 1..Len(manifestQ)
  BY <1>3 DEF TypeInv, TypeOK, ManifestTypes
<1>6. ioLen = 0
  BY <1>3, <1>5 DEF TypeInv, TypeOK, ManifestTypes, QueueShape
<1>7. /\ manifestQ' \in Seq(Threads) /\ Len(manifestQ') = Len(manifestQ) - 1
      /\ \A i \in 1..(Len(manifestQ) - 1) : manifestQ'[i] = manifestQ[i + 1]
  BY <1>3, <1>5, HeadTailProperties
<1>8. /\ written' \in [Threads -> {"none", "ok", "failed"}]
      /\ \A s \in Threads : written'[s] = (IF s = FG THEN "ok" ELSE written[s])
  BY <1>3 DEF TypeInv, TypeOK, ManifestTypes
<1>9. \A i \in DOMAIN manifestQ : manifestQ[i] \in Threads /\ (manifestQ[i] = FG <=> ~(i > 1))
  BY <1>5 DEF TypeInv, QueueShape
<1>10. /\ \A i \in DOMAIN manifestQ : written'[manifestQ[i]] = "none" <=> i > 1
       /\ \A s \in Threads : written'[s] = "none" => written[s] = "none"
  BY <1>8, <1>9 DEF TypeInv, QueueShape
<1>11. ManifestTypes' /\ QueueShape'
  BY <1>3, <1>5, <1>6, <1>7, <1>8, <1>10, DropWriters DEF TypeInv, TypeOK, Labels
<1> QED BY <1>1, <1>2, <1>4, <1>11 DEF TypeInv, TypeOK

\* The final collection.
LEMMA CleanupTypes ==
  ASSUME TypeInv, Cleanup
  PROVE  TypeInv'
<1>1. /\ ManifestTypes' /\ WindowTypes' /\ CommitTypes' /\ JobTypes' /\ JobShape'
      /\ failures' \in 0..MaxFailures
  BY TypesKept DEF TypeInv, TypeOK, Cleanup, jobVars
<1>2. FG \in Threads /\ pc[FG] = "idle" /\ Goto(FG, "purge")
  BY DEF Cleanup, At, Threads
<1>3. ThreadTypes' /\ LoaderTypes'
  BY <1>2 DEF TypeInv, TypeOK, ThreadTypes, LoaderTypes, Cleanup, Goto, Labels, Stages
<1>4. QueueShape'
  BY <1>2, QueueKept DEF TypeInv, TypeOK, Cleanup, Labels
<1>5. VersionTypes'
  BY <1>2 DEF TypeInv, TypeOK, VersionTypes, Cleanup, FindObsoleteFiles, registryVars
<1> QED BY <1>1, <1>3, <1>4, <1>5 DEF TypeInv, TypeOK

-----------------------------------------------------------------------------
(* The invariant.                                                          *)

\* Only a pick makes a worker merge, and no step touches the compaction of a
\* worker that merges but its own.
LEMMA MergeShapeStep ==
  ASSUME TypeInv, MergeShape, Next
  PROVE  MergeShape'
<1>1. ASSUME NEW t \in Threads, NEW label, label # "merge", Goto(t, label),
             \A v \in Workers : v # t => job'[v] = job[v]
      PROVE  MergeShape'
  BY <1>1 DEF MergeShape, Goto, TypeInv, TypeOK, ThreadTypes, Threads
<1>2. ASSUME UNCHANGED <<pc, job>>
      PROVE  MergeShape'
  BY <1>2 DEF MergeShape
<1>3. FG \in Threads /\ \A w \in Workers : w \in Threads
  BY DEF Threads
<1>4. ASSUME NEW w \in Workers, NEW ok \in BOOLEAN, CompactionReturn(w, ok)
       PROVE  MergeShape'
  <2>1. Rests(w) /\ \A v \in Workers : v # w => job'[v] = job[v]
    BY <1>4, ReturnRests DEF CompactionReturn, TypeInv, TypeOK, JobTypes
  <2> QED BY <2>1 DEF Rests, MergeShape, Threads
<1>5. ASSUME NEW t \in Threads, Manifest(t)
      PROVE  MergeShape'
  BY <1>1, <1>5 DEF Manifest, ManifestWake, ManifestInstalled, ManifestFailed, Dequeue, jobVars
<1>6. ASSUME NEW t \in Threads, Refill(t)
      PROVE  MergeShape'
  <2>1. UNCHANGED job
    BY <1>6 DEF Refill, RefillAdmit, RefillCount, RefillStop, RefillFail, jobVars
  <2>2. \E label \in Labels \ {"merge"} : Goto(t, label)
    BY <1>6 DEF Refill, RefillAdmit, RefillCount, RefillStop, RefillFail, RefillReturn,
                LogAndApply, Labels
  <2> QED BY <1>1, <2>1, <2>2
<1>7. ASSUME NEW w \in Workers, Commit(w)
      PROVE  MergeShape'
  <2>1. CASE FollowerWait(w)
    BY <1>2, <2>1 DEF FollowerWait, jobVars
  <2>2. CASE LeaderBatch(w) \/ LeaderWake(w) \/ CommitInstalled(w)
    <3>1. UNCHANGED job
      BY <2>2 DEF LeaderBatch, LeaderWake, TakeBatch, CommitInstalled, jobVars
    <3>2. \E label \in Labels \ {"merge"} : Goto(w, label)
      BY <2>2 DEF LeaderBatch, LeaderWake, TakeBatch, CommitInstalled, RefillEnter,
                  RefillReturn, LogAndApply, Labels
    <3> QED BY <1>1, <1>3, <3>1, <3>2
  <2>3. CASE LeaderDelay(w) \/ CommitFailed(w) \/ FinishBatch(w) \/ LeaderExit(w)
    BY <1>1, <1>3, <2>3 DEF LeaderDelay, CommitFailed, FinishBatch, LeaderExit, jobVars
  <2>4. CASE CommitReturn(w)
    <3>1. CompactionReturn(w, request[w] = "ok") /\ (request[w] = "ok") \in BOOLEAN
      BY <2>4 DEF CommitReturn
    <3> QED BY <3>1, <1>4
  <2> QED BY <1>7, <2>1, <2>2, <2>3, <2>4 DEF Commit
<1>8. ASSUME NEW w \in Workers, Compact(w)
      PROVE  MergeShape'
  <2>1. CASE Pick(w)
    <3>1. PICK j \in Picks :
            \/ MissingInput(w)
            \/ job' = [job EXCEPT ![w] = j] /\ (IF j.move THEN Push(w) ELSE Goto(w, "merge"))
      BY <2>1 DEF Pick
    <3>2. j # NoJob
      BY PicksShape DEF NoJob
    <3>3. CASE MissingInput(w)
      <4>1. Rests(w) /\ job' = job
        BY <3>3, StopRests DEF MissingInput
      <4> QED BY <4>1 DEF Rests, MergeShape, Threads
    <3>4. CASE j.move /\ Push(w) /\ job' = [job EXCEPT ![w] = j]
      BY <1>1, <1>3, <3>4 DEF Push, TypeInv, TypeOK, JobTypes
    <3>5. CASE ~j.move /\ Goto(w, "merge") /\ job' = [job EXCEPT ![w] = j]
      BY <1>3, <3>2, <3>5 DEF MergeShape, Goto, TypeInv, TypeOK, ThreadTypes, JobTypes, Threads
    <3> QED BY <3>1, <3>3, <3>4, <3>5
  <2>2. CASE MergeDone(w)
    BY <1>1, <1>3, <2>2 DEF MergeDone, Push, TypeInv, TypeOK, JobTypes
  <2>3. CASE MergeFailed(w)
    BY <1>4, <2>3 DEF MergeFailed
  <2>4. CASE CollectAfterFailure(w) \/ Purge(w)
    BY <1>1, <1>3, <2>4 DEF CollectAfterFailure, Purge, jobVars
  <2> QED BY <1>8, <2>1, <2>2, <2>3, <2>4 DEF Compact
<1>9. ASSUME NEW k \in EnqueueSizes, Enqueue(k)
      PROVE  MergeShape'
  <2>1. UNCHANGED job
    BY <1>9 DEF Enqueue, jobVars
  <2>2. \E label \in Labels \ {"merge"} : Goto(FG, label)
    BY <1>9 DEF Enqueue, RefillEnter, RefillReturn, Labels
  <2> QED BY <1>1, <1>3, <2>1, <2>2
<1>10. CASE DrainRefill
  <2>1. UNCHANGED job
    BY <1>10 DEF DrainRefill, jobVars
  <2>2. \E label \in Labels \ {"merge"} : Goto(FG, label)
    BY <1>10 DEF DrainRefill, RefillEnter, RefillReturn, Labels
  <2> QED BY <1>1, <1>3, <2>1, <2>2
<1>11. CASE LoadWait \/ DrainWait \/ Pause \/ Snapshot \/ Terminated
  BY <1>2, <1>11 DEF LoadWait, DrainWait, Pause, Snapshot, Terminated, vars, threadVars, jobVars
<1>12. CASE SetOptions \/ OptionsLead
  BY <1>1, <1>2, <1>3, <1>12 DEF SetOptions, OptionsLead, threadVars, jobVars
<1>13. CASE Cleanup \/ Purge(FG)
  BY <1>1, <1>3, <1>13 DEF Cleanup, Purge, jobVars
<1> QED
  BY <1>3, <1>5, <1>6, <1>7, <1>8, <1>9, <1>10, <1>11, <1>12, <1>13
  DEF Next, LoaderNext, WorkerNext

\* Every step of the loader and of the workers preserves the types.
LEMMA TypeInvStep ==
  ASSUME TypeInv, MergeShape, Next
  PROVE  TypeInv'
<1>1. FG \in Threads /\ \A w \in Workers : w \in Threads
  BY DEF Threads
<1>2. ASSUME NEW t \in Threads, Manifest(t) \/ Refill(t) \/ Purge(t)
      PROVE  TypeInv'
  BY <1>2, ManifestWakeTypes, ManifestInstalledTypes, ManifestFailedTypes, RefillAdmitTypes,
     RefillCountTypes, RefillStopTypes, RefillFailTypes, PurgeTypes DEF Manifest, Refill
<1>3. ASSUME NEW w \in Workers, Commit(w)
      PROVE  TypeInv'
  BY <1>3, CommitWaitTypes, TakeBatchTypes, CommitInstalledTypes, LeaderTypes, CommitReturnTypes
  DEF Commit, LeaderBatch, LeaderWake
<1>4. ASSUME NEW w \in Workers, Compact(w)
      PROVE  TypeInv'
  BY <1>1, <1>4, PickTypes, MergeDoneTypes, MergeFailedTypes, PurgeTypes DEF Compact
<1>5. CASE Terminated
  BY <1>5, TypesKept DEF Terminated, vars, TypeInv, TypeOK, threadVars, jobVars
<1>6. CASE LoaderNext
  BY <1>1, <1>2, <1>6, EnqueueTypes, StageTypes, SetOptionsTypes, OptionsLeadTypes,
     DrainRefillTypes, CleanupTypes DEF LoaderNext
<1> QED BY <1>1, <1>2, <1>3, <1>4, <1>5, <1>6 DEF Next, WorkerNext

\* The initial state.
LEMMA TypeInvInit ==
  Init => TypeInv /\ MergeShape
<1> SUFFICES ASSUME Init PROVE TypeInv /\ MergeShape
  OBVIOUS
<1>1. NoJob \in Jobs /\ 0 \in Levels
  BY ConfigAssumption, NoJobType DEF Levels
<1>2. inProgress \in BOOLEAN /\ commitOk \in BOOLEAN /\ bgError \in BOOLEAN /\ paused \in BOOLEAN
  BY Zenon DEF Init
<1>3. ThreadTypes /\ ManifestTypes /\ QueueShape
  BY DEF Init, ThreadTypes, ManifestTypes, QueueShape, Labels
<1>4. VersionTypes /\ WindowTypes /\ CommitTypes
  <2>1. VersionTypes
    BY <1>1 DEF Init, RegistryInit, VersionTypes
  <2>2. feed \in [Threads -> [target : Nat, trickled : BOOLEAN]]
    BY DEF Init
  <2>3. WindowTypes
    BY <2>2 DEF Init, WindowTypes
  <2>4. CommitTypes
    BY <1>2 DEF Init, CommitTypes
  <2> QED BY <2>1, <2>3, <2>4
<1>5. job \in [Workers -> Jobs] /\ JobShape /\ MergeShape
  <2>1. job = [w \in Workers |-> NoJob] /\ pc = [t \in Threads |-> "idle"]
    BY DEF Init
  <2> QED BY <1>1, <2>1 DEF JobShape, MergeShape, Threads
<1>6. JobTypes
  <2>1. nextFile = NumL0 + 1 /\ origin = [f \in Files |-> {f} \cap L0Files]
    BY DEF Init
  <2>2. nextFile \in (NumL0 + 1)..(MaxFile + 1)
    BY <2>1, ConfigAssumption
  <2> QED BY <1>2, <1>5, <2>1, <2>2 DEF JobTypes
<1>7. LoaderTypes /\ failures \in 0..MaxFailures
  BY <1>2, ConfigAssumption DEF Init, LoaderTypes, Stages
<1> QED BY <1>3, <1>4, <1>5, <1>6, <1>7 DEF TypeInv, TypeOK

\* TypeInv and MergeShape hold in every reachable state.
THEOREM TypeInvariant == Spec => [](TypeInv /\ MergeShape)
<1>1. Init => TypeInv /\ MergeShape
  BY TypeInvInit
<1>2. TypeInv /\ MergeShape /\ [Next]_vars => (TypeInv /\ MergeShape)'
  <2>1. CASE Next
    BY <2>1, TypeInvStep, MergeShapeStep
  <2>2. CASE UNCHANGED vars
    BY <2>2, TypesKept DEF vars, TypeInv, TypeOK, MergeShape, threadVars, jobVars
  <2> QED BY <2>1, <2>2
<1> QED BY <1>1, <1>2, PTL DEF Spec

\* Type correctness: whatever the interleaving, L0 holds generated files only,
\* the compactions stay within the levels and the file numbers, and the drain
\* ends after at most NumL0 + 2 rounds.
THEOREM TypeCorrect == Spec => []TypeOK
<1>1. TypeInv /\ MergeShape => TypeOK
  BY DEF TypeInv
<1> QED BY <1>1, TypeInvariant, PTL
=============================================================================
