----------------------------- MODULE TypesCommit -----------------------------
(***************************************************************************)
(* Type correctness of the load, second part: the steps of VirtualL0Window *)
(* and of CommitQueue.                                                     *)
(***************************************************************************)
EXTENDS TypesManifest

-----------------------------------------------------------------------------
(* The window.                                                             *)

\* A refill that returns goes back to its caller.
LEMMA RefillReturnTypes ==
  ASSUME TypeInv, NEW t \in Threads, NEW ok \in BOOLEAN,
         pc[t] # "manifestIO", pc[t] # "manifestWait",
         RefillReturn(t, ok), UNCHANGED <<asleep, manifestVars>>
  PROVE  /\ ThreadTypes' /\ ManifestTypes' /\ QueueShape'
         /\ commitOk' \in BOOLEAN /\ stage' \in Stages
<1>1. /\ Goto(t, IF t = FG THEN "idle" ELSE "finishBatch")
      /\ mutex' = (IF t = FG THEN None ELSE t)
  BY DEF RefillReturn
<1>2. ThreadTypes'
  BY <1>1 DEF TypeInv, TypeOK, ThreadTypes, Goto, Labels
<1>3. QueueShape'
  BY <1>1, QueueKept DEF TypeInv, TypeOK, Labels
<1>4. ManifestTypes'
  BY TypesKept DEF TypeInv, TypeOK
<1>5. commitOk' \in BOOLEAN /\ stage' \in Stages
  BY DEF RefillReturn, TypeInv, TypeOK, CommitTypes, LoaderTypes, Stages
<1> QED BY <1>2, <1>3, <1>4, <1>5

\* A refill that starts reads its target, a size.
LEMMA RefillEnterTypes ==
  ASSUME TypeInv, NEW t \in Threads, NEW q \in Seq(L0Files),
         pc[t] # "manifestIO", pc[t] # "manifestWait",
         RefillEnter(t, q), UNCHANGED <<asleep, manifestVars>>
  PROVE  /\ ThreadTypes' /\ ManifestTypes' /\ QueueShape'
         /\ commitOk' \in BOOLEAN /\ stage' \in Stages
         /\ feed' \in [Threads -> [target : Nat, trickled : BOOLEAN]]
<1>1. CASE q = <<>>
  <2>1. RefillReturn(t, TRUE) /\ feed' = feed
    BY <1>1 DEF RefillEnter
  <2> QED BY <2>1, RefillReturnTypes DEF TypeInv, TypeOK, WindowTypes
<1>2. CASE q # <<>>
  <2>1. /\ Goto(t, "refill") /\ mutex' = t /\ commitOk' = commitOk /\ stage' = stage
        /\ feed' = [feed EXCEPT ![t] =
                      [target |-> IF TargetBytes > 0 THEN TargetBytes ELSE Bytes[{Head(q)}],
                       trickled |-> FALSE]]
    BY <1>2 DEF RefillEnter
  <2>2. ThreadTypes' /\ ManifestTypes' /\ commitOk' \in BOOLEAN /\ stage' \in Stages
    BY <2>1, TypesKept DEF TypeInv, TypeOK, ThreadTypes, Goto, Labels, CommitTypes, LoaderTypes
  <2>3. QueueShape'
    BY <2>1, QueueKept DEF TypeInv, TypeOK, Labels
  <2>4. Head(q) \in L0Files
    BY <1>2
  <2>5. Bytes[{Head(q)}] \in Nat /\ TargetBytes \in Nat
    BY <2>4, BytesAssumption, ConfigAssumption
  <2>6. feed' \in [Threads -> [target : Nat, trickled : BOOLEAN]]
    BY <2>1, <2>5 DEF TypeInv, TypeOK, WindowTypes
  <2> QED BY <2>2, <2>3, <2>6
<1> QED BY <1>1, <1>2

\* A refill admits generated files.
LEMMA RefillAdmitTypes ==
  ASSUME TypeInv, NEW t \in Threads, RefillAdmit(t)
  PROVE  TypeInv'
<1>1. CommitTypes' /\ JobTypes' /\ LoaderTypes' /\ JobShape' /\ failures' \in 0..MaxFailures
  BY TypesKept DEF TypeInv, TypeOK, RefillAdmit, jobVars
<1>2. ThreadTypes' /\ ManifestTypes' /\ QueueShape'
  BY LogAndApplyQueue DEF TypeInv, TypeOK, RefillAdmit
<1>3. PICK p \in {"kFree", "kSlowdown", "kStop"}, n \in 1..Len(pending) :
        /\ feed' = [feed EXCEPT ![t].trickled = (p = "kSlowdown")]
        /\ batch' = [batch EXCEPT ![t] = Front(n)]
        /\ pending' = SubSeq(pending, n + 1, Len(pending))
        /\ Register(Front(n))
  BY DEF RefillAdmit, Pressure
<1>4. Front(n) \subseteq L0Files
  BY DEF TypeInv, TypeOK, WindowTypes, Front
<1>5. pending' \in Seq(L0Files)
  BY <1>3, SuffixOf DEF TypeInv, TypeOK, WindowTypes
<1>6. feed' \in [Threads -> [target : Nat, trickled : BOOLEAN]]
  BY <1>3 DEF TypeInv, TypeOK, WindowTypes
<1>7. WindowTypes'
  BY <1>3, <1>4, <1>5, <1>6 DEF TypeInv, TypeOK, WindowTypes, RefillAdmit
<1>8. VersionTypes'
  BY <1>3, <1>4, EditTypes DEF TypeInv, TypeOK, VersionTypes, RefillAdmit, Register
<1> QED BY <1>1, <1>2, <1>7, <1>8 DEF TypeInv, TypeOK

\* Counting a batch adds a size to a size.
LEMMA RefillCountTypes ==
  ASSUME TypeInv, NEW t \in Threads, RefillCount(t)
  PROVE  TypeInv'
<1>1. /\ ManifestTypes' /\ VersionTypes' /\ CommitTypes' /\ JobTypes' /\ LoaderTypes'
      /\ JobShape' /\ failures' \in 0..MaxFailures
  BY TypesKept DEF TypeInv, TypeOK, RefillCount, jobVars
<1>2. Bytes[batch[t]] \in Nat
  BY BytesAssumption DEF TypeInv, TypeOK, WindowTypes
<1>3. WindowTypes'
  BY <1>2 DEF TypeInv, TypeOK, WindowTypes, RefillCount
<1>4. ThreadTypes'
  BY DEF TypeInv, TypeOK, ThreadTypes, RefillCount, Goto, Labels
<1>5. QueueShape'
  BY QueueKept DEF TypeInv, TypeOK, RefillCount, Labels
<1> QED BY <1>1, <1>3, <1>4, <1>5 DEF TypeInv, TypeOK

\* A refill that stops changes nothing but its caller's state.
LEMMA RefillStopTypes ==
  ASSUME TypeInv, NEW t \in Threads, RefillStop(t)
  PROVE  TypeInv'
<1>1. VersionTypes' /\ WindowTypes' /\ JobTypes' /\ JobShape' /\ failures' \in 0..MaxFailures
  BY TypesKept DEF TypeInv, TypeOK, RefillStop, jobVars
<1>2. /\ ThreadTypes' /\ ManifestTypes' /\ QueueShape'
      /\ commitOk' \in BOOLEAN /\ stage' \in Stages
  BY RefillReturnTypes DEF RefillStop
<1>3. CommitTypes' /\ LoaderTypes'
  BY <1>2 DEF TypeInv, TypeOK, CommitTypes, LoaderTypes, RefillStop
<1> QED BY <1>1, <1>2, <1>3 DEF TypeInv, TypeOK

\* A refill whose edit failed drops the batch.
LEMMA RefillFailTypes ==
  ASSUME TypeInv, NEW t \in Threads, RefillFail(t)
  PROVE  TypeInv'
<1>1. JobTypes' /\ JobShape' /\ failures' \in 0..MaxFailures
  BY TypesKept DEF TypeInv, TypeOK, RefillFail, jobVars
<1>2. /\ ThreadTypes' /\ ManifestTypes' /\ QueueShape'
      /\ commitOk' \in BOOLEAN /\ stage' \in Stages
  BY RefillReturnTypes DEF RefillFail
<1>3. CommitTypes' /\ LoaderTypes'
  BY <1>2 DEF TypeInv, TypeOK, CommitTypes, LoaderTypes, RefillFail
<1>4. WindowTypes'
  BY DEF TypeInv, TypeOK, WindowTypes, RefillFail
<1>5. VersionTypes'
  BY EditTypes DEF TypeInv, TypeOK, VersionTypes, RefillFail, Remove
<1> QED BY <1>1, <1>2, <1>3, <1>4, <1>5 DEF TypeInv, TypeOK

-----------------------------------------------------------------------------
(* The commit queue.                                                       *)

\* A request is pushed by a worker that is not in LogAndApply.
LEMMA PushTypes ==
  ASSUME TypeInv, NEW w \in Workers, Push(w), UNCHANGED manifestVars,
         pc[w] # "manifestIO", pc[w] # "manifestWait"
  PROVE  /\ ThreadTypes' /\ ManifestTypes' /\ QueueShape'
         /\ request' \in [Workers -> {"none", "queued", "ok", "failed"}]
         /\ commitQ' \in Seq(Workers) /\ inProgress' \in BOOLEAN
<1>1. w \in Threads
  BY DEF Threads
<1>2. /\ Goto(w, IF inProgress THEN "follow" ELSE "lead")
      /\ mutex' \in {None, w} /\ asleep' \subseteq asleep \cup {w}
  BY DEF Push
<1>3. ThreadTypes'
  BY <1>1, <1>2 DEF TypeInv, TypeOK, ThreadTypes, Goto, Labels
<1>4. QueueShape'
  BY <1>1, <1>2, QueueKept DEF TypeInv, TypeOK, Labels
<1>5. ManifestTypes'
  BY TypesKept DEF TypeInv, TypeOK
<1>6. /\ request' \in [Workers -> {"none", "queued", "ok", "failed"}]
      /\ commitQ' \in Seq(Workers) /\ inProgress' \in BOOLEAN
  BY DEF Push, TypeInv, TypeOK, CommitTypes
<1> QED BY <1>3, <1>4, <1>5, <1>6

\* Waiting again, and the delay, move one thread.
LEMMA CommitWaitTypes ==
  ASSUME TypeInv, NEW w \in Workers, FollowerWait(w) \/ LeaderDelay(w)
  PROVE  TypeInv'
<1>1. /\ ManifestTypes' /\ VersionTypes' /\ WindowTypes' /\ CommitTypes' /\ JobTypes'
      /\ LoaderTypes' /\ JobShape' /\ failures' \in 0..MaxFailures
  BY TypesKept DEF TypeInv, TypeOK, FollowerWait, LeaderDelay, jobVars
<1>2. ThreadTypes'
  BY DEF TypeInv, TypeOK, ThreadTypes, FollowerWait, LeaderDelay, Goto, Labels, Threads
<1>3. QueueShape'
  <2>1. CASE FollowerWait(w)
    BY <2>1, TypesKept DEF TypeInv, FollowerWait
  <2>2. CASE LeaderDelay(w)
    BY <2>2, QueueKept DEF TypeInv, TypeOK, LeaderDelay, Labels, Threads
  <2> QED BY <2>1, <2>2
<1> QED BY <1>1, <1>2, <1>3 DEF TypeInv, TypeOK

\* The leader takes a prefix of the queue.
LEMMA TakeBatchTypes ==
  ASSUME TypeInv, NEW w \in Workers, pc[w] \in {"lead", "delay"}, TakeBatch(w)
  PROVE  TypeInv'
<1> DEFINE n == IF Len(commitQ) < MaxCommitBatch THEN Len(commitQ) ELSE MaxCommitBatch
           taken == {commitQ[i] : i \in 1..n}
           commit == {v \in taken : InputsCurrent(v)}
<1>1. /\ VersionTypes' /\ JobTypes' /\ JobShape' /\ failures' \in 0..MaxFailures
  BY TypesKept DEF TypeInv, TypeOK, TakeBatch, jobVars
<1>2. commitQ \in Seq(Workers) /\ Len(commitQ) \in Nat /\ n \in 0..Len(commitQ)
  BY ConfigAssumption DEF TypeInv, TypeOK, CommitTypes
<1>3. taken \subseteq Workers
  BY <1>2
<1>4. commitQ' \in Seq(Workers)
  BY <1>2, SuffixOf DEF TakeBatch
<1>5. commitBatch' \subseteq Workers /\ released' \subseteq Workers /\ inProgress' = inProgress
  BY <1>3 DEF TakeBatch, TypeInv, TypeOK, CommitTypes
<1>6. request' \in [Workers -> {"none", "queued", "ok", "failed"}]
  BY DEF TakeBatch, TypeInv, TypeOK, CommitTypes
<1>7. w \in Threads
  BY DEF Threads
<1>8. /\ ThreadTypes' /\ ManifestTypes' /\ QueueShape'
      /\ commitOk' \in BOOLEAN /\ stage' \in Stages
      /\ feed' \in [Threads -> [target : Nat, trickled : BOOLEAN]]
  <2>1. CASE commit = {}
    <3>1. RefillEnter(w, pending) /\ UNCHANGED <<asleep, manifestVars>>
      BY <2>1 DEF TakeBatch
    <3> QED BY <1>7, <3>1, RefillEnterTypes DEF TypeInv, TypeOK, WindowTypes
  <2>2. CASE commit # {}
    <3>1. LogAndApply(w, "commit") /\ UNCHANGED <<feed, commitOk, stage>>
      BY <2>2 DEF TakeBatch
    <3>2. ThreadTypes' /\ ManifestTypes' /\ QueueShape'
      BY <1>7, <3>1, LogAndApplyQueue DEF TypeInv, TypeOK
    <3> QED BY <3>1, <3>2 DEF TypeInv, TypeOK, WindowTypes, CommitTypes, LoaderTypes
  <2> QED BY <2>1, <2>2
<1>9. UNCHANGED <<pending, visible, batch, lost, nextL0, trigger, drainRound, paused>>
  BY DEF TakeBatch
<1>10. WindowTypes' /\ LoaderTypes'
  BY <1>8, <1>9 DEF TypeInv, TypeOK, WindowTypes, LoaderTypes
<1>11. CommitTypes'
  BY <1>4, <1>5, <1>6, <1>8 DEF TypeInv, TypeOK, CommitTypes
<1> QED BY <1>1, <1>8, <1>10, <1>11 DEF TypeInv, TypeOK

\* After a commit the window shrinks by a size, and not below zero.
LEMMA CommitInstalledTypes ==
  ASSUME TypeInv, NEW w \in Workers, CommitInstalled(w)
  PROVE  TypeInv'
<1>1. VersionTypes' /\ JobTypes' /\ JobShape' /\ failures' \in 0..MaxFailures
  BY TypesKept DEF TypeInv, TypeOK, CommitInstalled, jobVars
<1>2. w \in Threads
  BY DEF Threads
<1>3. /\ ThreadTypes' /\ ManifestTypes' /\ QueueShape'
      /\ commitOk' \in BOOLEAN /\ stage' \in Stages
      /\ feed' \in [Threads -> [target : Nat, trickled : BOOLEAN]]
  BY <1>2, RefillEnterTypes DEF CommitInstalled, TypeInv, TypeOK, WindowTypes
<1>4. L0InputsOf(commitBatch) \subseteq L0Files
  BY EditTypes DEF L0InputsOf, TypeInv, TypeOK, CommitTypes
<1>5. Bytes[L0InputsOf(commitBatch)] \in Nat
  BY <1>4, BytesAssumption
<1>6. visible' \in Nat
  <2>1. visible \in Nat
    BY DEF TypeInv, TypeOK, WindowTypes
  <2>2. \/ visible' = 0
        \/ ~(Bytes[L0InputsOf(commitBatch)] > visible)
           /\ visible' = visible - Bytes[L0InputsOf(commitBatch)]
    BY DEF CommitInstalled, Account
  <2> QED BY <1>5, <2>1, <2>2
<1>7. UNCHANGED <<pending, batch, lost, released, request, commitQ, inProgress, commitBatch,
                  nextL0, trigger, drainRound, paused>>
  BY DEF CommitInstalled
<1>8. WindowTypes' /\ CommitTypes' /\ LoaderTypes'
  BY <1>3, <1>6, <1>7 DEF TypeInv, TypeOK, WindowTypes, CommitTypes, LoaderTypes
<1> QED BY <1>1, <1>3, <1>8 DEF TypeInv, TypeOK

\* The other steps of the leader move it and answer requests.
LEMMA LeaderTypes ==
  ASSUME TypeInv, NEW w \in Workers, CommitFailed(w) \/ FinishBatch(w) \/ LeaderExit(w)
  PROVE  TypeInv'
<1>1. /\ VersionTypes' /\ WindowTypes' /\ JobTypes' /\ LoaderTypes' /\ ManifestTypes'
      /\ JobShape' /\ failures' \in 0..MaxFailures
  BY TypesKept DEF TypeInv, TypeOK, CommitFailed, FinishBatch, LeaderExit, jobVars
<1>2. w \in Threads
  BY DEF Threads
<1>3. PICK label \in {"finishBatch", "lead", "commitDone"} : Goto(w, label)
  BY DEF CommitFailed, FinishBatch, LeaderExit
<1>4. /\ mutex' = mutex /\ asleep' \subseteq asleep /\ UNCHANGED manifestVars
      /\ pc[w] # "manifestIO" /\ pc[w] # "manifestWait"
  BY DEF CommitFailed, FinishBatch, LeaderExit
<1>5. ThreadTypes'
  BY <1>2, <1>3, <1>4 DEF TypeInv, TypeOK, ThreadTypes, Goto, Labels
<1>6. QueueShape'
  BY <1>2, <1>3, <1>4, QueueKept DEF TypeInv, TypeOK, Labels
<1>7. CommitTypes'
  BY DEF TypeInv, TypeOK, CommitTypes, CommitFailed, FinishBatch, LeaderExit
<1> QED BY <1>1, <1>5, <1>6, <1>7 DEF TypeInv, TypeOK

\* Having no compaction is a value of job.
LEMMA NoJobType == NoJob \in Jobs
BY ConfigAssumption DEF NoJob, Jobs, Levels

\* The step puts w between compactions, and moves no other thread but workers
\* that start too late and back off.
Rests(w) ==
  /\ pc' \in [Threads -> Labels] /\ pc'[w] \in {"idle", "backoff"}
  /\ \A t \in Threads : t # w =>
       pc'[t] = pc[t] \/ (t \in Workers /\ pc[t] = "idle" /\ pc'[t] = "backoff")

\* So does a step that stops background work.
LEMMA StopRests ==
  ASSUME TypeInv, NEW w \in Workers, StopWork(w)
  PROVE  Rests(w)
<1>1. PICK late \in SUBSET {v \in Workers : pc[v] = "idle"} :
        pc' = [t \in Threads |-> IF t \in late \cup {w} THEN "backoff" ELSE pc[t]]
  BY DEF StopWork
<1>2. pc \in [Threads -> Labels] /\ w \in Threads
  BY DEF TypeInv, TypeOK, ThreadTypes, Threads
<1>3. pc' \in [Threads -> Labels]
  BY <1>1, <1>2 DEF Labels
<1> QED BY <1>1, <1>2, <1>3 DEF Rests

\* And the end of a compaction.
LEMMA ReturnRests ==
  ASSUME TypeInv, NEW w \in Workers, NEW ok \in BOOLEAN, CompactionReturn(w, ok)
  PROVE  Rests(w)
<1>1. CASE ok
  <2>1. Goto(w, "idle")
    BY <1>1 DEF CompactionReturn
  <2> QED BY <2>1 DEF Rests, Goto, TypeInv, TypeOK, ThreadTypes, Threads, Labels
<1>2. CASE ~ok
  BY <1>2, StopRests DEF CompactionReturn
<1> QED BY <1>1, <1>2

\* None of these threads is in manifest_writers_.
LEMMA RestsQueue ==
  ASSUME TypeInv, NEW w \in Workers, Rests(w), UNCHANGED manifestVars,
         pc[w] # "manifestIO", pc[w] # "manifestWait"
  PROVE  QueueShape'
<1>1. \A i \in DOMAIN manifestQ :
        manifestQ[i] \in Threads /\ pc[manifestQ[i]] \in {"manifestIO", "manifestWait"}
  BY DEF TypeInv, TypeOK, ManifestTypes, QueueShape
<1>2. \A t \in Threads : pc[t] \in {"manifestIO", "manifestWait"} => pc'[t] = pc[t]
  BY DEF Rests
<1>3. \A t \in Threads : pc'[t] \in {"manifestIO", "manifestWait"} => pc'[t] = pc[t]
  BY DEF Rests
<1> QED BY <1>1, <1>2, <1>3 DEF TypeInv, QueueShape, manifestVars

\* A worker whose compaction is over has none.
LEMMA CompactionReturnTypes ==
  ASSUME TypeInv, NEW w \in Workers, NEW ok \in BOOLEAN, CompactionReturn(w, ok),
         pc[w] # "manifestIO", pc[w] # "manifestWait",
         UNCHANGED <<asleep, manifestVars, versionVars, windowVars, commitQ, inProgress,
                     commitBatch, commitOk, nextFile, origin, loaderVars>>
  PROVE  /\ ThreadTypes' /\ ManifestTypes' /\ VersionTypes' /\ WindowTypes' /\ CommitTypes'
         /\ JobTypes' /\ LoaderTypes' /\ JobShape' /\ QueueShape'
<1>1. ManifestTypes' /\ VersionTypes' /\ WindowTypes' /\ LoaderTypes'
  BY TypesKept DEF TypeInv, TypeOK
<1>2. Rests(w)
  BY ReturnRests
<1>3. mutex' = None
  BY DEF CompactionReturn
<1>4. ThreadTypes'
  BY <1>2, <1>3 DEF TypeInv, TypeOK, ThreadTypes, Rests
<1>5. QueueShape'
  BY <1>2, RestsQueue
<1>6. CommitTypes'
  BY DEF TypeInv, TypeOK, CommitTypes, CompactionReturn
<1>7. NoJob \in Jobs
  BY NoJobType
<1>8. JobTypes' /\ JobShape'
  BY <1>7 DEF TypeInv, TypeOK, JobTypes, JobShape, CompactionReturn
<1> QED BY <1>1, <1>4, <1>5, <1>6, <1>8

\* CommitVirtualCompactionEdit returns.
LEMMA CommitReturnTypes ==
  ASSUME TypeInv, NEW w \in Workers, CommitReturn(w)
  PROVE  TypeInv'
<1>1. (request[w] = "ok") \in BOOLEAN /\ pc[w] # "manifestIO" /\ pc[w] # "manifestWait"
  BY DEF CommitReturn
<1>2. CompactionReturn(w, request[w] = "ok") /\ failures' = failures
  BY DEF CommitReturn
<1> QED BY <1>1, <1>2, CompactionReturnTypes DEF CommitReturn, TypeInv, TypeOK
=============================================================================
