----------------------------- MODULE EntryProofs -----------------------------
(***************************************************************************)
(* No generated file is lost: the inductive invariant EntryInv of          *)
(* LoadInvariant.                                                          *)
(***************************************************************************)
EXTENDS RegistryProofs

\* Where the entries of a generated file may be.
Kept(f) ==
  \/ \E i \in DOMAIN pending : pending[i] = f
  \/ f \in Uninstalled
  \/ f \in lost
  \/ \E g \in Current : f \in origin[g]

\* NoFileLost in terms of Kept: every generated file is kept somewhere.
LEMMA KeptMeans ==
  ASSUME TypeInv
  PROVE  NoFileLost <=> \A f \in 1..(nextL0 - 1) : Kept(f)
<1>1. DOMAIN pending = 1..Len(pending)
  BY DEF TypeInv, TypeOK, WindowTypes
<1>2. \A f : f \in Front(Len(pending)) <=> \E i \in DOMAIN pending : pending[i] = f
  BY <1>1 DEF Front
<1>3. \A f : f \in UNION {origin[g] : g \in Current} <=> \E g \in Current : f \in origin[g]
  BY Zenon
<1> QED BY <1>2, <1>3 DEF NoFileLost, Kept

\* The same after a step.
LEMMA KeptMeansNext ==
  ASSUME TypeInv'
  PROVE  NoFileLost' <=> \A f \in 1..(nextL0' - 1) : Kept(f)'
<1>1. DOMAIN pending' = 1..Len(pending')
  BY DEF TypeInv, TypeOK, WindowTypes
<1>2. \A f : f \in Front(Len(pending))' <=> \E i \in DOMAIN pending' : pending'[i] = f
  BY <1>1 DEF Front
<1>3. \A f : f \in UNION {origin'[g] : g \in Current'} <=> \E g \in Current' : f \in origin'[g]
  BY Zenon
<1> QED BY <1>2, <1>3 DEF NoFileLost, Kept

\* No compaction appears or is pushed, and no file is numbered.
LEMMA OriginKept ==
  ASSUME OriginShape, UNCHANGED <<origin, nextFile>>,
         \A w \in Workers : \/ job'[w] = job[w] /\ (request'[w] = "queued" => request[w] = "queued")
                            \/ job'[w] = NoJob /\ request'[w] # "queued"
  PROVE  OriginShape'
<1>1. NoJob.inputs = {} /\ NoJob.lower = {}
  BY DEF NoJob
<1>2. \A w \in Workers : \A f \in job'[w].inputs \cup job'[w].lower : f < nextFile
  BY <1>1 DEF OriginShape
<1> QED BY <1>2 DEF OriginShape

\* A step that moves no file and generates none.
LEMMA QuietEntries ==
  ASSUME TypeInv, TypeInv', EntryInv, OriginShape',
         UNCHANGED <<version, pending, batch, lost, origin, nextL0>>,
         \A t \in Threads : batch[t] # {} => (written'[t] = "ok" <=> written[t] = "ok")
  PROVE  EntryInv'
<1>1. Current' = Current
  BY DEF Current
<1>2. \A f : f \in Uninstalled' <=> f \in Uninstalled
  BY FileMembers, FileMembersNext
<1>3. \A f : Kept(f) => Kept(f)'
  BY <1>1, <1>2 DEF Kept
<1>4. NoFileLost'
  BY <1>3, KeptMeans, KeptMeansNext DEF EntryInv
<1> QED BY <1>4 DEF EntryInv

-----------------------------------------------------------------------------
(* The steps that move files.                                              *)

\* The loader generates files.
LEMMA EnqueueEntries ==
  ASSUME TypeInv, TypeInv', EntryInv, NEW k \in EnqueueSizes, Enqueue(k)
  PROVE  EntryInv'
<1>1. UNCHANGED <<version, batch, written, lost, origin, nextFile, job, request>>
  BY DEF Enqueue, manifestVars, versionVars, jobVars
<1>2. OriginShape'
  BY <1>1, OriginKept DEF EntryInv
<1>3. Current' = Current /\ Uninstalled' = Uninstalled
  BY <1>1 DEF Current, Uninstalled
<1>4. DOMAIN pending \subseteq DOMAIN pending'
  BY EnqueueFifo
<1>5. ASSUME NEW f \in 1..(nextL0 - 1) PROVE Kept(f)'
  <2>1. Kept(f)
    BY KeptMeans DEF EntryInv
  <2>2. \A i \in DOMAIN pending : i \in DOMAIN pending' /\ pending'[i] = pending[i]
    BY <1>4, EnqueueFifo
  <2> QED BY <1>1, <1>3, <2>1, <2>2 DEF Kept
<1>6. ASSUME NEW f \in nextL0..(nextL0 + k - 1) PROVE Kept(f)'
  <2>1. /\ k \in Nat /\ nextL0 \in Nat /\ Len(pending) \in Nat
        /\ DOMAIN pending' = 1..(Len(pending) + k)
    BY EnqueueFifo
  <2>2. PICK i \in 1..k : nextL0 + i - 1 = f
    <3>1. f - nextL0 + 1 \in 1..k /\ nextL0 + (f - nextL0 + 1) - 1 = f
      BY <2>1
    <3> QED BY <3>1
  <2>3. Len(pending) + i \in DOMAIN pending'
    BY <2>1
  <2>4. pending'[Len(pending) + i] = f
    BY <2>2, EnqueueFifo
  <2> QED BY <2>3, <2>4 DEF Kept
<1>7. \A f \in 1..(nextL0' - 1) : f \in 1..(nextL0 - 1) \/ f \in nextL0..(nextL0 + k - 1)
  BY EnqueueFifo
<1> QED BY <1>2, <1>5, <1>6, <1>7, KeptMeansNext DEF EntryInv

\* A refill pops a batch.
LEMMA AdmitEntries ==
  ASSUME TypeInv, TypeInv', HandInv, EntryInv, NEW t \in Threads, RefillAdmit(t)
  PROVE  EntryInv'
<1>1. PICK n \in 1..Len(pending) :
        /\ batch' = [batch EXCEPT ![t] = Front(n)]
        /\ pending' = SubSeq(pending, n + 1, Len(pending))
  BY DEF RefillAdmit
<1>2. /\ UNCHANGED <<version, lost, origin, nextL0, nextFile, job, request>>
      /\ written' = [written EXCEPT ![t] = "none"] /\ pc[t] = "refill"
  BY DEF RefillAdmit, LogAndApply, loaderVars, jobVars, commitVars
<1>3. OriginShape'
  BY <1>2, OriginKept DEF EntryInv
<1>4. \A s \in Threads : /\ batch'[s] = IF s = t THEN Front(n) ELSE batch[s]
                         /\ written'[s] = IF s = t THEN "none" ELSE written[s]
  BY <1>1, <1>2 DEF TypeInv, TypeOK, WindowTypes, ManifestTypes
<1>5. /\ pending \in Seq(L0Files) /\ DOMAIN pending = 1..Len(pending) /\ n \in 0..Len(pending)
      /\ Len(pending) \in Nat
  BY DEF TypeInv, TypeOK, WindowTypes
<1>6. /\ DOMAIN pending' = 1..(Len(pending) - n)
      /\ \A i \in 1..(Len(pending) - n) : pending'[i] = pending[i + n]
  BY <1>1, <1>5, SuffixOf
<1>7. batch[t] = {}
  BY <1>2 DEF HandInv, BatchShape
<1>8. \A f : f \in Uninstalled \/ f \in Front(n) => f \in Uninstalled'
  BY <1>4, <1>7, FileMembers, FileMembersNext
<1>9. ASSUME NEW i \in DOMAIN pending, NEW f, pending[i] = f
      PROVE  f \in Uninstalled' \/ \E j \in DOMAIN pending' : pending'[j] = f
  <2>1. CASE i <= n
    BY <1>5, <1>8, <1>9, <2>1 DEF Front
  <2>2. CASE i > n
    <3>1. i - n \in 1..(Len(pending) - n) /\ (i - n) + n = i
      BY <1>5, <2>2
    <3>2. i - n \in DOMAIN pending' /\ pending'[i - n] = f
      BY <1>6, <1>9, <3>1
    <3> QED BY <3>2
  <2> QED BY <1>5, <2>1, <2>2
<1>10. Current' = Current
  BY <1>2 DEF Current
<1>11. \A f : Kept(f) => Kept(f)'
  BY <1>2, <1>8, <1>9, <1>10 DEF Kept
<1> QED BY <1>2, <1>3, <1>11, KeptMeans, KeptMeansNext DEF EntryInv

\* A refill is done with its batch: what it gives up is recorded as lost.
LEMMA BatchDoneEntries ==
  ASSUME TypeInv, TypeInv', EntryInv, NEW t \in Threads, RefillCount(t) \/ RefillFail(t)
  PROVE  EntryInv'
<1>1. /\ UNCHANGED <<version, pending, origin, nextL0, nextFile, job, request, written>>
      /\ batch' = [batch EXCEPT ![t] = {}]
      /\ \/ written[t] = "ok" /\ lost' = lost
         \/ lost' = lost \cup batch[t]
  BY DEF RefillCount, RefillFail, manifestVars, versionVars, commitVars, jobVars, loaderVars
<1>2. OriginShape'
  BY <1>1, OriginKept DEF EntryInv
<1>3. \A s \in Threads : batch'[s] = IF s = t THEN {} ELSE batch[s]
  BY <1>1 DEF TypeInv, TypeOK, WindowTypes
<1>4. \A f : f \in Uninstalled => f \in Uninstalled' \/ f \in lost'
  <2> SUFFICES ASSUME NEW f, f \in Uninstalled PROVE f \in Uninstalled' \/ f \in lost'
    OBVIOUS
  <2>1. PICK s \in Threads : written[s] # "ok" /\ f \in batch[s]
    BY FileMembers
  <2>2. CASE s = t
    BY <1>1, <2>1, <2>2
  <2>3. CASE s # t
    <3>1. written'[s] # "ok" /\ f \in batch'[s]
      BY <1>1, <1>3, <2>1, <2>3
    <3> QED BY <3>1, FileMembersNext
  <2> QED BY <2>2, <2>3
<1>5. Current' = Current
  BY <1>1 DEF Current
<1>6. \A f : Kept(f) => Kept(f)'
  BY <1>1, <1>4, <1>5 DEF Kept
<1> QED BY <1>1, <1>2, <1>6, KeptMeans, KeptMeansNext DEF EntryInv

\* A group is installed: the admitted files hold their own entries, a move keeps
\* its files, and the outputs of a merge hold the entries of its inputs.
LEMMA InstallEntries ==
  ASSUME TypeInv, TypeInv', CommitInv, HandInv, FileInv, EntryInv,
         NEW t \in Threads, ManifestInstalled(t)
  PROVE  EntryInv'
<1>1. UNCHANGED <<pending, lost, origin, nextL0, nextFile, job, request>>
  BY DEF ManifestInstalled, windowVars, jobVars, loaderVars
<1>2. OriginShape'
  BY <1>1, OriginKept DEF EntryInv
<1>3. ASSUME NEW f \in GroupAdmits PROVE Kept(f)'
  <2>1. f \in Current'
    BY InstallMembers
  <2>2. f \in origin[f]
    BY GroupFacts DEF EntryInv, OriginShape
  <2> QED BY <1>1, <2>1, <2>2 DEF Kept
<1>4. ASSUME NEW g \in Current, NEW f \in origin[g] PROVE \E h \in Current' : f \in origin[h]
  <2>1. CASE \A w \in GroupJobs : g \notin Taken(w)
    BY <2>1, InstallMembers
  <2>2. ASSUME NEW w \in GroupJobs, g \in Taken(w) PROVE \E h \in Current' : f \in origin[h]
    <3>1. w \in Workers /\ request[w] = "queued"
      BY EditTypes DEF CommitInv, NoRequestForgotten
    <3>2. CASE job[w].move
      <4>1. g \in Adds(w)
        BY <2>2, <3>2, GroupFacts DEF Taken, Adds
      <4> QED BY <4>1, InstallMembers
    <3>3. CASE ~job[w].move
      <4>1. PICK h \in job[w].outputs : TRUE
        BY <3>1, <3>3 DEF EntryInv, OriginShape
      <4>2. origin[g] \subseteq origin[h]
        BY <2>2, <3>1, <3>3 DEF EntryInv, OriginShape, Taken
      <4>3. h \in Adds(w)
        BY <3>3 DEF Adds
      <4> QED BY <4>2, <4>3, InstallMembers
    <3> QED BY <3>2, <3>3
  <2> QED BY <2>1, <2>2
<1>5. \A f : f \in Uninstalled => f \in Uninstalled' \/ f \in GroupAdmits
  BY InstallMembers
<1>6. \A f : Kept(f) => Kept(f)'
  BY <1>1, <1>3, <1>4, <1>5 DEF Kept
<1> QED BY <1>1, <1>2, <1>6, KeptMeans, KeptMeansNext DEF EntryInv

\* A compaction is picked.
LEMMA PickEntries ==
  ASSUME TypeInv, TypeInv', CommitInv, FileInv, EntryInv, NEW w \in Workers, Pick(w)
  PROVE  EntryInv'
<1>1. /\ UNCHANGED <<version, pending, batch, written, lost, origin, nextL0, nextFile>>
      /\ pc[w] = "idle"
  BY DEF Pick, manifestVars, versionVars, windowVars, loaderVars
<1>2. request[w] = "none"
  BY <1>1 DEF CommitInv, RequestShape
<1>3. CASE UNCHANGED <<job, request>>
  <2>1. OriginShape'
    BY <1>1, <1>3, OriginKept DEF EntryInv
  <2> QED BY <1>1, <2>1, QuietEntries
<1>4. CASE ~UNCHANGED <<job, request>>
  <2>1. PICK j \in Picks : /\ job' = [job EXCEPT ![w] = j]
                           /\ IF j.move THEN request' = [request EXCEPT ![w] = "queued"]
                              ELSE UNCHANGED request
    BY <1>4 DEF Pick, MissingInput, Push
  <2>2. j.inputs \subseteq Idle(j.level) /\ j.lower \subseteq Idle(j.out)
        /\ j.level \in Levels /\ j.out \in Levels
    BY ConfigAssumption DEF Picks, Pickable, Levels
  <2>3. \A f \in j.inputs \cup j.lower : f \in Current
    BY <2>2, FileMembers DEF Idle
  <2>4. \A f \in j.inputs \cup j.lower : f < nextFile
    BY <2>3, FileMembers DEF FileInv, FreshShape
  <2>5. \A v \in Workers : /\ job'[v] = IF v = w THEN j ELSE job[v]
                           /\ v # w => request'[v] = request[v]
    BY <2>1 DEF TypeInv, TypeOK, JobTypes, CommitTypes
  <2>6. j.move \/ request'[w] # "queued"
    BY <1>2, <2>1
  <2>7. \A v \in Workers : \A f \in job'[v].inputs \cup job'[v].lower : f < nextFile
    BY <2>4, <2>5 DEF EntryInv, OriginShape
  <2>8. OriginShape'
    BY <1>1, <2>5, <2>6, <2>7 DEF EntryInv, OriginShape
  <2> QED BY <1>1, <2>8, QuietEntries
<1> QED BY <1>3, <1>4

\* A merge hands the entries of its inputs on to each of its outputs.
LEMMA MergeEntries ==
  ASSUME TypeInv, TypeInv', FileInv, EntryInv, NEW w \in Workers, MergeDone(w)
  PROVE  EntryInv'
<1>1. UNCHANGED <<version, pending, batch, written, lost, nextL0>>
  BY DEF MergeDone, manifestVars, versionVars, windowVars, loaderVars
<1>2. PICK k \in 1..MaxOutputs :
        /\ job' = [job EXCEPT ![w].outputs = nextFile..(nextFile + k - 1)]
        /\ nextFile' = nextFile + k
        /\ origin' = [f \in Files |->
                        IF f \in nextFile..(nextFile + k - 1)
                          THEN UNION {origin[g] : g \in job[w].inputs \cup job[w].lower}
                          ELSE origin[f]]
  BY DEF MergeDone
<1>3. request' = [request EXCEPT ![w] = "queued"]
  BY DEF MergeDone, Push
<1>4. k \in Nat \ {0} /\ nextFile \in Nat /\ NumL0 \in Nat /\ NumL0 < nextFile
  BY ConfigAssumption DEF TypeInv, TypeOK, JobTypes
<1>5. \A v \in Workers :
        /\ job'[v].outputs = IF v = w THEN nextFile..(nextFile + k - 1) ELSE job[v].outputs
        /\ job'[v].inputs = job[v].inputs /\ job'[v].lower = job[v].lower
        /\ job'[v].move = job[v].move
        /\ v # w => request'[v] = request[v]
  BY <1>2, <1>3 DEF TypeInv, TypeOK, JobTypes, Jobs, CommitTypes
<1>6. \A f \in Files : f < nextFile => origin'[f] = origin[f]
  BY <1>2, <1>4 DEF Files
<1>7. \A v \in Workers : \A f \in Taken(v) : f \in Files /\ f < nextFile
  BY EditTypes DEF EntryInv, OriginShape, Taken
<1>8. \A f \in nextFile..(nextFile + k - 1) : \A g \in Taken(w) : origin[g] \subseteq origin'[f]
  <2>1. \A f \in nextFile..(nextFile + k - 1) : f \in Files
    <3>1. job'[w] \in Jobs
      BY DEF TypeInv, TypeOK, JobTypes
    <3>2. job'[w].outputs \subseteq Files
      BY <3>1 DEF Jobs
    <3> QED BY <1>5, <3>2
  <2>2. \A f \in nextFile..(nextFile + k - 1) : origin'[f] = UNION {origin[g] : g \in Taken(w)}
    BY <1>2, <2>1 DEF Taken
  <2>3. \A g \in Taken(w) : origin[g] \subseteq UNION {origin[h] : h \in Taken(w)}
    BY Zenon
  <2> QED BY <2>2, <2>3
<1>9. OriginShape'
  <2>1. \A f \in L0Files : origin'[f] = {f}
    <3>1. \A f \in L0Files : f \in Files /\ f < nextFile
      BY <1>4, ConfigAssumption DEF L0Files, Files
    <3> QED BY <1>6, <3>1 DEF EntryInv, OriginShape
  <2>2. \A v \in Workers : \A f \in Taken(v) : f < nextFile'
    <3>1. \A v \in Workers : \A f \in Taken(v) : f \in Int
      BY <1>7 DEF Files
    <3> QED BY <1>2, <1>4, <1>7, <3>1
  <2>3. ASSUME NEW v \in Workers, request'[v] = "queued", ~job'[v].move
        PROVE  /\ job'[v].outputs # {}
               /\ \A f \in job'[v].outputs, g \in Taken(v) : origin'[g] \subseteq origin'[f]
    <3>1. CASE v = w
      <4>1. nextFile \in job'[w].outputs
        <5>1. job'[w].outputs = nextFile..(nextFile + k - 1)
          BY <1>5
        <5> QED BY <1>4, <5>1
      <4> QED BY <1>5, <1>6, <1>7, <1>8, <3>1, <4>1
    <3>2. CASE v # w
      <4>1. \A f \in job[v].outputs : f \in Files /\ f < nextFile
        <5>1. job[v].outputs \subseteq (NumL0 + 1)..(nextFile - 1)
          BY DEF FileInv, OutputShape
        <5>2. job[v].outputs \subseteq Files
          BY EditTypes
        <5> QED BY <1>4, <5>1, <5>2
      <4>2. /\ job[v].outputs # {}
            /\ \A f \in job[v].outputs, g \in Taken(v) : origin[g] \subseteq origin[f]
        BY <1>5, <2>3, <3>2 DEF EntryInv, OriginShape, Taken
      <4> QED BY <1>5, <1>6, <1>7, <3>2, <4>1, <4>2
    <3> QED BY <3>1, <3>2
  <2> QED BY <1>5, <2>1, <2>2, <2>3 DEF OriginShape, Taken
<1>10. Current' = Current /\ Uninstalled' = Uninstalled
  BY <1>1 DEF Current, Uninstalled
<1>11. \A g \in Current : origin'[g] = origin[g]
  BY <1>6, SeenAreFiles, FileMembers DEF FileInv, FreshShape
<1>12. \A f : Kept(f) => Kept(f)'
  BY <1>1, <1>10, <1>11 DEF Kept
<1> QED BY <1>1, <1>9, <1>12, KeptMeans, KeptMeansNext DEF EntryInv

-----------------------------------------------------------------------------
(* Every step.                                                             *)

\* Every step of a worker keeps the entries of every generated file.
LEMMA ThreadEntries ==
  ASSUME TypeInv, TypeInv', CommitInv, HandInv, FileInv, EntryInv, NEW t \in Threads,
         Manifest(t) \/ Refill(t) \/ (t \in Workers /\ (Commit(t) \/ Compact(t)))
  PROVE  EntryInv'
<1> DEFINE Still == UNCHANGED <<version, pending, batch, lost, origin, nextL0, nextFile>>
<1>1. CASE ManifestInstalled(t) \/ RefillAdmit(t) \/ RefillCount(t) \/ RefillFail(t)
  BY <1>1, InstallEntries, AdmitEntries, BatchDoneEntries
<1>2. CASE t \in Workers /\ (Pick(t) \/ MergeDone(t))
  BY <1>2, PickEntries, MergeEntries
<1>3. CASE \/ ManifestWake(t) \/ RefillStop(t)
           \/ t \in Workers /\ (\/ FollowerWait(t) \/ LeaderDelay(t) \/ CommitInstalled(t)
                                \/ CommitFailed(t) \/ LeaderExit(t)
                                \/ CollectAfterFailure(t) \/ Purge(t))
  <2>1. Still /\ UNCHANGED <<job, request, written>>
    BY <1>3 DEF ManifestWake, RefillStop, FollowerWait, LeaderDelay, CommitInstalled, CommitFailed,
                LeaderExit, CollectAfterFailure, Purge, versionVars, windowVars, commitVars, jobVars,
                loaderVars, manifestVars
  <2>2. OriginShape'
    BY <2>1, OriginKept DEF EntryInv
  <2> QED BY <2>1, <2>2, QuietEntries
<1>4. CASE ManifestFailed(t)
  <2>1. Still /\ UNCHANGED <<job, request>>
    BY <1>4 DEF ManifestFailed, versionVars, windowVars, jobVars, loaderVars
  <2>2. \A s \in Threads : written'[s] = IF s \in Group THEN "failed" ELSE written[s]
    BY <1>4 DEF ManifestFailed, Dequeue
  <2>3. \A s \in Group : written[s] = "none"
    BY GroupWriters
  <2>4. OriginShape'
    BY <2>1, OriginKept DEF EntryInv
  <2> QED BY <2>1, <2>2, <2>3, <2>4, QuietEntries
<1>5. CASE t \in Workers /\ FinishBatch(t)
  <2>1. /\ Still /\ UNCHANGED <<job, written>>
        /\ \A v \in Workers : request'[v] = "queued" => request[v] = "queued"
    BY <1>5 DEF FinishBatch, versionVars, windowVars, jobVars, loaderVars, manifestVars
  <2>2. OriginShape'
    BY <2>1, OriginKept DEF EntryInv
  <2> QED BY <2>1, <2>2, QuietEntries
<1>6. CASE t \in Workers /\ (LeaderBatch(t) \/ LeaderWake(t))
  <2>1. pc[t] \in {"lead", "delay"} /\ TakeBatch(t)
    BY <1>6 DEF LeaderBatch, LeaderWake
  <2>2. /\ Still /\ UNCHANGED job
        /\ written' = written \/ written' = [written EXCEPT ![t] = "none"]
        /\ \A v \in Workers : request'[v] = "queued" => request[v] = "queued"
    BY <2>1 DEF TakeBatch, LogAndApply, versionVars, jobVars, manifestVars
  <2>3. batch[t] = {}
    BY <2>1 DEF HandInv, BatchShape
  <2>4. \A s \in Threads : batch[s] # {} => written'[s] = written[s]
    BY <2>2, <2>3 DEF TypeInv, TypeOK, ManifestTypes
  <2>5. OriginShape'
    BY <2>2, OriginKept DEF EntryInv
  <2> QED BY <2>2, <2>4, <2>5, QuietEntries
<1>7. CASE t \in Workers /\ (CommitReturn(t) \/ MergeFailed(t))
  <2>1. /\ Still /\ UNCHANGED written
        /\ job' = [job EXCEPT ![t] = NoJob] /\ request' = [request EXCEPT ![t] = "none"]
    BY <1>7 DEF CommitReturn, MergeFailed, CompactionReturn, versionVars, windowVars, loaderVars,
                manifestVars
  <2>2. \A v \in Workers : \/ job'[v] = job[v] /\ request'[v] = request[v]
                           \/ job'[v] = NoJob /\ request'[v] # "queued"
    BY <2>1 DEF TypeInv, TypeOK, JobTypes, CommitTypes
  <2>3. OriginShape'
    BY <2>1, <2>2, OriginKept DEF EntryInv
  <2> QED BY <2>1, <2>3, QuietEntries
<1> QED BY <1>1, <1>2, <1>3, <1>4, <1>5, <1>6, <1>7 DEF Manifest, Refill, Commit, Compact

\* So does every step of the loader.
LEMMA LoaderEntries ==
  ASSUME TypeInv, TypeInv', CommitInv, HandInv, FileInv, EntryInv, LoaderNext
  PROVE  EntryInv'
<1>1. FG \in Threads
  BY DEF Threads
<1>2. CASE Manifest(FG) \/ Refill(FG)
  BY <1>1, <1>2, ThreadEntries
<1>3. CASE \E k \in EnqueueSizes : Enqueue(k)
  BY <1>3, EnqueueEntries
<1>4. CASE \/ LoadWait \/ SetOptions \/ OptionsLead \/ DrainRefill \/ DrainWait
           \/ Pause \/ Cleanup \/ Snapshot \/ Purge(FG)
  <2>1. UNCHANGED <<version, pending, batch, lost, origin, nextL0, nextFile, job, request>>
    BY <1>4 DEF LoadWait, SetOptions, OptionsLead, SetTrigger, DrainRefill, DrainWait, Pause, Cleanup,
                Snapshot, Purge, versionVars, windowVars, commitVars, jobVars, loaderVars
  <2>2. \/ written' = written
        \/ (\E st : written' = [written EXCEPT ![FG] = st])
           /\ (pc[FG] = "idle" \/ purpose[FG] = "options")
    BY <1>4 DEF LoadWait, SetOptions, OptionsLead, DrainRefill, DrainWait, Pause, Cleanup, Snapshot,
                Purge, manifestVars, At
  <2>3. written' = written \/ batch[FG] = {}
    BY <1>1, <2>2 DEF HandInv, BatchShape
  <2>4. \A s \in Threads : batch[s] # {} => written'[s] = written[s]
    BY <1>1, <2>2, <2>3 DEF TypeInv, TypeOK, ManifestTypes
  <2>5. OriginShape'
    BY <2>1, OriginKept DEF EntryInv
  <2> QED BY <2>1, <2>4, <2>5, QuietEntries
<1> QED BY <1>2, <1>3, <1>4 DEF LoaderNext

\* The inductive invariant about entries.
THEOREM EntryInvariant == Spec => []EntryInv
<1>1. Init => EntryInv
  <2>1. SUFFICES ASSUME Init PROVE EntryInv
    OBVIOUS
  <2>2. /\ \A w \in Workers : job[w] = NoJob /\ request[w] = "none"
        /\ origin = [f \in Files |-> {f} \cap L0Files] /\ nextL0 = 1
    BY <2>1 DEF Init
  <2>3. NoJob.inputs = {} /\ NoJob.lower = {}
    BY DEF NoJob
  <2>4. \A f \in L0Files : origin[f] = {f}
    BY <2>2, ConfigAssumption DEF L0Files, Files
  <2>5. \A w \in Workers : \A f \in job[w].inputs \cup job[w].lower : f < nextFile
    BY <2>2, <2>3
  <2>6. OriginShape
    BY <2>2, <2>4, <2>5 DEF OriginShape
  <2>7. 1..(nextL0 - 1) = {}
    BY <2>2
  <2> QED BY <2>6, <2>7 DEF EntryInv, NoFileLost
<1>2. TypeInv /\ TypeInv' /\ CommitInv /\ HandInv /\ FileInv /\ EntryInv /\ [Next]_vars => EntryInv'
  <2>1. ASSUME TypeInv, TypeInv', EntryInv, UNCHANGED vars PROVE EntryInv'
    <3>1. UNCHANGED <<version, pending, batch, lost, origin, nextL0, nextFile, job, request, written>>
      BY <2>1 DEF vars, manifestVars, versionVars, windowVars, commitVars, jobVars, loaderVars
    <3>2. OriginShape'
      BY <2>1, <3>1, OriginKept DEF EntryInv
    <3> QED BY <2>1, <3>1, <3>2, QuietEntries
  <2>2. ASSUME TypeInv, TypeInv', CommitInv, HandInv, FileInv, EntryInv, Next PROVE EntryInv'
    <3>1. ASSUME NEW w \in Workers, WorkerNext(w) PROVE EntryInv'
      BY <2>2, <3>1, ThreadEntries DEF WorkerNext, Threads
    <3> QED BY <2>1, <2>2, <3>1, LoaderEntries DEF Next, Terminated
  <2> QED BY <2>1, <2>2
<1> QED BY <1>1, <1>2, TypeInvariant, CommitInvariant, FileInvariant, PTL DEF Spec

\* Nothing is lost: the entries of every generated file are in the FIFO, in a
\* refill's hands, in a file of the current Version, or in a batch whose MANIFEST
\* write failed, for every number of workers, files and levels, whatever merges,
\* moves, refills and failures interleave.
THEOREM NothingLost == Spec => []NoFileLost
<1>1. EntryInv => NoFileLost
  BY DEF EntryInv
<1> QED BY <1>1, EntryInvariant, PTL
=============================================================================
