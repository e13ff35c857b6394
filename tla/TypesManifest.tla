---------------------------- MODULE TypesManifest ----------------------------
(***************************************************************************)
(* Type correctness of the load, first part: the writers' queue of         *)
(* VersionSet::LogAndApply and the steps of ManifestLog.                   *)
(***************************************************************************)
EXTENDS LoadInvariant, FiniteSetTheorems, SequenceTheorems, TLAPS

\* What SubSeq leaves of a queue whose first n elements are taken off.
LEMMA SuffixOf ==
  ASSUME NEW S, NEW q \in Seq(S), NEW n \in 0..Len(q)
  PROVE  /\ SubSeq(q, n + 1, Len(q)) \in Seq(S)
         /\ Len(SubSeq(q, n + 1, Len(q))) = Len(q) - n
         /\ DOMAIN SubSeq(q, n + 1, Len(q)) = 1..(Len(q) - n)
         /\ \A i \in 1..(Len(q) - n) : SubSeq(q, n + 1, Len(q))[i] = q[i + n]
<1>1. Len(q) \in Nat /\ n \in Nat /\ n <= Len(q) /\ \A i \in 1..Len(q) : q[i] \in S
  OBVIOUS
<1>2. n + 1 \in Int /\ Len(q) \in Int /\ \A i \in (n + 1)..Len(q) : q[i] \in S
  BY <1>1
<1>3. SubSeq(q, n + 1, Len(q)) \in Seq(S)
  BY <1>2, SubSeqProperties
<1>4. Len(SubSeq(q, n + 1, Len(q))) = IF n + 1 <= Len(q) THEN Len(q) - (n + 1) + 1 ELSE 0
  BY <1>2, SubSeqProperties
<1>5. Len(SubSeq(q, n + 1, Len(q))) = Len(q) - n
  BY <1>1, <1>4
<1>6. ASSUME NEW i \in 1..(Len(q) - n)
      PROVE  SubSeq(q, n + 1, Len(q))[i] = q[i + n]
  <2>1. i \in 1..(Len(q) - (n + 1) + 1) /\ (n + 1) + i - 1 = i + n
    BY <1>1
  <2>2. SubSeq(q, n + 1, Len(q))[i] = q[(n + 1) + i - 1]
    BY <1>2, <2>1, SubSeqProperties
  <2> QED BY <2>1, <2>2
<1> QED BY <1>3, <1>5, <1>6

\* A function on 1..n is a sequence.
LEMMA FunctionIsSeq ==
  ASSUME NEW S, NEW n \in Nat, NEW s \in [1..n -> S]
  PROVE  s \in Seq(S)
OBVIOUS

-----------------------------------------------------------------------------
(* The writers' queue.                                                     *)

\* A thread that is not in LogAndApply may go anywhere but into it, and the
\* writers' queue stays as it was.
LEMMA QueueKept ==
  ASSUME ThreadTypes, ManifestTypes, QueueShape,
         NEW t \in Threads, NEW label \in Labels,
         label # "manifestIO", label # "manifestWait",
         pc[t] # "manifestIO", pc[t] = "manifestWait" => written[t] # "none",
         Goto(t, label), UNCHANGED manifestVars
  PROVE  QueueShape'
<1>1. \A s \in Threads : pc'[s] = IF s = t THEN label ELSE pc[s]
  BY DEF Goto, ThreadTypes
<1>2. \A i \in DOMAIN manifestQ : manifestQ[i] \in Threads /\ manifestQ[i] # t
  BY DEF ManifestTypes, QueueShape
<1> QED
  BY <1>1, <1>2 DEF QueueShape, manifestVars

\* A thread that is not in the queue joins it at the back, and leads if it is
\* alone.
LEMMA AppendWriter ==
  ASSUME ThreadTypes, ManifestTypes, QueueShape,
         NEW t \in Threads, NEW why \in {"refill", "commit", "options"},
         pc[t] # "manifestIO", pc[t] # "manifestWait",
         purpose' = [purpose EXCEPT ![t] = why],
         written' = [written EXCEPT ![t] = "none"],
         manifestQ' = Append(manifestQ, t),
         ioLen' = IF manifestQ = <<>> THEN 1 ELSE ioLen,
         Goto(t, IF manifestQ = <<>> THEN "manifestIO" ELSE "manifestWait")
  PROVE  ManifestTypes' /\ QueueShape'
<1>1. /\ manifestQ' \in Seq(Threads) /\ Len(manifestQ') = Len(manifestQ) + 1
      /\ Len(manifestQ) \in Nat /\ (manifestQ = <<>> <=> Len(manifestQ) = 0)
      /\ DOMAIN manifestQ = 1..Len(manifestQ) /\ DOMAIN manifestQ' = 1..(Len(manifestQ) + 1)
  BY DEF ManifestTypes
<1>2. ManifestTypes'
  BY <1>1 DEF ManifestTypes
<1>3. \A i \in DOMAIN manifestQ' :
        manifestQ'[i] = IF i = Len(manifestQ) + 1 THEN t ELSE manifestQ[i]
  BY <1>1 DEF ManifestTypes
<1>4. \A i \in DOMAIN manifestQ : manifestQ[i] \in Threads /\ manifestQ[i] # t
  BY DEF ManifestTypes, QueueShape
<1>5. \A s \in Threads : pc'[s] = IF s # t THEN pc[s]
                                  ELSE IF manifestQ = <<>> THEN "manifestIO" ELSE "manifestWait"
  BY DEF ThreadTypes, Goto
<1>6. \A s \in Threads : written'[s] = IF s = t THEN "none" ELSE written[s]
  BY DEF ManifestTypes
<1>7. ASSUME NEW i \in DOMAIN manifestQ'
      PROVE  /\ written'[manifestQ'[i]] = "none"
             /\ pc'[manifestQ'[i]] = IF i = 1 /\ ioLen' > 0 THEN "manifestIO" ELSE "manifestWait"
  <2>1. CASE i = Len(manifestQ) + 1
    BY <1>1, <1>3, <1>5, <1>6, <2>1
  <2>2. CASE i # Len(manifestQ) + 1
    BY <1>1, <1>3, <1>4, <1>5, <1>6, <2>2 DEF QueueShape
  <2> QED BY <2>1, <2>2
<1>8. \A i, j \in DOMAIN manifestQ' : manifestQ'[i] = manifestQ'[j] => i = j
  BY <1>1, <1>3, <1>4 DEF QueueShape
<1>9. ASSUME NEW s \in Threads,
             pc'[s] = "manifestIO" \/ (pc'[s] = "manifestWait" /\ written'[s] = "none")
      PROVE  \E i \in DOMAIN manifestQ' : manifestQ'[i] = s
  <2>1. CASE s = t
    BY <1>1, <1>3, <2>1
  <2>2. CASE s # t
    <3>1. PICK i \in DOMAIN manifestQ : manifestQ[i] = s
      BY <1>5, <1>6, <1>9, <2>2 DEF QueueShape
    <3>2. i \in DOMAIN manifestQ' /\ i # Len(manifestQ) + 1
      BY <1>1
    <3> QED BY <1>3, <3>1, <3>2
  <2> QED BY <2>1, <2>2
<1> QED BY <1>2, <1>7, <1>8, <1>9 DEF QueueShape

\* LogAndApply queues its caller.
LEMMA LogAndApplyQueue ==
  ASSUME ThreadTypes, ManifestTypes, QueueShape,
         NEW t \in Threads, NEW why \in {"refill", "commit"},
         pc[t] # "manifestIO", pc[t] # "manifestWait",
         LogAndApply(t, why)
  PROVE  ThreadTypes' /\ ManifestTypes' /\ QueueShape'
<1>1. /\ purpose' = [purpose EXCEPT ![t] = why] /\ written' = [written EXCEPT ![t] = "none"]
      /\ manifestQ' = Append(manifestQ, t) /\ ioLen' = (IF manifestQ = <<>> THEN 1 ELSE ioLen)
      /\ Goto(t, IF manifestQ = <<>> THEN "manifestIO" ELSE "manifestWait")
  BY DEF LogAndApply
<1>2. ManifestTypes' /\ QueueShape'
  BY <1>1, AppendWriter
<1>3. ThreadTypes'
  BY DEF ThreadTypes, Labels, LogAndApply, Goto
<1> QED BY <1>2, <1>3

\* The first n writers leave with a result; those behind them wait as before.
LEMMA DropWriters ==
  ASSUME ThreadTypes, ManifestTypes, QueueShape,
         NEW n \in 1..Len(manifestQ), ioLen = 0 \/ ioLen = n,
         NEW label \in Labels, label # "manifestIO", label # "manifestWait",
         Goto(manifestQ[1], label),
         manifestQ' \in Seq(Threads), Len(manifestQ') = Len(manifestQ) - n,
         \A i \in 1..(Len(manifestQ) - n) : manifestQ'[i] = manifestQ[i + n],
         ioLen' = 0, purpose' = purpose,
         written' \in [Threads -> {"none", "ok", "failed"}],
         \A i \in DOMAIN manifestQ : written'[manifestQ[i]] = "none" <=> i > n,
         \A s \in Threads : written'[s] = "none" => written[s] = "none"
  PROVE  ManifestTypes' /\ QueueShape'
<1>1. /\ manifestQ \in Seq(Threads) /\ Len(manifestQ) \in Nat /\ n \in 0..Len(manifestQ)
      /\ DOMAIN manifestQ = 1..Len(manifestQ) /\ 1 \in DOMAIN manifestQ
  BY DEF ManifestTypes
<1>2. DOMAIN manifestQ' = 1..(Len(manifestQ) - n)
  OBVIOUS
<1>3. ManifestTypes'
  BY DEF ManifestTypes
<1>4. \A i \in DOMAIN manifestQ : manifestQ[i] \in Threads
  BY <1>1
<1>5. \A s \in Threads : pc'[s] = IF s = manifestQ[1] THEN label ELSE pc[s]
  BY <1>1, <1>4 DEF Goto, ThreadTypes
<1>6. \A i \in DOMAIN manifestQ' :
        i + n \in DOMAIN manifestQ /\ i + n > n /\ i + n # 1 /\ manifestQ'[i] = manifestQ[i + n]
  BY <1>1, <1>2
<1>7. ASSUME NEW i \in DOMAIN manifestQ'
      PROVE  written'[manifestQ'[i]] = "none" /\ pc'[manifestQ'[i]] = "manifestWait"
  <2>1. manifestQ[i + n] \in Threads /\ manifestQ[i + n] # manifestQ[1]
    BY <1>1, <1>4, <1>6 DEF QueueShape
  <2>2. pc[manifestQ[i + n]] = "manifestWait"
    BY <1>6 DEF QueueShape
  <2> QED BY <1>5, <1>6, <2>1, <2>2
<1>8. ASSUME NEW i \in DOMAIN manifestQ', NEW j \in DOMAIN manifestQ', manifestQ'[i] = manifestQ'[j]
      PROVE  i = j
  <2>1. i + n = j + n
    BY <1>6, <1>8 DEF QueueShape
  <2> QED BY <1>1, <1>2, <2>1
<1>9. \A s \in Threads : pc'[s] # "manifestIO"
  BY <1>1, <1>5 DEF QueueShape
<1>10. ASSUME NEW s \in Threads, pc'[s] = "manifestWait", written'[s] = "none"
       PROVE  \E i \in DOMAIN manifestQ' : manifestQ'[i] = s
  <2>1. pc[s] = "manifestWait" /\ written[s] = "none"
    BY <1>5, <1>10
  <2>2. PICK i \in DOMAIN manifestQ : manifestQ[i] = s
    BY <2>1 DEF QueueShape
  <2>3. i > n
    BY <1>10, <2>2
  <2>4. i - n \in 1..(Len(manifestQ) - n) /\ (i - n) + n = i
    BY <1>1, <2>3
  <2> QED BY <1>2, <2>2, <2>4
<1>11. QueueShape'
  BY <1>7, <1>8, <1>9, <1>10 DEF QueueShape
<1> QED BY <1>3, <1>11

\* Dequeue takes the group off the queue.
LEMMA DequeueQueue ==
  ASSUME ThreadTypes, ManifestTypes, QueueShape,
         NEW t \in Threads, NEW status \in {"ok", "failed"},
         pc[t] = "manifestIO", Dequeue(t, status)
  PROVE  ThreadTypes' /\ ManifestTypes' /\ QueueShape'
<1>1. t = manifestQ[1] /\ ioLen \in 1..Len(manifestQ)
  BY DEF QueueShape, ManifestTypes
<1>2. /\ manifestQ' = SubSeq(manifestQ, ioLen + 1, Len(manifestQ)) /\ ioLen' = 0
      /\ purpose' = purpose /\ mutex' = t /\ asleep' \subseteq asleep /\ Goto(t, "manifestDone")
      /\ written' = [s \in Threads |-> IF s \in Group THEN status ELSE written[s]]
  BY DEF Dequeue
<1>3. \A i \in DOMAIN manifestQ : manifestQ[i] \in Threads /\ (manifestQ[i] \in Group <=> ~(i > ioLen))
  BY <1>1 DEF Group, QueueShape, ManifestTypes
<1>4. /\ written' \in [Threads -> {"none", "ok", "failed"}]
      /\ \A s \in Threads : written'[s] = "none" => written[s] = "none"
  BY <1>2 DEF ManifestTypes
<1>5. \A i \in DOMAIN manifestQ : written'[manifestQ[i]] = "none" <=> i > ioLen
  BY <1>2, <1>3 DEF QueueShape
<1>6. /\ manifestQ' \in Seq(Threads) /\ Len(manifestQ') = Len(manifestQ) - ioLen
      /\ \A i \in 1..(Len(manifestQ) - ioLen) : manifestQ'[i] = manifestQ[i + ioLen]
  BY <1>2, SuffixOf DEF ManifestTypes
<1>7. ManifestTypes' /\ QueueShape'
  BY <1>1, <1>2, <1>4, <1>5, <1>6, DropWriters DEF Labels
<1>8. ThreadTypes'
  BY <1>2 DEF ThreadTypes, Goto, Labels
<1> QED BY <1>7, <1>8

\* A group has at least its leader, and no more writers than there are.
LEMMA GroupLenRange ==
  ASSUME ManifestTypes, manifestQ # <<>>, purpose[manifestQ[1]] # "options"
  PROVE  GroupLen \in 1..Len(manifestQ)
<1> DEFINE G == {i \in DOMAIN manifestQ : \A j \in 1..i : purpose[manifestQ[j]] # "options"}
<1>1. Len(manifestQ) \in Nat /\ DOMAIN manifestQ = 1..Len(manifestQ) /\ 1 \in DOMAIN manifestQ
  BY DEF ManifestTypes
<1>2. 1 \in G
  BY <1>1
<1>3. IsFiniteSet(1..Len(manifestQ)) /\ Cardinality(1..Len(manifestQ)) = Len(manifestQ)
  BY <1>1, FS_Interval
<1>4. G \subseteq 1..Len(manifestQ)
  BY <1>1
<1>5. IsFiniteSet(G) /\ Cardinality(G) <= Len(manifestQ)
  BY <1>3, <1>4, FS_Subset
<1>6. Cardinality(G) \in Nat
  BY <1>5, FS_CardinalityType
<1>7. Cardinality(G) # 0
  BY <1>2, <1>5, FS_EmptySet
<1> QED BY <1>1, <1>5, <1>6, <1>7 DEF GroupLen

-----------------------------------------------------------------------------
(* Steps.  What a step leaves alone keeps its type.                        *)

\* A group of variables that does not change keeps its types.
LEMMA TypesKept ==
  /\ ThreadTypes /\ UNCHANGED threadVars => ThreadTypes'
  /\ ManifestTypes /\ UNCHANGED manifestVars => ManifestTypes'
  /\ QueueShape /\ UNCHANGED manifestVars /\ UNCHANGED pc => QueueShape'
  /\ VersionTypes /\ UNCHANGED versionVars => VersionTypes'
  /\ WindowTypes /\ UNCHANGED windowVars => WindowTypes'
  /\ CommitTypes /\ UNCHANGED commitVars => CommitTypes'
  /\ JobTypes /\ UNCHANGED jobVars => JobTypes'
  /\ LoaderTypes /\ UNCHANGED loaderVars => LoaderTypes'
  /\ JobShape /\ UNCHANGED job => JobShape'
<1>1. ThreadTypes /\ UNCHANGED threadVars => ThreadTypes'
  BY DEF ThreadTypes, threadVars
<1>2. ManifestTypes /\ UNCHANGED manifestVars => ManifestTypes'
  BY DEF ManifestTypes, manifestVars
<1>3. QueueShape /\ UNCHANGED manifestVars /\ UNCHANGED pc => QueueShape'
  BY DEF QueueShape, manifestVars
<1>4. VersionTypes /\ UNCHANGED versionVars => VersionTypes'
  BY DEF VersionTypes, versionVars
<1>5. WindowTypes /\ UNCHANGED windowVars => WindowTypes'
  BY DEF WindowTypes, windowVars
<1>6. CommitTypes /\ UNCHANGED commitVars => CommitTypes'
  BY DEF CommitTypes, commitVars
<1>7. JobTypes /\ UNCHANGED jobVars => JobTypes'
  BY DEF JobTypes, jobVars
<1>8. LoaderTypes /\ UNCHANGED loaderVars => LoaderTypes'
  BY DEF LoaderTypes, loaderVars
<1>9. JobShape /\ UNCHANGED job => JobShape'
  BY DEF JobShape
<1> QED BY <1>1, <1>2, <1>3, <1>4, <1>5, <1>6, <1>7, <1>8, <1>9

\* A signalled writer returns or leads the next group.
LEMMA ManifestWakeTypes ==
  ASSUME TypeInv, NEW t \in Threads, ManifestWake(t)
  PROVE  TypeInv'
<1>1. /\ VersionTypes' /\ WindowTypes' /\ CommitTypes' /\ JobTypes' /\ LoaderTypes'
      /\ JobShape' /\ failures' \in 0..MaxFailures
  BY TypesKept DEF TypeInv, TypeOK, ManifestWake, jobVars
<1>2. CASE written[t] # "none"
  <2>1. Goto(t, "manifestDone") /\ UNCHANGED manifestVars /\ mutex' = t /\ asleep' = asleep
    BY <1>2 DEF ManifestWake, manifestVars
  <2>2. QueueShape'
    BY <1>2, <2>1, QueueKept DEF ManifestWake, TypeInv, TypeOK, Labels
  <2>3. ThreadTypes' /\ ManifestTypes'
    BY <2>1, TypesKept DEF TypeInv, TypeOK, ThreadTypes, Goto, Labels
  <2> QED BY <1>1, <2>2, <2>3 DEF TypeInv, TypeOK
<1>3. CASE written[t] = "none"
  <2>1. /\ manifestQ \in Seq(Threads) /\ manifestQ # <<>> /\ manifestQ[1] = t
        /\ DOMAIN manifestQ = 1..Len(manifestQ) /\ Len(manifestQ) \in Nat
    BY <1>3 DEF ManifestWake, TypeInv, TypeOK, ManifestTypes, QueueShape
  <2>2. ioLen' \in 1..Len(manifestQ)
    BY <1>3, <2>1, GroupLenRange DEF ManifestWake, TypeInv, TypeOK
  <2>3. ThreadTypes' /\ ManifestTypes'
    BY <1>3, <2>2 DEF ManifestWake, TypeInv, TypeOK, ThreadTypes, ManifestTypes, Goto, Labels
  <2>4. \A s \in Threads : pc'[s] = IF s = t THEN "manifestIO" ELSE pc[s]
    BY <1>3 DEF ManifestWake, TypeInv, TypeOK, ThreadTypes, Goto
  <2>5. ioLen = 0 /\ UNCHANGED <<manifestQ, written>>
    BY <1>3, <2>1 DEF ManifestWake, TypeInv, TypeOK, QueueShape, ManifestTypes
  <2>6. \A i \in DOMAIN manifestQ : manifestQ[i] \in Threads /\ (manifestQ[i] = t <=> i = 1)
    BY <2>1 DEF TypeInv, QueueShape
  <2>7. QueueShape'
    BY <2>1, <2>2, <2>4, <2>5, <2>6 DEF TypeInv, QueueShape
  <2> QED BY <1>1, <2>3, <2>7 DEF TypeInv, TypeOK
<1> QED BY <1>2, <1>3

\* What the edits of a compaction and of a group are made of.
LEMMA EditTypes ==
  ASSUME TypeInv
  PROVE  /\ L0Files \subseteq Files /\ 0 \in Levels
         /\ \A w \in Workers, l \in Levels :
              DeletedAt(w, l) \subseteq Files /\ AddedAt(w, l) \subseteq Files
         /\ \A w \in Workers : AddedAt(w, 0) = {} /\ DeletedAt(w, 0) \subseteq L0Files
         /\ \A w \in Workers : job[w].inputs \cup job[w].lower \cup job[w].outputs \subseteq Files
         /\ Group \subseteq Threads
         /\ GroupJobs \subseteq commitBatch /\ GroupJobs \subseteq Workers
         /\ GroupAdmits \subseteq L0Files
<1>1. L0Files \subseteq Files /\ 0 \in Levels
  BY ConfigAssumption DEF L0Files, Files, Levels
<1>2. \A w \in Workers : job[w] \in Jobs
  BY DEF TypeInv, TypeOK, JobTypes
<1>3. \A w \in Workers : /\ job[w].inputs \subseteq Files /\ job[w].lower \subseteq Files
                         /\ job[w].outputs \subseteq Files
                         /\ job[w].level \in Levels /\ job[w].out \in Levels
  BY <1>2 DEF Jobs
<1>4. \A w \in Workers, l \in Levels :
        DeletedAt(w, l) \subseteq Files /\ AddedAt(w, l) \subseteq Files
  BY <1>3 DEF DeletedAt, AddedAt
<1>5. \A w \in Workers :
        job[w] = NoJob \/ (job[w].out # 0 /\ (job[w].level = 0 => job[w].inputs \subseteq L0Files))
  BY <1>3, ConfigAssumption DEF TypeInv, JobShape, Levels
<1>6. \A w \in Workers : AddedAt(w, 0) = {} /\ DeletedAt(w, 0) \subseteq L0Files
  BY <1>5 DEF DeletedAt, AddedAt, NoJob
<1>7. Group \subseteq Threads
  BY DEF Group, TypeInv, TypeOK, ManifestTypes
<1>8. GroupJobs \subseteq commitBatch /\ GroupJobs \subseteq Workers
  BY DEF GroupJobs, Commits, TypeInv, TypeOK, CommitTypes
<1>9. GroupAdmits \subseteq L0Files
  BY <1>7 DEF GroupAdmits, Admits, TypeInv, TypeOK, WindowTypes
<1> QED BY <1>1, <1>3, <1>4, <1>6, <1>7, <1>8, <1>9

\* Membership in the edits of a group.
LEMMA EditMembers ==
  /\ \A f, l : f \in GroupDeletes(l) <=> \E w \in GroupJobs : f \in DeletedAt(w, l)
  /\ \A f, l : f \in GroupAdds(l) <=>
                \/ \E w \in GroupJobs : f \in AddedAt(w, l)
                \/ l = 0 /\ f \in GroupAdmits
<1>1. \A f, l : f \in GroupDeletes(l) <=> \E w \in GroupJobs : f \in DeletedAt(w, l)
  BY Zenon DEF GroupDeletes
<1>2. \A f, l : f \in GroupAdds(l) <=>
                 \/ \E w \in GroupJobs : f \in AddedAt(w, l)
                 \/ l = 0 /\ f \in GroupAdmits
  BY Zenon DEF GroupAdds
<1> QED BY <1>1, <1>2, Zenon

\* Installing an edit keeps the levels sets of files, and L0 one of generated
\* files.
LEMMA ManifestInstalledTypes ==
  ASSUME TypeInv, NEW t \in Threads, ManifestInstalled(t)
  PROVE  TypeInv'
<1>1. /\ WindowTypes' /\ JobTypes' /\ LoaderTypes' /\ JobShape' /\ failures' \in 0..MaxFailures
  BY TypesKept DEF TypeInv, TypeOK, ManifestInstalled, jobVars
<1>2. CommitTypes'
  BY EditTypes DEF TypeInv, TypeOK, CommitTypes, ManifestInstalled
<1>3. ThreadTypes' /\ ManifestTypes' /\ QueueShape'
  BY DequeueQueue DEF TypeInv, TypeOK, ManifestInstalled
<1>4. version' = [l \in Levels |-> (version[l] \ GroupDeletes(l)) \cup GroupAdds(l)]
  BY DEF ManifestInstalled, Apply
<1>5. \A l \in Levels : GroupAdds(l) \subseteq Files
  BY EditTypes, EditMembers
<1>6. GroupAdds(0) \subseteq L0Files
  BY EditTypes, EditMembers
<1>10. version' \in [Levels -> SUBSET Files]
  BY <1>4, <1>5 DEF TypeInv, TypeOK, VersionTypes
<1>11. version'[0] \subseteq L0Files
  BY <1>4, <1>6, EditTypes DEF TypeInv, TypeOK, VersionTypes
<1>7. \A W \in SUBSET Workers : InputsOf(W) \subseteq Files /\ OutputsOf(W) \subseteq Files
  BY EditTypes DEF InputsOf, OutputsOf
<1>8. Merges(GroupJobs) \subseteq Workers /\ GroupJobs \ Merges(GroupJobs) \subseteq Workers
  BY EditTypes DEF Merges
<1>9. obsolete' \subseteq Files /\ live' \subseteq Files /\ retired' \subseteq Files /\ doomed' = doomed
  BY <1>7, <1>8, EditTypes DEF TypeInv, TypeOK, VersionTypes, ManifestInstalled, Replace
<1>12. VersionTypes'
  BY <1>9, <1>10, <1>11 DEF VersionTypes, TypeInv, TypeOK
<1> QED BY <1>1, <1>2, <1>3, <1>12 DEF TypeInv, TypeOK

\* A failed MANIFEST write changes no level.
LEMMA ManifestFailedTypes ==
  ASSUME TypeInv, NEW t \in Threads, ManifestFailed(t)
  PROVE  TypeInv'
<1>1. /\ VersionTypes' /\ WindowTypes' /\ JobTypes' /\ LoaderTypes' /\ JobShape'
  BY TypesKept DEF TypeInv, TypeOK, ManifestFailed, jobVars
<1>2. failures' \in 0..MaxFailures
  BY ConfigAssumption DEF TypeInv, TypeOK, ManifestFailed
<1>3. CommitTypes'
  BY EditTypes DEF TypeInv, TypeOK, CommitTypes, ManifestFailed
<1>4. ThreadTypes' /\ ManifestTypes' /\ QueueShape'
  BY DequeueQueue DEF TypeInv, TypeOK, ManifestFailed
<1> QED BY <1>1, <1>2, <1>3, <1>4 DEF TypeInv, TypeOK
=============================================================================
