--------------------------- MODULE RegistryProofs ---------------------------
(***************************************************************************)
(* The registry, the Version and the running compactions agree: the write  *)
(* of a MANIFEST group preserves FileInv of LoadInvariant, FileInv is      *)
(* inductive, and the properties of LoadProperties that follow from it.    *)
(***************************************************************************)
EXTENDS FileProofs

-----------------------------------------------------------------------------
(* A MANIFEST write.                                                       *)

\* What the compactions of a group add: outputs, or the moved files.
Adds(w) == IF job[w].move THEN job[w].inputs ELSE job[w].outputs

\* The writers of the group wait in LogAndApply.
LEMMA GroupWriters ==
  ASSUME TypeInv, NEW s \in Group
  PROVE  s \in Threads /\ written[s] = "none" /\ pc[s] \in {"manifestWait", "manifestIO"}
<1>1. PICK i \in 1..ioLen : s = manifestQ[i]
  BY DEF Group
<1>2. i \in DOMAIN manifestQ /\ s \in Threads
  BY <1>1 DEF TypeInv, TypeOK, ManifestTypes
<1>3. written[s] = "none"
  BY <1>1, <1>2 DEF TypeInv, QueueShape
<1>4. pc[s] = IF i = 1 /\ ioLen > 0 THEN "manifestIO" ELSE "manifestWait"
  BY <1>1, <1>2 DEF TypeInv, QueueShape
<1> QED BY <1>2, <1>3, <1>4

\* The compactions of the group hold their inputs, which are current, and their
\* outputs are new; the batches of the group are not installed.
LEMMA GroupFacts ==
  ASSUME TypeInv, HandInv, FileInv
  PROVE  /\ \A w \in GroupJobs : w \in Workers /\ w \notin released
         /\ \A w \in GroupJobs : /\ job[w].inputs \subseteq version[job[w].level]
                                 /\ job[w].lower \subseteq version[job[w].out]
                                 /\ job[w].level \in Levels /\ job[w].out \in Levels
                                 /\ job[w].outputs \cap Seen = {}
                                 /\ job[w].move => job[w].lower = {} /\ job[w].outputs = {}
         /\ \A v, w \in GroupJobs : v # w =>
              (job[v].inputs \cup job[v].lower) \cap (job[w].inputs \cup job[w].lower) = {}
         /\ \A f : f \in GroupAdmits <=> \E s \in Group : purpose[s] = "refill" /\ f \in batch[s]
         /\ GroupAdmits \subseteq Uninstalled /\ GroupAdmits \subseteq L0Files
<1>1. \A s \in Group : s \in Threads /\ written[s] = "none" /\ pc[s] \in {"manifestWait", "manifestIO"}
  BY GroupWriters
<1>2. \A w : w \in GroupJobs <=> \E s \in Group : w \in Commits(s)
  BY Zenon DEF GroupJobs
<1>3. ASSUME NEW w \in GroupJobs PROVE w \in Workers /\ w \notin released
  <2>1. PICK s \in Group : w \in Commits(s)
    BY <1>2
  <2>2. purpose[s] = "commit" /\ w \in commitBatch
    BY <2>1 DEF Commits
  <2>3. s \in Workers
    BY <1>1, <2>2 DEF HandInv, BatchShape, Threads
  <2> QED BY <1>1, <2>2, <2>3 DEF HandInv, ReleaseShape, TypeInv, TypeOK, CommitTypes
<1>4. ASSUME NEW w \in GroupJobs
      PROVE  /\ job[w].inputs \subseteq version[job[w].level]
             /\ job[w].lower \subseteq version[job[w].out]
             /\ job[w].level \in Levels /\ job[w].out \in Levels
             /\ job[w].outputs \cap Seen = {}
             /\ job[w].move => job[w].lower = {} /\ job[w].outputs = {}
  <2>1. /\ job[w].inputs \subseteq version[job[w].level]
        /\ job[w].lower \subseteq version[job[w].out]
    BY <1>3 DEF FileInv, InputsExclusive
  <2>2. job[w].level \in Levels /\ job[w].out \in Levels
    BY <1>3 DEF TypeInv, TypeOK, JobTypes, Jobs
  <2>3. job[w].outputs \cap Seen = {}
    BY <1>3 DEF FileInv, FreshShape
  <2>4. job[w].move => job[w].lower = {} /\ job[w].outputs = {}
    <3>1. CASE job[w] = NoJob
      BY <3>1, NoJobEmpty
    <3>2. CASE job[w] # NoJob
      BY <1>3, <3>2 DEF TypeInv, JobShape
    <3> QED BY <3>1, <3>2
  <2> QED BY <2>1, <2>2, <2>3, <2>4
<1>5. \A v, w \in GroupJobs : v # w =>
        (job[v].inputs \cup job[v].lower) \cap (job[w].inputs \cup job[w].lower) = {}
  BY <1>3 DEF FileInv, InputsExclusive, Held
<1>6. \A f : f \in GroupAdmits <=> \E s \in Group : purpose[s] = "refill" /\ f \in batch[s]
  <2>1. \A f : f \in GroupAdmits <=> \E s \in Group : f \in Admits(s)
    BY Zenon DEF GroupAdmits
  <2> QED BY <2>1 DEF Admits
<1>7. GroupAdmits \subseteq Uninstalled
  BY <1>1, <1>6, FileMembers
<1>8. GroupAdmits \subseteq L0Files
  BY <1>1, <1>6 DEF TypeInv, TypeOK, WindowTypes
<1> QED BY <1>3, <1>4, <1>5, <1>6, <1>7, <1>8

\* The Version a group installs, file by file: an input leaves every level, for
\* it was in one only.
LEMMA ApplyMembers ==
  ASSUME TypeInv, HandInv, FileInv, NEW l \in Levels, NEW f
  PROVE  f \in Apply[l] <=>
           \/ f \in version[l] /\ \A w \in GroupJobs : f \notin job[w].inputs \cup job[w].lower
           \/ \E w \in GroupJobs : job[w].out = l /\ f \in Adds(w)
           \/ l = 0 /\ f \in GroupAdmits
<1>1. f \in Apply[l] <=> (f \in version[l] /\ f \notin GroupDeletes(l)) \/ f \in GroupAdds(l)
  BY DEF Apply
<1>2. f \in GroupAdds(l) <=> \/ \E w \in GroupJobs : job[w].out = l /\ f \in Adds(w)
                             \/ l = 0 /\ f \in GroupAdmits
  BY EditMembers DEF AddedAt, Adds
<1>3. ASSUME f \in version[l], NEW w \in GroupJobs
      PROVE  f \in DeletedAt(w, l) <=> f \in job[w].inputs \cup job[w].lower
  <2>1. f \in job[w].inputs => job[w].level = l
    BY <1>3, GroupFacts DEF FileInv, OneLevelPerFile
  <2>2. f \in job[w].lower => job[w].out = l
    BY <1>3, GroupFacts DEF FileInv, OneLevelPerFile
  <2> QED BY <2>1, <2>2 DEF DeletedAt
<1> QED BY <1>1, <1>2, <1>3, EditMembers

\* What a group takes out of the Version and puts in.
Taken(w) == job[w].inputs \cup job[w].lower

\* What is in the Version, and uninstalled, once a MANIFEST group is written.
LEMMA InstallMembers ==
  ASSUME TypeInv, HandInv, FileInv, NEW t \in Threads, ManifestInstalled(t)
  PROVE  /\ \A f : \A l \in Levels :
              f \in version'[l] <=>
                \/ f \in version[l] /\ \A w \in GroupJobs : f \notin Taken(w)
                \/ \E w \in GroupJobs : job[w].out = l /\ f \in Adds(w)
                \/ l = 0 /\ f \in GroupAdmits
         /\ \A f : f \in Current' <=>
              \/ f \in Current /\ \A w \in GroupJobs : f \notin Taken(w)
              \/ \E w \in GroupJobs : f \in Adds(w)
              \/ f \in GroupAdmits
         /\ \A f : f \in Uninstalled' <=> f \in Uninstalled /\ f \notin GroupAdmits
<1>1. version' = Apply /\ batch' = batch
  BY DEF ManifestInstalled, windowVars
<1>2. \A s \in Threads : written'[s] = IF s \in Group THEN "ok" ELSE written[s]
  BY DEF ManifestInstalled, Dequeue
<1>3. Group \subseteq Threads /\ 0 \in Levels
  BY EditTypes
<1>4. ASSUME NEW f, NEW l \in Levels
      PROVE  f \in version'[l] <=>
               \/ f \in version[l] /\ \A w \in GroupJobs : f \notin Taken(w)
               \/ \E w \in GroupJobs : job[w].out = l /\ f \in Adds(w)
               \/ l = 0 /\ f \in GroupAdmits
  BY <1>1, ApplyMembers DEF Taken
<1>5. \A w \in GroupJobs : job[w].out \in Levels
  BY GroupFacts
<1>7. ASSUME NEW f
      PROVE  f \in Current' <=>
               \/ f \in Current /\ \A w \in GroupJobs : f \notin Taken(w)
               \/ \E w \in GroupJobs : f \in Adds(w)
               \/ f \in GroupAdmits
  BY <1>3, <1>4, <1>5, FileMembers, FileMembersNext
<1>8. ASSUME NEW f
      PROVE  f \in Uninstalled' <=> f \in Uninstalled /\ f \notin GroupAdmits
  <2>1. ASSUME f \in Uninstalled' PROVE f \in Uninstalled /\ f \notin GroupAdmits
    <3>1. PICK s \in Threads : written'[s] # "ok" /\ f \in batch[s]
      BY <1>1, <2>1, FileMembersNext
    <3>2. s \notin Group /\ written[s] # "ok"
      BY <1>2, <3>1
    <3>3. \A r \in Group : f \notin batch[r]
      BY <1>3, <3>1, <3>2 DEF FileInv, FifoShape
    <3> QED BY <3>1, <3>2, <3>3, FileMembers, GroupFacts
  <2>2. ASSUME f \in Uninstalled, f \notin GroupAdmits PROVE f \in Uninstalled'
    <3>1. PICK s \in Threads : written[s] # "ok" /\ f \in batch[s]
      BY <2>2, FileMembers
    <3>2. purpose[s] = "refill"
      BY <3>1 DEF HandInv, BatchShape
    <3>3. s \notin Group
      BY <2>2, <3>1, <3>2, GroupFacts
    <3> QED BY <1>1, <1>2, <3>1, <3>3, FileMembersNext
  <2> QED BY <2>1, <2>2
<1> QED BY <1>4, <1>7, <1>8

\* Installing a group: Version, registry and compactions change together.
LEMMA InstallFiles ==
  ASSUME TypeInv, HandInv, FileInv, NEW t \in Threads, ManifestInstalled(t)
  PROVE  FileInv'
<1>1. /\ UNCHANGED <<doomed, pending, batch, nextL0, nextFile, job>>
      /\ version' = Apply /\ obsolete' = obsolete \cup InputsOf(GroupJobs)
      /\ released' = released \cup GroupJobs
  BY DEF ManifestInstalled, windowVars, jobVars, loaderVars
<1>2. \A s \in Threads : written'[s] = IF s \in Group THEN "ok" ELSE written[s]
  BY DEF ManifestInstalled, Dequeue
<1>3. Group \subseteq Threads /\ 0 \in Levels
  BY EditTypes
<1>4. \A f : \A l \in Levels :
        f \in version'[l] <=>
          \/ f \in version[l] /\ \A w \in GroupJobs : f \notin Taken(w)
          \/ \E w \in GroupJobs : job[w].out = l /\ f \in Adds(w)
          \/ l = 0 /\ f \in GroupAdmits
  BY InstallMembers
<1>5. ASSUME NEW w \in GroupJobs
      PROVE  /\ w \in Workers /\ w \notin released /\ job[w].out \in Levels
             /\ Taken(w) \subseteq Current
             /\ \/ ~job[w].move /\ Adds(w) = job[w].outputs /\ Adds(w) \cap Seen = {}
                \/ job[w].move /\ Adds(w) = Taken(w)
  <2>1. w \in Workers /\ w \notin released /\ job[w].out \in Levels /\ job[w].level \in Levels
    BY GroupFacts
  <2>2. Taken(w) \subseteq Current
    BY <2>1, GroupFacts, FileMembers DEF Taken
  <2>3. CASE job[w].move
    BY <2>1, <2>2, <2>3, GroupFacts DEF Adds, Taken
  <2>4. CASE ~job[w].move
    BY <2>1, <2>2, <2>4, GroupFacts DEF Adds
  <2> QED BY <2>3, <2>4
<1>6. \A v, w \in GroupJobs : v # w => Taken(v) \cap Taken(w) = {} /\ Adds(v) \cap Adds(w) = {}
  <2>1. SUFFICES ASSUME NEW v \in GroupJobs, NEW w \in GroupJobs, v # w
                 PROVE  Taken(v) \cap Taken(w) = {} /\ Adds(v) \cap Adds(w) = {}
    OBVIOUS
  <2>2. Taken(v) \cap Taken(w) = {}
    BY <2>1, GroupFacts DEF Taken
  <2>3. job[v].outputs \cap job[w].outputs = {}
    BY <1>5, <2>1 DEF FileInv, OutputShape
  <2>4. Current \subseteq Seen
    BY FileMembers
  <2> QED BY <1>5, <2>2, <2>3, <2>4
<1>7. \A f : f \in Current' <=> \/ f \in Current /\ \A w \in GroupJobs : f \notin Taken(w)
                                \/ \E w \in GroupJobs : f \in Adds(w)
                                \/ f \in GroupAdmits
  BY InstallMembers
<1>8. \A f : f \in Uninstalled' <=> f \in Uninstalled /\ f \notin GroupAdmits
  BY InstallMembers
<1>9. ASSUME NEW f
      PROVE  f \in live' <=> /\ f \in live \/ \E w \in GroupJobs : f \in Adds(w)
                             /\ \A w \in GroupJobs : f \in Taken(w) => job[w].move
  <2>1. live' = (live \cup (OutputsOf(Merges(GroupJobs)) \cup InputsOf(GroupJobs \ Merges(GroupJobs))))
                  \ InputsOf(Merges(GroupJobs))
    BY DEF ManifestInstalled, Replace
  <2>2. \A W : /\ f \in OutputsOf(W) <=> \E w \in W : f \in job[w].outputs
               /\ f \in InputsOf(W) <=> \E w \in W : f \in Taken(w)
    BY Zenon DEF OutputsOf, InputsOf, Taken
  <2>3. \A w : w \in Merges(GroupJobs) <=> w \in GroupJobs /\ ~job[w].move
    BY DEF Merges
  <2>4. f \in OutputsOf(Merges(GroupJobs)) \/ f \in InputsOf(GroupJobs \ Merges(GroupJobs))
          <=> \E w \in GroupJobs : f \in Adds(w)
    <3>1. ASSUME NEW w \in GroupJobs
          PROVE  f \in Adds(w) <=> IF job[w].move THEN f \in Taken(w) ELSE f \in job[w].outputs
      BY <1>5
    <3>2. f \in OutputsOf(Merges(GroupJobs)) <=> \E w \in GroupJobs : ~job[w].move /\ f \in Adds(w)
      BY <2>2, <2>3, <3>1
    <3>3. f \in InputsOf(GroupJobs \ Merges(GroupJobs))
            <=> \E w \in GroupJobs : job[w].move /\ f \in Adds(w)
      <4>1. \A w : w \in GroupJobs \ Merges(GroupJobs) <=> w \in GroupJobs /\ job[w].move
        BY <2>3
      <4>2. f \in InputsOf(GroupJobs \ Merges(GroupJobs))
              <=> \E w \in GroupJobs : job[w].move /\ f \in Taken(w)
        BY <2>2, <4>1
      <4> QED BY <3>1, <4>2
    <3> QED BY <3>2, <3>3
  <2>5. f \in InputsOf(Merges(GroupJobs)) <=> \E w \in GroupJobs : ~job[w].move /\ f \in Taken(w)
    BY <2>2, <2>3
  <2>6. f \in live' <=> /\ \/ f \in live
                           \/ f \in OutputsOf(Merges(GroupJobs))
                           \/ f \in InputsOf(GroupJobs \ Merges(GroupJobs))
                        /\ f \notin InputsOf(Merges(GroupJobs))
    BY <2>1
  <2> QED BY <2>4, <2>5, <2>6
<1>10. Current \subseteq Seen /\ Seen \cap Uninstalled = {} /\ GroupAdmits \subseteq Uninstalled
       /\ GroupAdmits \subseteq L0Files /\ live = Current \cup Uninstalled
  BY FileMembers, GroupFacts DEF FileInv, FreshShape, RegistryExact
<1>11. \A w \in GroupJobs : job[w].outputs \cap L0Files = {}
  BY <1>5, OutputsNotGenerated DEF FileInv
\* What is added is new, or is the file a move has just taken away.
<1>12. ASSUME NEW f, NEW w \in GroupJobs, f \in Adds(w)
       PROVE  /\ f \notin GroupAdmits
              /\ f \in Current => f \in Taken(w) /\ job[w].move
              /\ \A v \in GroupJobs : f \in Taken(v) => v = w /\ job[w].move
  <2>1. CASE ~job[w].move /\ Adds(w) = job[w].outputs /\ Adds(w) \cap Seen = {}
    <3>1. f \notin GroupAdmits
      BY <1>10, <1>11, <1>12, <2>1
    <3>2. f \notin Current
      BY <1>10, <1>12, <2>1
    <3>3. \A v \in GroupJobs : f \notin Taken(v)
      BY <1>5, <3>2
    <3> QED BY <3>1, <3>2, <3>3
  <2>2. CASE job[w].move /\ Adds(w) = Taken(w)
    <3>1. f \in Taken(w) /\ f \in Current
      BY <1>5, <1>12, <2>2
    <3>2. f \notin GroupAdmits
      BY <1>10, <3>1
    <3>3. \A v \in GroupJobs : f \in Taken(v) => v = w
      BY <1>6, <3>1
    <3> QED BY <2>2, <3>1, <3>2, <3>3
  <2> QED BY <1>5, <2>1, <2>2
<1>13. RegistryExact'
  <2>1. ASSUME NEW f PROVE f \in live' <=> f \in Current' \/ f \in Uninstalled'
    <3>1. CASE \E w \in GroupJobs : f \in Adds(w)
      BY <1>7, <1>9, <1>12, <3>1
    <3>2. CASE ~ \E w \in GroupJobs : f \in Adds(w)
      <4>1. ASSUME NEW w \in GroupJobs, f \in Taken(w) PROVE ~job[w].move /\ f \in Current
        BY <1>5, <3>2, <4>1
      <4>2. f \in live' <=> f \in live /\ \A w \in GroupJobs : f \notin Taken(w)
        BY <1>9, <3>2, <4>1
      <4>3. f \in Uninstalled => \A w \in GroupJobs : f \notin Taken(w)
        BY <1>10, <4>1
      <4> QED BY <1>7, <1>8, <1>10, <3>2, <4>2, <4>3
    <3> QED BY <3>1, <3>2
  <2> QED BY <2>1 DEF RegistryExact
<1>14. OneLevelPerFile'
  <2>1. SUFFICES ASSUME NEW k \in Levels, NEW l \in Levels, NEW f,
                        f \in version'[k], f \in version'[l]
                 PROVE  k = l
    BY DEF OneLevelPerFile
  <2>2. CASE f \in GroupAdmits
    <3>1. f \notin Current /\ \A w \in GroupJobs : f \notin Adds(w)
      BY <1>10, <1>12, <2>2
    <3>2. f \notin version[k] /\ f \notin version[l]
      BY <3>1, FileMembers
    <3> QED BY <1>4, <2>1, <3>1, <3>2
  <2>3. CASE f \notin GroupAdmits /\ \E w \in GroupJobs : f \in Adds(w)
    <3>1. PICK w \in GroupJobs : f \in Adds(w)
      BY <2>3
    <3>2. \A v \in GroupJobs : f \in Adds(v) => v = w
      BY <1>6, <3>1
    <3>3. f \in Current => f \in Taken(w)
      BY <1>12, <3>1
    <3>4. f \in version[k] \/ f \in version[l] => f \in Taken(w)
      BY <3>3, FileMembers
    <3>5. job[w].out = k /\ job[w].out = l
      BY <1>4, <2>1, <2>3, <3>2, <3>4
    <3> QED BY <3>5
  <2>4. CASE f \notin GroupAdmits /\ ~ \E w \in GroupJobs : f \in Adds(w)
    <3>1. f \in version[k] /\ f \in version[l]
      BY <1>4, <2>1, <2>4
    <3> QED BY <3>1 DEF FileInv, OneLevelPerFile
  <2> QED BY <2>2, <2>3, <2>4
<1>15. InputsExclusive'
  <2>1. ASSUME NEW w \in Workers, w \notin released'
        PROVE  /\ job[w].inputs \subseteq version'[job[w].level]
               /\ job[w].lower \subseteq version'[job[w].out]
    <3>1. w \notin released /\ w \notin GroupJobs
      BY <1>1, <2>1
    <3>2. \A v \in GroupJobs : v \in Workers /\ v # w /\ Held(v) = Taken(v)
      BY <1>5, <3>1 DEF Held, Taken
    <3>3. Held(w) = job[w].inputs \cup job[w].lower
      BY <3>1 DEF Held
    <3>4. ASSUME NEW v \in GroupJobs PROVE (job[w].inputs \cup job[w].lower) \cap Taken(v) = {}
      <4>1. Held(v) \cap Held(w) = {}
        BY <3>1, <3>2 DEF FileInv, InputsExclusive
      <4> QED BY <3>2, <3>3, <4>1
    <3>5. job[w].level \in Levels /\ job[w].out \in Levels
      BY DEF TypeInv, TypeOK, JobTypes, Jobs
    <3>6. job[w].inputs \subseteq version[job[w].level] /\ job[w].lower \subseteq version[job[w].out]
      BY <3>1 DEF FileInv, InputsExclusive
    <3> QED BY <1>4, <3>4, <3>5, <3>6
  <2>2. \A v \in Workers : Held(v)' \subseteq Held(v)
    BY <1>1 DEF Held
  <2> QED BY <1>1, <2>1, <2>2 DEF FileInv, InputsExclusive
<1>16. \A f \in Seen' : \/ f \in Seen \/ f \in GroupAdmits
                        \/ \E w \in GroupJobs : ~job[w].move /\ f \in job[w].outputs
  <2>1. \A f : f \in InputsOf(GroupJobs) => f \in Current
    <3>1. \A f : f \in InputsOf(GroupJobs) <=> \E w \in GroupJobs : f \in Taken(w)
      BY Zenon DEF InputsOf, Taken
    <3> QED BY <1>5, <3>1
  <2>2. \A f : f \in Current' => \/ f \in Current \/ f \in GroupAdmits
                                 \/ \E w \in GroupJobs : ~job[w].move /\ f \in job[w].outputs
    BY <1>5, <1>7
  <2> QED BY <1>1, <2>1, <2>2, FileMembers, FileMembersNext
<1>17. FreshShape'
  <2>1. NumL0 \in Nat /\ nextFile \in Nat /\ nextFile > NumL0 /\ nextL0 \in Nat
    BY NumberTypes
  <2>2. \A f : f \in GroupAdmits \/ f \in Uninstalled => f \in L0Files
    BY <1>10, FileMembers DEF TypeInv, TypeOK, WindowTypes
  <2>3. \A w \in Workers : job[w].outputs \subseteq (NumL0 + 1)..(nextFile - 1)
    BY DEF FileInv, OutputShape
  <2>4. \A w \in Workers : \A f \in job[w].outputs : f \notin L0Files
    BY OutputsNotGenerated DEF FileInv
  <2>5. ASSUME NEW f \in Seen' PROVE f < nextFile /\ (f <= NumL0 => f < nextL0)
    <3>1. CASE f \in Seen
      BY <3>1 DEF FileInv, FreshShape
    <3>2. CASE f \in GroupAdmits
      <4>1. f < nextL0
        BY <1>3, <3>2, GroupFacts DEF FileInv, FifoShape
      <4> QED BY <2>1, <2>2, <3>2, <4>1 DEF L0Files
    <3>3. CASE \E w \in GroupJobs : f \in job[w].outputs
      <4>1. f \in (NumL0 + 1)..(nextFile - 1)
        BY <1>5, <2>3, <3>3
      <4> QED BY <2>1, <4>1
    <3> QED BY <1>16, <3>1, <3>2, <3>3
  <2>6. ASSUME NEW i \in DOMAIN pending PROVE pending[i] \notin Seen'
    <3>1. pending[i] \in L0Files /\ pending[i] \in Int
      BY <2>1 DEF TypeInv, TypeOK, WindowTypes, L0Files
    <3>2. pending[i] \notin GroupAdmits
      <4>1. \A s \in Group : \A f \in batch[s] : f < pending[i]
        BY <1>3 DEF FileInv, FifoShape
      <4>2. ~(pending[i] < pending[i])
        BY <3>1
      <4> QED BY <4>1, <4>2, GroupFacts
    <3>3. pending[i] \notin Seen
      BY DEF FileInv, FreshShape
    <3> QED BY <1>5, <1>16, <2>4, <3>1, <3>2, <3>3
  <2>7. Seen' \cap Uninstalled' = {}
    BY <1>5, <1>8, <1>10, <1>16, <2>2, <2>4
  <2>8. ASSUME NEW w \in Workers, w \notin released' PROVE job[w].outputs \cap Seen' = {}
    <3>1. w \notin GroupJobs /\ job[w].outputs \cap Seen = {}
      BY <1>1, <2>8 DEF FileInv, FreshShape
    <3>2. \A v \in GroupJobs : job[w].outputs \cap job[v].outputs = {}
      BY <1>5, <3>1 DEF FileInv, OutputShape
    <3> QED BY <1>16, <2>2, <2>4, <3>1, <3>2
  <2>9. ASSUME NEW s \in Threads PROVE doomed[s] \cap Current' = {}
    <3>1. doomed[s] \subseteq Seen /\ doomed[s] \cap Current = {}
      BY FileMembers DEF FileInv, FreshShape
    <3>2. \A f \in doomed[s] : f \notin GroupAdmits /\ \A w \in GroupJobs : f \notin Adds(w)
      BY <1>5, <1>10, <3>1
    <3> QED BY <1>7, <3>1, <3>2
  <2> QED BY <1>1, <2>5, <2>6, <2>7, <2>8, <2>9 DEF FreshShape
<1>18. FifoShape' /\ OutputShape'
  BY <1>1 DEF FileInv, FifoShape, OutputShape
<1> QED BY <1>13, <1>14, <1>15, <1>17, <1>18 DEF FileInv

-----------------------------------------------------------------------------
(* Every step.                                                             *)

\* The steps of a worker.
LEMMA WorkerFiles ==
  ASSUME TypeInv, CommitInv, HandInv, FileInv, NEW t \in Threads,
         Manifest(t) \/ Refill(t) \/ (t \in Workers /\ (Commit(t) \/ Compact(t)))
  PROVE  FileInv'
<1> DEFINE Still == UNCHANGED <<version, obsolete, doomed, live, pending, batch, nextL0, nextFile>>
<1>1. CASE ManifestInstalled(t) \/ RefillAdmit(t) \/ RefillCount(t) \/ RefillFail(t)
  BY <1>1, InstallFiles, AdmitFiles, BatchDoneFiles
<1>2. CASE ManifestWake(t) \/ RefillStop(t)
  <2>1. Still /\ UNCHANGED <<job, released, written>>
    BY <1>2 DEF ManifestWake, RefillStop, versionVars, windowVars, commitVars, jobVars, loaderVars,
                manifestVars
  <2> QED BY <2>1, QuietFiles
<1>3. CASE ManifestFailed(t)
  <2>1. Still /\ UNCHANGED job /\ released' = released \cup GroupJobs
    BY <1>3 DEF ManifestFailed, versionVars, windowVars, jobVars, loaderVars
  <2>2. \A s \in Threads : written'[s] = IF s \in Group THEN "failed" ELSE written[s]
    BY <1>3 DEF ManifestFailed, Dequeue
  <2>3. \A s \in Group : written[s] = "none"
    BY GroupWriters
  <2> QED BY <2>1, <2>2, <2>3, QuietFiles
<1>4. CASE t \in Workers /\ (\/ FollowerWait(t) \/ LeaderDelay(t) \/ CommitInstalled(t)
                            \/ CommitFailed(t) \/ FinishBatch(t) \/ LeaderExit(t))
  <2>1. Still /\ UNCHANGED <<job, written>> /\ released \subseteq released'
    BY <1>4 DEF FollowerWait, LeaderDelay, CommitInstalled, CommitFailed, FinishBatch, LeaderExit,
                versionVars, windowVars, commitVars, jobVars, loaderVars, manifestVars
  <2> QED BY <2>1, QuietFiles
<1>5. CASE t \in Workers /\ (LeaderBatch(t) \/ LeaderWake(t))
  <2>1. pc[t] \in {"lead", "delay"} /\ TakeBatch(t)
    BY <1>5 DEF LeaderBatch, LeaderWake
  <2>2. Still /\ UNCHANGED job /\ released \subseteq released'
        /\ (written' = written \/ written' = [written EXCEPT ![t] = "none"])
    BY <2>1 DEF TakeBatch, LogAndApply, versionVars, jobVars, manifestVars
  <2>3. batch[t] = {}
    BY <2>1 DEF HandInv, BatchShape
  <2>4. \A s \in Threads : batch[s] # {} => written'[s] = written[s]
    BY <2>2, <2>3 DEF TypeInv, TypeOK, ManifestTypes
  <2> QED BY <2>2, <2>4, QuietFiles
<1>6. CASE t \in Workers /\ (CommitReturn(t) \/ MergeFailed(t))
  <2>1. /\ Still /\ UNCHANGED written
        /\ CompactionReturn(t, request[t] = "ok") \/ CompactionReturn(t, FALSE)
    BY <1>6 DEF CommitReturn, MergeFailed, versionVars, windowVars, loaderVars, manifestVars
  <2>2. (request[t] = "ok") \in BOOLEAN /\ FALSE \in BOOLEAN
    OBVIOUS
  <2> QED BY <1>6, <2>1, <2>2, ReturnFiles
<1>7. CASE t \in Workers /\ (Pick(t) \/ MergeDone(t) \/ Purge(t))
  BY <1>7, PickFiles, MergeFiles, PurgeFiles
<1>8. CASE t \in Workers /\ CollectAfterFailure(t)
  <2>1. /\ FindObsoleteFiles(t)
        /\ UNCHANGED <<version, live, pending, batch, written, nextL0, nextFile, job, released>>
    BY <1>8 DEF CollectAfterFailure, registryVars, windowVars, commitVars, jobVars, loaderVars,
                manifestVars
  <2> QED BY <2>1, CollectFiles
<1> QED BY <1>1, <1>2, <1>3, <1>4, <1>5, <1>6, <1>7, <1>8 DEF Manifest, Refill, Commit, Compact

\* The loader's own steps.
LEMMA LoaderFiles ==
  ASSUME TypeInv, CommitInv, HandInv, FileInv, LoaderNext
  PROVE  FileInv'
<1>1. FG \in Threads
  BY DEF Threads
<1>2. CASE Manifest(FG) \/ Refill(FG)
  BY <1>1, <1>2, WorkerFiles
<1>3. CASE (\E k \in EnqueueSizes : Enqueue(k)) \/ Purge(FG)
  BY <1>1, <1>3, EnqueueFiles, PurgeFiles
<1>4. CASE Cleanup
  <2>1. /\ FindObsoleteFiles(FG)
        /\ UNCHANGED <<version, live, pending, batch, written, nextL0, nextFile, job, released>>
    BY <1>4 DEF Cleanup, registryVars, windowVars, commitVars, jobVars, manifestVars
  <2> QED BY <1>1, <2>1, CollectFiles
<1>5. CASE LoadWait \/ SetOptions \/ OptionsLead \/ DrainRefill \/ DrainWait \/ Pause \/ Snapshot
  <2>1. UNCHANGED <<version, obsolete, doomed, live, pending, batch, nextL0, nextFile, job, released>>
    BY <1>5 DEF LoadWait, SetOptions, OptionsLead, SetTrigger, DrainRefill, DrainWait, Pause, Snapshot,
                versionVars, windowVars, commitVars, jobVars, loaderVars
  <2>2. \/ written' = written
        \/ (\E st : written' = [written EXCEPT ![FG] = st])
           /\ (pc[FG] = "idle" \/ purpose[FG] = "options")
    BY <1>5 DEF LoadWait, SetOptions, OptionsLead, DrainRefill, DrainWait, Pause, Snapshot,
                manifestVars, At
  <2>3. written' = written \/ batch[FG] = {}
    BY <1>1, <2>2 DEF HandInv, BatchShape
  <2>4. \A s \in Threads : batch[s] # {} => written'[s] = written[s]
    BY <1>1, <2>2, <2>3 DEF TypeInv, TypeOK, ManifestTypes
  <2> QED BY <2>1, <2>4, QuietFiles
<1> QED BY <1>2, <1>3, <1>4, <1>5 DEF LoaderNext

\* At the start there are no files.
LEMMA FileInvInit == Init => HandInv /\ FileInv
<1> SUFFICES ASSUME Init PROVE HandInv /\ FileInv
  OBVIOUS
<1>1. /\ \A t \in Threads : batch[t] = {} /\ doomed[t] = {} /\ pc[t] = "idle" /\ purpose[t] = "none"
      /\ \A l \in Levels : version[l] = {}
      /\ \A w \in Workers : job[w] = NoJob
      /\ pending = <<>> /\ DOMAIN pending = {} /\ obsolete = {} /\ live = {} /\ released = {}
      /\ FG \in Threads /\ Workers \subseteq Threads
  <2>1. \A t \in Threads : batch[t] = {} /\ doomed[t] = {} /\ pc[t] = "idle" /\ purpose[t] = "none"
    BY Zenon DEF Init
  <2>2. (\A l \in Levels : version[l] = {}) /\ (\A w \in Workers : job[w] = NoJob)
    BY Zenon DEF Init
  <2>3. pending = <<>> /\ obsolete = {} /\ live = {} /\ released = {}
    BY Zenon DEF Init, RegistryInit
  <2>4. FG \in Threads /\ Workers \subseteq Threads
    BY DEF Threads
  <2>5. DOMAIN pending = {}
    BY <2>3
  <2> QED BY <2>1, <2>2, <2>3, <2>4, <2>5
<1>2. NoJob.inputs = {} /\ NoJob.lower = {} /\ NoJob.outputs = {}
  BY DEF NoJob
<1>3. Current = {} /\ Uninstalled = {} /\ Seen = {}
  BY <1>1, FileMembers
<1>4. HandInv
  BY <1>1 DEF HandInv, BatchShape, ReleaseShape
<1>5. FifoShape /\ OutputShape /\ FreshShape
  BY <1>1, <1>2, <1>3 DEF FifoShape, OutputShape, FreshShape
<1>6. RegistryExact /\ OneLevelPerFile
  BY <1>1, <1>3 DEF RegistryExact, OneLevelPerFile
<1>7. InputsExclusive
  BY <1>1, <1>2 DEF InputsExclusive, Held
<1> QED BY <1>4, <1>5, <1>6, <1>7 DEF FileInv

\* The inductive invariant about files holds: for every number of workers,
\* files and levels, whatever grouping, failure or interleaving happens in
\* LogAndApply, the commit queue and the refills.
THEOREM FileInvariant == Spec => [](HandInv /\ FileInv)
<1>1. TypeInv /\ CommitInv /\ HandInv /\ FileInv /\ [Next]_vars => FileInv'
  <2>1. ASSUME TypeInv, CommitInv, HandInv, FileInv, Next PROVE FileInv'
    <3>1. CASE Terminated
      BY <2>1, <3>1, QuietFiles
      DEF Terminated, vars, manifestVars, versionVars, windowVars, commitVars, jobVars, loaderVars
    <3>2. CASE LoaderNext
      BY <2>1, <3>2, LoaderFiles
    <3>3. ASSUME NEW w \in Workers, WorkerNext(w) PROVE FileInv'
      BY <2>1, <3>3, WorkerFiles DEF WorkerNext, Threads
    <3> QED BY <2>1, <3>1, <3>2, <3>3 DEF Next
  <2>2. ASSUME FileInv, UNCHANGED vars PROVE FileInv'
    BY <2>2, QuietFiles
    DEF vars, manifestVars, versionVars, windowVars, commitVars, jobVars, loaderVars
  <2> QED BY <2>1, <2>2
<1> QED BY <1>1, FileInvInit, HandInvStep, TypeInvariant, CommitInvariant, PTL DEF Spec

\* The registry holds a descriptor for exactly the files of the current Version
\* and those a refill is installing, although refill, commit callback and purge
\* update it at three places and LogAndApply releases the mutex in between.
THEOREM RegistryIsExact == Spec => []RegistryExact
<1>1. FileInv => RegistryExact
  BY DEF FileInv
<1> QED BY <1>1, FileInvariant, PTL

\* No file is in two levels, whichever moves and merges a MANIFEST write groups.
THEOREM FilesInOneLevel == Spec => []OneLevelPerFile
<1>1. FileInv => OneLevelPerFile
  BY DEF FileInv
<1> QED BY <1>1, FileInvariant, PTL

\* Until it is released a compaction's inputs stay where they were picked and
\* belong to it alone, so a commit request never goes stale.
THEOREM InputsStayExclusive == Spec => []InputsExclusive
<1>1. FileInv => InputsExclusive
  BY DEF FileInv
<1> QED BY <1>1, FileInvariant, PTL

\* The purge, which runs without the mutex, never meets a descriptor.
THEOREM PurgeIsSafe == Spec => []PurgeSparesLive
<1>1. FileInv => PurgeSparesLive
  BY DoomedNotLive DEF PurgeSparesLive
<1> QED BY <1>1, FileInvariant, PTL

\* After PauseBackgroundWork neither the Version nor the set of descriptors
\* changes: the cleanup's purge is the only step left that touches the registry,
\* and what it forgets is not there.
THEOREM SnapshotIsStable == Spec => SnapshotStable
<1>1. /\ TypeInv /\ FileInv /\ PauseShape /\ [Next]_vars
      => [paused => UNCHANGED <<version, live>>]_vars
  <2>1. SUFFICES ASSUME TypeInv, FileInv, PauseShape, Next, paused
                 PROVE  UNCHANGED <<version, live>>
    OBVIOUS
  <2>2. CASE Purge(FG)
    BY <2>1, <2>2, PurgeFiles DEF Purge, Threads
  <2>3. CASE Cleanup \/ Snapshot \/ UNCHANGED vars
    BY <2>3 DEF Cleanup, Snapshot, registryVars, versionVars, vars
  <2> QED BY <2>1, <2>2, <2>3, PausedSteps
<1> QED BY <1>1, TypeInvariant, FileInvariant, PauseInvariant, PTL DEF Spec, SnapshotStable
=============================================================================
