----------------------------- MODULE FileProofs -----------------------------
(***************************************************************************)
(* Which files are where, first part: the steps of the refills, of the     *)
(* loader and of the compactions preserve FileInv of LoadInvariant.        *)
(***************************************************************************)
EXTENDS HandProofs

\* The counters of file numbers; merge outputs are numbered above generated files.
LEMMA NumberTypes ==
  ASSUME TypeInv
  PROVE  NumL0 \in Nat /\ nextFile \in Nat /\ nextFile > NumL0 /\ nextL0 \in Nat
<1>1. NumL0 \in Nat /\ MaxFile \in Nat
  BY ConfigAssumption
<1>2. nextFile \in (NumL0 + 1)..(MaxFile + 1) /\ nextL0 \in 1..(NumL0 + 1)
  BY DEF TypeInv, TypeOK, JobTypes, LoaderTypes
<1> QED BY <1>1, <1>2

\* A file number beyond the generated ones is not one of them.
LEMMA OutputsNotGenerated ==
  ASSUME TypeInv, OutputShape
  PROVE  \A w \in Workers : \A f \in job[w].outputs : f \notin L0Files
<1>1. \A f \in (NumL0 + 1)..(nextFile - 1) : f \notin L0Files
  BY NumberTypes DEF L0Files
<1> QED BY <1>1 DEF OutputShape

\* Membership, now and after a step.
LEMMA FileMembers ==
  /\ \A f : f \in Current <=> \E l \in Levels : f \in version[l]
  /\ \A f : f \in Uninstalled <=> \E t \in Threads : written[t] # "ok" /\ f \in batch[t]
  /\ \A f : f \in Seen <=> f \in Current \/ f \in obsolete \/ \E t \in Threads : f \in doomed[t]
<1>1. \A f : f \in Current <=> \E l \in Levels : f \in version[l]
  BY Zenon DEF Current
<1>2. \A f : f \in Uninstalled <=> \E t \in Threads : written[t] # "ok" /\ f \in batch[t]
  BY DEF Uninstalled
<1>3. \A f : f \in Seen <=> f \in Current \/ f \in obsolete \/ \E t \in Threads : f \in doomed[t]
  BY Zenon DEF Seen
<1> QED BY <1>1, <1>2, <1>3

\* The same after a step.
LEMMA FileMembersNext ==
  /\ \A f : f \in Current' <=> \E l \in Levels : f \in version'[l]
  /\ \A f : f \in Uninstalled' <=> \E t \in Threads : written'[t] # "ok" /\ f \in batch'[t]
  /\ \A f : f \in Seen' <=> f \in Current' \/ f \in obsolete' \/ \E t \in Threads : f \in doomed'[t]
<1>1. \A f : f \in Current' <=> \E l \in Levels : f \in version'[l]
  BY Zenon DEF Current
<1>2. \A f : f \in Uninstalled' <=> \E t \in Threads : written'[t] # "ok" /\ f \in batch'[t]
  BY DEF Uninstalled
<1>3. \A f : f \in Seen' <=> f \in Current' \/ f \in obsolete' \/ \E t \in Threads : f \in doomed'[t]
  BY Zenon DEF Seen
<1> QED BY <1>1, <1>2, <1>3

\* Every number seen is a file number.
LEMMA SeenAreFiles ==
  ASSUME TypeInv
  PROVE  Seen \subseteq Files
<1>1. \A l \in Levels : version[l] \subseteq Files
  BY DEF TypeInv, TypeOK, VersionTypes
<1>2. obsolete \subseteq Files /\ \A t \in Threads : doomed[t] \subseteq Files
  BY DEF TypeInv, TypeOK, VersionTypes
<1> QED BY <1>1, <1>2, FileMembers

\* A step that moves no file: compactions may be released, and writers answered
\* that have no batch or whose write failed.
LEMMA QuietFiles ==
  ASSUME FileInv, UNCHANGED <<version, obsolete, doomed, live, pending, batch, nextL0, nextFile, job>>,
         released \subseteq released',
         \A t \in Threads : batch[t] # {} => (written'[t] = "ok" <=> written[t] = "ok")
  PROVE  FileInv'
<1>1. Current' = Current /\ Seen' = Seen
  BY DEF Current, Seen
<1>2. Uninstalled' = Uninstalled
  <2>1. \A f : f \in Uninstalled' <=> f \in Uninstalled
    BY FileMembers, FileMembersNext
  <2> QED BY <2>1
<1>3. FifoShape' /\ OutputShape'
  BY DEF FileInv, FifoShape, OutputShape
<1>4. FreshShape'
  BY <1>1, <1>2 DEF FileInv, FreshShape
<1>5. RegistryExact' /\ OneLevelPerFile'
  BY <1>1, <1>2 DEF FileInv, RegistryExact, OneLevelPerFile
<1>6. InputsExclusive'
  BY DEF FileInv, InputsExclusive, Held
<1> QED BY <1>3, <1>4, <1>5, <1>6 DEF FileInv

\* A refill pops a batch and registers it.
LEMMA AdmitFiles ==
  ASSUME TypeInv, HandInv, FileInv, NEW t \in Threads, RefillAdmit(t)
  PROVE  FileInv'
<1>1. PICK n \in 1..Len(pending) :
        /\ batch' = [batch EXCEPT ![t] = Front(n)]
        /\ pending' = SubSeq(pending, n + 1, Len(pending))
        /\ live' = live \cup Front(n)
  BY DEF RefillAdmit, Register
<1>2. /\ UNCHANGED <<version, obsolete, doomed, nextL0, nextFile, job, released>>
      /\ written' = [written EXCEPT ![t] = "none"] /\ pc[t] = "refill"
  BY DEF RefillAdmit, LogAndApply, loaderVars, jobVars, commitVars
<1>3. batch[t] = {}
  BY <1>2 DEF HandInv, BatchShape
<1>4. \A s \in Threads : /\ batch'[s] = IF s = t THEN Front(n) ELSE batch[s]
                         /\ written'[s] = IF s = t THEN "none" ELSE written[s]
  BY <1>1, <1>2 DEF TypeInv, TypeOK, WindowTypes, ManifestTypes
<1>5. /\ pending \in Seq(L0Files) /\ DOMAIN pending = 1..Len(pending) /\ n \in 0..Len(pending)
      /\ Len(pending) \in Nat
  BY DEF TypeInv, TypeOK, WindowTypes
<1>6. /\ DOMAIN pending' = 1..(Len(pending) - n)
      /\ \A i \in 1..(Len(pending) - n) : pending'[i] = pending[i + n]
  BY <1>1, <1>5, SuffixOf
<1>7. \A i \in DOMAIN pending' : /\ i + n \in DOMAIN pending /\ n < i + n
                                 /\ pending'[i] = pending[i + n]
  BY <1>5, <1>6
<1>8. \A f \in Front(n) : \E i \in DOMAIN pending : i <= n /\ pending[i] = f
  BY <1>5 DEF Front
<1>9. \A f \in Front(n) : \A i \in DOMAIN pending' : f < pending'[i]
  <2>1. SUFFICES ASSUME NEW f \in Front(n), NEW i \in DOMAIN pending' PROVE f < pending'[i]
    OBVIOUS
  <2>2. PICK k \in DOMAIN pending : k <= n /\ pending[k] = f
    BY <1>8
  <2>3. i + n \in DOMAIN pending /\ k < i + n /\ pending'[i] = pending[i + n]
    BY <1>5, <1>7, <2>2
  <2> QED BY <2>2, <2>3 DEF FileInv, FifoShape
<1>10. \A s \in Threads : batch[s] \cap Front(n) = {}
  <2>1. SUFFICES ASSUME NEW s \in Threads, NEW f \in batch[s], f \in Front(n) PROVE FALSE
    OBVIOUS
  <2>2. PICK i \in DOMAIN pending : pending[i] = f
    BY <1>8, <2>1
  <2>3. f < f
    BY <2>1, <2>2 DEF FileInv, FifoShape
  <2>4. f \in Int
    BY <1>5, <2>2, ConfigAssumption DEF L0Files
  <2> QED BY <2>3, <2>4
<1>11. FifoShape'
  <2>1. \A i, j \in DOMAIN pending' : i < j => i + n < j + n
    BY <1>5, <1>6
  <2>2. \A i, j \in DOMAIN pending' : i < j => pending'[i] < pending'[j]
    BY <1>7, <2>1 DEF FileInv, FifoShape
  <2>3. \A i \in DOMAIN pending' : pending'[i] < nextL0
    BY <1>7 DEF FileInv, FifoShape
  <2>4. ASSUME NEW s \in Threads, NEW f \in batch'[s]
        PROVE  f < nextL0 /\ \A i \in DOMAIN pending' : f < pending'[i]
    BY <1>4, <1>7, <1>8, <1>9, <2>4 DEF FileInv, FifoShape
  <2>5. \A r, s \in Threads : r # s => batch'[r] \cap batch'[s] = {}
    BY <1>4, <1>10 DEF FileInv, FifoShape
  <2> QED BY <1>2, <2>2, <2>3, <2>4, <2>5 DEF FifoShape
<1>12. Current' = Current /\ Seen' = Seen
  BY <1>2 DEF Current, Seen
<1>13. Uninstalled' = Uninstalled \cup Front(n)
  <2>1. \A f : f \in Uninstalled' <=> f \in Uninstalled \/ f \in Front(n)
    BY <1>3, <1>4, FileMembers, FileMembersNext
  <2> QED BY <2>1
<1>14. FreshShape'
  BY <1>2, <1>7, <1>8, <1>12, <1>13 DEF FileInv, FreshShape
<1>15. RegistryExact'
  BY <1>1, <1>12, <1>13 DEF FileInv, RegistryExact
<1>16. OneLevelPerFile' /\ OutputShape' /\ InputsExclusive'
  BY <1>2 DEF FileInv, OneLevelPerFile, OutputShape, InputsExclusive, Held
<1> QED BY <1>11, <1>14, <1>15, <1>16 DEF FileInv

\* A refill is done with its batch: counted, or given up.
LEMMA BatchDoneFiles ==
  ASSUME TypeInv, FileInv, NEW t \in Threads, RefillCount(t) \/ RefillFail(t)
  PROVE  FileInv'
<1>1. /\ UNCHANGED <<version, obsolete, doomed, pending, nextL0, nextFile, job, released, written>>
      /\ batch' = [batch EXCEPT ![t] = {}]
  BY DEF RefillCount, RefillFail, manifestVars, versionVars, commitVars, jobVars, loaderVars
<1>2. \/ written[t] = "ok" /\ live' = live
      \/ written[t] = "failed" /\ live' = live \ batch[t]
  BY DEF RefillCount, RefillFail, Remove, versionVars
<1>3. \A s \in Threads : batch'[s] = IF s = t THEN {} ELSE batch[s]
  BY <1>1 DEF TypeInv, TypeOK, WindowTypes
<1>4. Current' = Current /\ Seen' = Seen
  BY <1>1 DEF Current, Seen
<1>5. Uninstalled' \subseteq Uninstalled
  BY <1>1, <1>3, FileMembers, FileMembersNext
<1>6. \A f \in Uninstalled : f \in Uninstalled' \/ (written[t] = "failed" /\ f \in batch[t])
  <2>1. SUFFICES ASSUME NEW f \in Uninstalled, f \notin Uninstalled'
                 PROVE  written[t] = "failed" /\ f \in batch[t]
    OBVIOUS
  <2>2. PICK s \in Threads : written[s] # "ok" /\ f \in batch[s]
    BY FileMembers
  <2>3. s = t
    BY <1>1, <1>3, <2>1, <2>2, FileMembersNext
  <2> QED BY <1>2, <2>2, <2>3
<1>7. RegistryExact'
  <2>1. CASE written[t] = "ok"
    BY <1>2, <1>4, <1>5, <1>6, <2>1 DEF FileInv, RegistryExact
  <2>2. CASE written[t] = "failed"
    <3>1. batch[t] \subseteq Uninstalled
      BY <2>2, FileMembers
    <3>2. \A f \in batch[t] : f \notin Uninstalled'
      BY <1>1, <1>3, FileMembersNext DEF FileInv, FifoShape
    <3>3. \A f \in batch[t] : f \notin Current
      BY <3>1, FileMembers DEF FileInv, FreshShape
    <3>4. \A f : f \in live' <=> f \in live /\ f \notin batch[t]
      BY <1>2, <2>2
    <3>5. \A f : f \in live <=> f \in Current \/ f \in Uninstalled
      BY DEF FileInv, RegistryExact
    <3>6. \A f : f \in live' <=> f \in Current' \/ f \in Uninstalled'
      BY <1>4, <1>5, <1>6, <3>2, <3>3, <3>4, <3>5
    <3> QED BY <3>6 DEF RegistryExact
  <2> QED BY <1>2, <2>1, <2>2
<1>8. FifoShape'
  BY <1>1, <1>3 DEF FileInv, FifoShape
<1>9. FreshShape'
  BY <1>1, <1>4, <1>5 DEF FileInv, FreshShape
<1>10. OneLevelPerFile' /\ OutputShape' /\ InputsExclusive'
  BY <1>1 DEF FileInv, OneLevelPerFile, OutputShape, InputsExclusive, Held
<1> QED BY <1>7, <1>8, <1>9, <1>10 DEF FileInv

\* EnqueueVirtualL0Files appends the next k numbers to the FIFO.
LEMMA EnqueueFifo ==
  ASSUME TypeInv, NEW k \in EnqueueSizes, Enqueue(k)
  PROVE  /\ k \in Nat \ {0} /\ nextL0 \in Nat /\ NumL0 \in Nat /\ Len(pending) \in Nat
         /\ nextL0' = nextL0 + k /\ nextL0 + k - 1 <= NumL0
         /\ DOMAIN pending = 1..Len(pending) /\ \A i \in DOMAIN pending : pending[i] \in Int
         /\ DOMAIN pending' = 1..(Len(pending) + k)
         /\ \A i \in DOMAIN pending : pending'[i] = pending[i]
         /\ \A i \in 1..k : pending'[Len(pending) + i] = nextL0 + i - 1
<1>1. /\ pending' = pending \o [i \in 1..k |-> nextL0 + i - 1]
      /\ nextL0' = nextL0 + k /\ nextL0 + k - 1 <= NumL0
  BY DEF Enqueue
<1>2. k \in Nat \ {0} /\ nextL0 \in Nat /\ NumL0 \in Nat
  BY ConfigAssumption DEF TypeInv, TypeOK, LoaderTypes
<1>3. pending \in Seq(L0Files) /\ DOMAIN pending = 1..Len(pending) /\ Len(pending) \in Nat
  BY DEF TypeInv, TypeOK, WindowTypes
<1>4. \A i \in DOMAIN pending : pending[i] \in Int
  BY <1>3, ConfigAssumption DEF L0Files
<1> DEFINE new == [i \in 1..k |-> nextL0 + i - 1]
<1>5. new \in Seq(Int) /\ Len(new) = k /\ \A i \in 1..k : new[i] = nextL0 + i - 1
  <2>1. new \in [1..k -> Int] /\ DOMAIN new = 1..k
    BY <1>2
  <2>2. new \in Seq(Int)
    BY <1>2, <2>1, FunctionIsSeq
  <2>3. Len(new) = k
    BY <1>2, <2>1, <2>2
  <2> QED BY <2>2, <2>3
<1>6. pending' = pending \o new
  BY <1>1
<1> HIDE DEF new
<1>7. /\ DOMAIN pending' = 1..(Len(pending) + k)
      /\ \A i \in 1..(Len(pending) + k) :
           pending'[i] = IF i <= Len(pending) THEN pending[i] ELSE new[i - Len(pending)]
  <2>1. pending \in Seq(Int)
    BY <1>3, <1>4
  <2>2. /\ pending \o new \in Seq(Int) /\ Len(pending \o new) = Len(pending) + k
        /\ \A i \in 1..(Len(pending) + k) :
             (pending \o new)[i] = IF i <= Len(pending) THEN pending[i] ELSE new[i - Len(pending)]
    BY <1>5, <2>1, ConcatProperties
  <2>3. DOMAIN (pending \o new) = 1..(Len(pending) + k)
    BY <2>2
  <2> QED BY <1>6, <2>2, <2>3
<1>8. \A i \in DOMAIN pending : pending'[i] = pending[i]
  BY <1>2, <1>3, <1>7
<1>9. ASSUME NEW i \in 1..k PROVE pending'[Len(pending) + i] = nextL0 + i - 1
  <2>1. /\ Len(pending) + i \in 1..(Len(pending) + k) /\ ~(Len(pending) + i <= Len(pending))
        /\ (Len(pending) + i) - Len(pending) = i
    BY <1>2, <1>3
  <2>2. pending'[Len(pending) + i] = new[i]
    BY <1>7, <2>1
  <2> QED BY <1>5, <2>2
<1> QED BY <1>1, <1>2, <1>3, <1>4, <1>7, <1>8, <1>9

\* The loader generates files: their numbers are new.
LEMMA EnqueueFiles ==
  ASSUME TypeInv, FileInv, NEW k \in EnqueueSizes, Enqueue(k)
  PROVE  FileInv'
<1>1. /\ UNCHANGED <<version, obsolete, doomed, live, batch, written, nextFile, job, released>>
      /\ nextL0' = nextL0 + k /\ nextL0 + k - 1 <= NumL0
  BY DEF Enqueue, manifestVars, versionVars, jobVars
<1>2. k \in Nat \ {0} /\ nextL0 \in Nat /\ NumL0 \in Nat
  BY EnqueueFifo
<1>3. DOMAIN pending = 1..Len(pending) /\ Len(pending) \in Nat
  BY EnqueueFifo
<1>4. \A i \in DOMAIN pending : pending[i] \in Int
  BY EnqueueFifo
<1>7. DOMAIN pending' = 1..(Len(pending) + k)
  BY EnqueueFifo
<1>8. ASSUME NEW i \in DOMAIN pending'
      PROVE  \/ i \in DOMAIN pending /\ pending'[i] = pending[i]
             \/ i > Len(pending) /\ pending'[i] = nextL0 + (i - Len(pending)) - 1
  <2>1. CASE i <= Len(pending)
    BY <1>2, <1>3, <1>7, <2>1, EnqueueFifo
  <2>2. CASE i > Len(pending)
    <3>1. i - Len(pending) \in 1..k /\ Len(pending) + (i - Len(pending)) = i
      BY <1>2, <1>3, <1>7, <2>2
    <3>2. pending'[Len(pending) + (i - Len(pending))] = nextL0 + (i - Len(pending)) - 1
      BY <3>1, EnqueueFifo
    <3> QED BY <2>2, <3>1, <3>2
  <2> QED BY <1>3, <1>7, <2>1, <2>2
<1>9. \A i \in DOMAIN pending' : \/ i \in DOMAIN pending /\ pending'[i] = pending[i]
                                 \/ pending'[i] >= nextL0 /\ pending'[i] <= NumL0
                                    /\ pending'[i] < nextL0'
  BY <1>1, <1>2, <1>3, <1>7, <1>8
<1>10. FifoShape'
  <2>1. \A i, j \in DOMAIN pending' : i < j => pending'[i] < pending'[j]
    <3>1. SUFFICES ASSUME NEW i \in DOMAIN pending', NEW j \in DOMAIN pending', i < j
                   PROVE  pending'[i] < pending'[j]
      OBVIOUS
    <3>2. CASE j \in DOMAIN pending /\ pending'[j] = pending[j]
      <4>1. i \in DOMAIN pending /\ ~(i > Len(pending))
        BY <1>3, <1>7, <3>1, <3>2
      <4> QED BY <1>8, <3>1, <3>2, <4>1 DEF FileInv, FifoShape
    <3>3. CASE j > Len(pending) /\ pending'[j] = nextL0 + (j - Len(pending)) - 1
      <4>1. CASE i \in DOMAIN pending /\ pending'[i] = pending[i]
        <5>1. pending[i] < nextL0 /\ pending[i] \in Int
          BY <1>4, <4>1 DEF FileInv, FifoShape
        <5> QED BY <1>2, <1>3, <1>7, <3>3, <4>1, <5>1
      <4>2. CASE i > Len(pending) /\ pending'[i] = nextL0 + (i - Len(pending)) - 1
        BY <1>2, <1>3, <1>7, <3>1, <3>3, <4>2
      <4> QED BY <1>8, <4>1, <4>2
    <3> QED BY <1>8, <3>2, <3>3
  <2>2. \A i \in DOMAIN pending' : pending'[i] < nextL0'
    BY <1>1, <1>2, <1>4, <1>9 DEF FileInv, FifoShape
  <2>3. ASSUME NEW s \in Threads, NEW f \in batch'[s]
        PROVE  f < nextL0' /\ \A i \in DOMAIN pending' : f < pending'[i]
    <3>1. f < nextL0 /\ f \in Int /\ \A i \in DOMAIN pending : f < pending[i]
      BY <1>1, <2>3, ConfigAssumption DEF FileInv, FifoShape, TypeInv, TypeOK, WindowTypes, L0Files
    <3>2. \A i \in DOMAIN pending' : pending'[i] \in Int
      BY <1>2, <1>3, <1>4, <1>7, <1>8
    <3> QED BY <1>1, <1>2, <1>9, <3>1, <3>2
  <2> QED BY <1>1, <2>1, <2>2, <2>3 DEF FileInv, FifoShape
<1>11. Current' = Current /\ Seen' = Seen /\ Uninstalled' = Uninstalled
  BY <1>1 DEF Current, Seen, Uninstalled
<1>12. FreshShape'
  <2>1. \A f \in Seen : f <= NumL0 => f < nextL0'
    <3>1. \A f \in Seen : f \in Int
      BY SeenAreFiles, ConfigAssumption DEF Files
    <3>2. \A f \in Seen : f <= NumL0 => f < nextL0
      BY DEF FileInv, FreshShape
    <3>3. nextL0' = nextL0 + k
      BY <1>1
    <3> QED BY <1>2, <3>1, <3>2, <3>3
  <2>2. ASSUME NEW i \in DOMAIN pending' PROVE pending'[i] \notin Seen
    <3>1. CASE i \in DOMAIN pending /\ pending'[i] = pending[i]
      BY <3>1 DEF FileInv, FreshShape
    <3>2. CASE pending'[i] >= nextL0 /\ pending'[i] <= NumL0
      <4>1. pending'[i] \in Int
        BY <1>2, <1>3, <1>4, <1>7, <1>8
      <4> QED BY <1>2, <3>2, <4>1 DEF FileInv, FreshShape
    <3> QED BY <1>9, <3>1, <3>2
  <2> QED BY <1>1, <1>11, <2>1, <2>2 DEF FileInv, FreshShape
<1>13. RegistryExact' /\ OneLevelPerFile' /\ OutputShape' /\ InputsExclusive'
  BY <1>1, <1>11 DEF FileInv, RegistryExact, OneLevelPerFile, OutputShape, InputsExclusive, Held
<1> QED BY <1>10, <1>12, <1>13 DEF FileInv

\* FindObsoleteFiles dooms only what is not current.
LEMMA CollectFiles ==
  ASSUME TypeInv, FileInv, NEW t \in Threads, FindObsoleteFiles(t),
         UNCHANGED <<version, live, pending, batch, written, nextL0, nextFile, job, released>>
  PROVE  FileInv'
<1>1. PICK S \in SUBSET obsolete : /\ obsolete' = obsolete \ S
                                   /\ doomed' = [doomed EXCEPT ![t] = S \ Current]
  BY DEF FindObsoleteFiles
<1>2. \A s \in Threads : doomed'[s] = IF s = t THEN S \ Current ELSE doomed[s]
  BY <1>1 DEF TypeInv, TypeOK, VersionTypes
<1>3. Current' = Current /\ Uninstalled' = Uninstalled
  BY DEF Current, Uninstalled
<1>4. Seen' \subseteq Seen
  <2> SUFFICES ASSUME NEW f \in Seen' PROVE f \in Seen
    OBVIOUS
  <2>1. f \in Current \/ f \in obsolete' \/ \E s \in Threads : f \in doomed'[s]
    BY <1>3, FileMembersNext
  <2>2. f \in obsolete' => f \in obsolete
    BY <1>1
  <2>3. \A s \in Threads : f \in doomed'[s] => f \in obsolete \/ f \in doomed[s]
    BY <1>1, <1>2
  <2> QED BY <2>1, <2>2, <2>3, FileMembers
<1>5. \A s \in Threads : doomed'[s] \cap Current' = {}
  BY <1>2, <1>3 DEF FileInv, FreshShape
<1>6. FreshShape'
  BY <1>3, <1>4, <1>5 DEF FileInv, FreshShape
<1>7. FifoShape' /\ OutputShape' /\ OneLevelPerFile'
  BY DEF FileInv, FifoShape, OutputShape, OneLevelPerFile
<1>8. RegistryExact' /\ InputsExclusive'
  BY <1>3 DEF FileInv, RegistryExact, InputsExclusive, Held
<1> QED BY <1>6, <1>7, <1>8 DEF FileInv

\* What the purge forgets has no descriptor.
LEMMA DoomedNotLive ==
  ASSUME FileInv, NEW t \in Threads
  PROVE  doomed[t] \cap live = {}
<1>1. doomed[t] \subseteq Seen
  BY FileMembers
<1> QED BY <1>1 DEF FileInv, FreshShape, RegistryExact

\* PurgeObsoleteFiles erases doomed numbers only, and these have no descriptor.
LEMMA PurgeFiles ==
  ASSUME TypeInv, FileInv, NEW t \in Threads, Purge(t)
  PROVE  FileInv' /\ live' = live
<1>1. /\ UNCHANGED <<version, obsolete, pending, batch, written, nextL0, nextFile, job, released>>
      /\ doomed' = [doomed EXCEPT ![t] = {}] /\ live' = live \ doomed[t]
  BY DEF Purge, Consume, manifestVars, windowVars, commitVars, jobVars, loaderVars
<1>2. live' = live
  BY <1>1, DoomedNotLive
<1>3. \A s \in Threads : doomed'[s] \subseteq doomed[s]
  BY <1>1 DEF TypeInv, TypeOK, VersionTypes
<1>4. Current' = Current /\ Uninstalled' = Uninstalled
  BY <1>1 DEF Current, Uninstalled
<1>5. Seen' \subseteq Seen
  BY <1>1, <1>3, <1>4, FileMembers, FileMembersNext
<1>6. FreshShape'
  BY <1>1, <1>3, <1>4, <1>5 DEF FileInv, FreshShape
<1>7. FifoShape' /\ OutputShape' /\ OneLevelPerFile'
  BY <1>1 DEF FileInv, FifoShape, OutputShape, OneLevelPerFile
<1>8. RegistryExact' /\ InputsExclusive'
  BY <1>1, <1>2, <1>4 DEF FileInv, RegistryExact, InputsExclusive, Held
<1> QED BY <1>2, <1>6, <1>7, <1>8 DEF FileInv

-----------------------------------------------------------------------------
(* Compactions.                                                            *)

\* A compaction is picked: its inputs are idle.
LEMMA PickFiles ==
  ASSUME TypeInv, CommitInv, FileInv, NEW w \in Workers, Pick(w)
  PROVE  FileInv'
<1>1. UNCHANGED <<version, obsolete, doomed, live, pending, batch, written, nextL0, nextFile, released>>
  BY DEF Pick, manifestVars, versionVars, windowVars, loaderVars
<1>2. CASE job' = job
  BY <1>1, <1>2, QuietFiles
<1>3. CASE job' # job
  <2>1. PICK j \in Picks : job' = [job EXCEPT ![w] = j]
    BY <1>3 DEF Pick, MissingInput
  <2>2. /\ j.inputs \subseteq Idle(j.level) /\ j.lower \subseteq Idle(j.out) /\ j.outputs = {}
    BY DEF Picks, Pickable
  <2>3. \A v \in Workers : job'[v] = IF v = w THEN j ELSE job[v]
    BY <2>1 DEF TypeInv, TypeOK, JobTypes
  <2>4. \A l : \A f \in Idle(l) : f \in version[l] /\ \A v \in Workers : f \notin Held(v)
    BY Zenon DEF Idle, BeingCompacted
  <2>5. j.inputs \subseteq version[j.level] /\ j.lower \subseteq version[j.out]
    BY <2>2, <2>4
  <2>6. \A v \in Workers : (j.inputs \cup j.lower) \cap Held(v) = {}
    BY <2>2, <2>4
  <2>7. Held(w)' \subseteq j.inputs \cup j.lower /\ \A v \in Workers : v # w => Held(v)' = Held(v)
    BY <1>1, <2>3 DEF Held
  <2>8. InputsExclusive'
    <3>1. ASSUME NEW v \in Workers, v \notin released
          PROVE  job'[v].inputs \subseteq version[job'[v].level]
                 /\ job'[v].lower \subseteq version[job'[v].out]
      BY <2>3, <2>5, <3>1 DEF FileInv, InputsExclusive
    <3>2. ASSUME NEW u \in Workers, NEW v \in Workers, u # v, v \notin released
          PROVE  Held(u)' \cap Held(v)' = {}
      <4>1. CASE u # w /\ v # w
        BY <2>7, <3>2, <4>1 DEF FileInv, InputsExclusive
      <4>2. CASE u = w \/ v = w
        BY <2>6, <2>7, <3>2, <4>2
      <4> QED BY <4>1, <4>2
    <3> QED BY <1>1, <3>1, <3>2 DEF InputsExclusive
  <2>9. OutputShape'
    BY <1>1, <2>2, <2>3 DEF FileInv, OutputShape
  <2>10. Current' = Current /\ Uninstalled' = Uninstalled /\ Seen' = Seen
    BY <1>1 DEF Current, Uninstalled, Seen
  <2>11. FreshShape'
    BY <1>1, <2>2, <2>3, <2>10 DEF FileInv, FreshShape
  <2>12. FifoShape' /\ OneLevelPerFile' /\ RegistryExact'
    BY <1>1, <2>10 DEF FileInv, FifoShape, OneLevelPerFile, RegistryExact
  <2> QED BY <2>8, <2>9, <2>11, <2>12 DEF FileInv
<1> QED BY <1>2, <1>3

\* A merge numbers its outputs: the numbers are new.
LEMMA MergeFiles ==
  ASSUME TypeInv, FileInv, NEW w \in Workers, MergeDone(w)
  PROVE  FileInv'
<1>1. UNCHANGED <<version, obsolete, doomed, live, pending, batch, written, nextL0, released>>
  BY DEF MergeDone, manifestVars, versionVars, windowVars, loaderVars
<1>2. PICK k \in 1..MaxOutputs :
        /\ job' = [job EXCEPT ![w].outputs = nextFile..(nextFile + k - 1)]
        /\ nextFile' = nextFile + k
  BY DEF MergeDone
<1>3. k \in Nat \ {0} /\ nextFile \in Nat /\ nextFile > NumL0 /\ NumL0 \in Nat
  BY ConfigAssumption DEF TypeInv, TypeOK, JobTypes
<1>4. \A v \in Workers :
        /\ job'[v].outputs = IF v = w THEN nextFile..(nextFile + k - 1) ELSE job[v].outputs
        /\ job'[v].inputs = job[v].inputs /\ job'[v].lower = job[v].lower
        /\ job'[v].level = job[v].level /\ job'[v].out = job[v].out
  BY <1>2 DEF TypeInv, TypeOK, JobTypes, Jobs
<1>5. OutputShape'
  <2>1. \A v \in Workers : job[v].outputs \subseteq (NumL0 + 1)..(nextFile - 1)
    BY DEF FileInv, OutputShape
  <2>2. \A v \in Workers : job'[v].outputs \subseteq (NumL0 + 1)..(nextFile' - 1)
    BY <1>2, <1>3, <1>4, <2>1
  <2>3. \A v \in Workers : job[v].outputs \cap (nextFile..(nextFile + k - 1)) = {}
    BY <1>3, <2>1
  <2>4. \A u, v \in Workers : u # v => job'[u].outputs \cap job'[v].outputs = {}
    BY <1>4, <2>3 DEF FileInv, OutputShape
  <2> QED BY <2>2, <2>4 DEF OutputShape
<1>6. Current' = Current /\ Uninstalled' = Uninstalled /\ Seen' = Seen
  BY <1>1 DEF Current, Uninstalled, Seen
<1>7. FreshShape'
  <2>1. \A f \in Seen : f \in Int /\ f < nextFile
    <3>1. \A f \in Files : f \in Int
      BY DEF Files
    <3>2. \A f \in Seen : f < nextFile
      BY DEF FileInv, FreshShape
    <3> QED BY <3>1, <3>2, SeenAreFiles
  <2>2. \A f \in Seen : f < nextFile' /\ f \notin nextFile..(nextFile + k - 1)
    BY <1>2, <1>3, <2>1
  <2>3. \A v \in Workers \ released : job'[v].outputs \cap Seen = {}
    BY <1>4, <2>2 DEF FileInv, FreshShape
  <2> QED BY <1>1, <1>6, <2>2, <2>3 DEF FileInv, FreshShape
<1>8. \A v \in Workers : Held(v)' = Held(v)
  BY <1>1, <1>4 DEF Held
<1>9. InputsExclusive'
  BY <1>1, <1>4, <1>8 DEF FileInv, InputsExclusive
<1>10. FifoShape' /\ OneLevelPerFile' /\ RegistryExact'
  BY <1>1, <1>6 DEF FileInv, FifoShape, OneLevelPerFile, RegistryExact
<1> QED BY <1>5, <1>7, <1>9, <1>10 DEF FileInv

\* Having no compaction is holding no file.
LEMMA NoJobEmpty == NoJob.inputs = {} /\ NoJob.lower = {} /\ NoJob.outputs = {}
BY DEF NoJob

\* A compaction ends: it holds nothing any more.
LEMMA ReturnFiles ==
  ASSUME TypeInv, FileInv, NEW w \in Workers, NEW ok \in BOOLEAN, CompactionReturn(w, ok),
         UNCHANGED <<version, obsolete, doomed, live, pending, batch, written, nextL0, nextFile>>
  PROVE  FileInv'
<1>1. released' = released \ {w} /\ \A v \in Workers : job'[v] = IF v = w THEN NoJob ELSE job[v]
  BY DEF CompactionReturn, TypeInv, TypeOK, JobTypes
<1>2. NoJob.inputs = {} /\ NoJob.lower = {} /\ NoJob.outputs = {}
  BY NoJobEmpty
<1>3. Held(w)' = {} /\ \A v \in Workers : v # w => Held(v)' = Held(v)
  BY <1>1, <1>2 DEF Held
<1>4. InputsExclusive'
  BY <1>1, <1>2, <1>3 DEF FileInv, InputsExclusive
<1>5. OutputShape'
  BY <1>1, <1>2 DEF FileInv, OutputShape
<1>6. Current' = Current /\ Uninstalled' = Uninstalled /\ Seen' = Seen
  BY DEF Current, Uninstalled, Seen
<1>7. FreshShape'
  BY <1>1, <1>2, <1>6 DEF FileInv, FreshShape
<1>8. FifoShape' /\ OneLevelPerFile' /\ RegistryExact'
  BY <1>6 DEF FileInv, FifoShape, OneLevelPerFile, RegistryExact
<1> QED BY <1>4, <1>5, <1>7, <1>8 DEF FileInv
=============================================================================
