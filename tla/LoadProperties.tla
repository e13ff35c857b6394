--------------------------- MODULE LoadProperties ---------------------------
(***************************************************************************)
(* What a virtual load promises, from the first L0 file to the snapshot of *)
(* Phase 2.                                                                *)
(***************************************************************************)
EXTENDS FillVirtual

Labels == {"idle", "refill", "manifestWait", "manifestIO", "manifestDone",
           "follow", "lead", "delay", "finishBatch", "commitDone", "merge",
           "backoff", "purge"}

Stages == {"load", "lower", "drain", "drainWait", "restore", "pause", "cleanup",
           "snapshot", "phase2", "failed", "stuck"}

ThreadTypes ==
  /\ mutex \in Threads \cup {None}
  /\ pc \in [Threads -> Labels]
  /\ asleep \subseteq Threads

ManifestTypes ==
  /\ manifestQ \in Seq(Threads) /\ ioLen \in 0..Len(manifestQ)
  /\ purpose \in [Threads -> {"none", "refill", "commit", "options"}]
  /\ written \in [Threads -> {"none", "ok", "failed"}]

VersionTypes ==
  /\ version \in [Levels -> SUBSET Files] /\ version[0] \subseteq L0Files
  /\ obsolete \subseteq Files
  /\ doomed \in [Threads -> SUBSET Files]
  /\ live \subseteq Files /\ retired \subseteq Files

WindowTypes ==
  /\ pending \in Seq(L0Files) /\ visible \in Nat
  /\ batch \in [Threads -> SUBSET L0Files] /\ lost \subseteq L0Files
  /\ feed \in [Threads -> [target : Nat, trickled : BOOLEAN]]

CommitTypes ==
  /\ released \subseteq Workers
  /\ request \in [Workers -> {"none", "queued", "ok", "failed"}]
  /\ commitQ \in Seq(Workers) /\ inProgress \in BOOLEAN
  /\ commitBatch \subseteq Workers /\ commitOk \in BOOLEAN

JobTypes ==
  /\ job \in [Workers -> Jobs]
  /\ nextFile \in (NumL0 + 1)..(MaxFile + 1)
  /\ origin \in [Files -> SUBSET L0Files]
  /\ bgError \in BOOLEAN

LoaderTypes ==
  /\ nextL0 \in 1..(NumL0 + 1) /\ trigger \in Nat \ {0}
  /\ stage \in Stages
  /\ drainRound \in 0..(NumL0 + 2)
  /\ paused \in BOOLEAN

\* Every variable keeps the type its C++ counterpart has; L0 holds only files
\* the loader generated, because no virtual compaction outputs to L0, and the
\* drain loop ends after a bounded number of rounds.
TypeOK ==
  /\ ThreadTypes /\ ManifestTypes /\ VersionTypes /\ WindowTypes
  /\ CommitTypes /\ JobTypes /\ LoaderTypes
  /\ failures \in 0..MaxFailures

-----------------------------------------------------------------------------
(* The registry and the Version.                                           *)

\* Files popped by a refill and registered whose edit is not installed: it is
\* still to be written, or has failed and the refill has not returned yet.
Uninstalled == UNION {IF written[t] = "ok" THEN {} ELSE batch[t] : t \in Threads}

\* The registry holds a descriptor for exactly the files of the current Version
\* and those a refill is installing, although it is updated in three places
\* (before a refill's LogAndApply, in a commit's MANIFEST callback, in the
\* purge) and read without the Version.  So no compaction meets "current virtual
\* SST missing from registry", and the snapshot of Phase 2 has no stray file.
RegistryExact == live = Current \cup Uninstalled

\* A file is in one level only: a trivial move and a merge that run together,
\* or are grouped into one MANIFEST write, never leave it in two.
OneLevelPerFile ==
  \A k, l \in Levels : k # l => version[k] \cap version[l] = {}

\* The inputs of a compaction that has not released them stay where they were
\* when it was picked, through its merge, its wait in the commit queue and the
\* MANIFEST write, and no other compaction holds any of them: the test for
\* stale requests in CommitVirtualCompactionEdit never drops one.
InputsExclusive ==
  \A w \in Workers \ released :
    /\ job[w].inputs \subseteq version[job[w].level]
    /\ job[w].lower \subseteq version[job[w].out]
    /\ \A v \in Workers \ {w} : Held(v) \cap Held(w) = {}

\* The entries of every generated file are in the FIFO, in a refill's hands, in
\* some file of the current Version, or in a batch whose MANIFEST write failed:
\* concurrent merges, moves and refills lose nothing else.
NoFileLost ==
  1..(nextL0 - 1) \subseteq
    Front(Len(pending)) \cup Uninstalled \cup lost \cup UNION {origin[f] : f \in Current}

\* The purge, which runs without the mutex on numbers collected earlier, never
\* hits a number that has a descriptor: a moved file's old metadata is obsolete
\* while the file lives on under the same number.
PurgeSparesLive == \A t \in Threads : doomed[t] \cap live = {}

\* A retired number is still to be collected or purged, so retired_ does not
\* grow for ever; the exception are batches whose MANIFEST write failed.
RetiredAreCollected ==
  retired \subseteq obsolete \cup lost \cup UNION {doomed[t] : t \in Threads}

\* After PauseBackgroundWork neither the Version nor the set of descriptors
\* changes: Phase 2 works on a stable snapshot.
SnapshotStable == [][paused => UNCHANGED <<version, live>>]_vars

-----------------------------------------------------------------------------
(* The visible window.                                                     *)

\* Files in L0 that a refill has not counted yet: it was a follower in its
\* MANIFEST group, or is about to count them.
Uncounted == UNION {IF written[t] = "ok" THEN batch[t] ELSE {} : t \in Threads}

\* L0 inputs that a commit has deleted and not yet subtracted.
Unsubtracted ==
  UNION {L0InputsOf(commitBatch) :
           w \in {v \in Workers : /\ pc[v] \in {"manifestWait", "manifestDone"}
                                  /\ purpose[v] = "commit" /\ written[v] = "ok"}}

\* virtual_l0_visible_bytes_ never falls below what L0 really holds, taking the
\* updates under way into account: a refill never sees a window emptier than it
\* is, although installing and counting may be separate critical sections.
WindowNeverUndercounts ==
  visible + Bytes[Uncounted] >= Bytes[version[0]] + Bytes[Unsubtracted]

\* Admission follows generation: every file still waiting, in the FIFO or in
\* the hands of one of two concurrent refills, is newer than every generated
\* file the Version holds.
AdmissionInOrder ==
  \A f \in Front(Len(pending)) \cup
           UNION {IF written[t] = "none" THEN batch[t] ELSE {} : t \in Threads},
     g \in Current \cap L0Files : g < f

\* The byte target of a refill, and the size of the largest file.
MaxFileBytes ==
  CHOOSE b \in {Bytes[{f}] : f \in L0Files} : \A f \in L0Files : Bytes[{f}] <= b
Target == IF TargetBytes > 0 THEN TargetBytes ELSE MaxFileBytes
MaxBatchBytes == IF Target > MaxFileBytes THEN Target ELSE MaxFileBytes

\* L0 is bounded, although the loader's refill and the leader's each decide on
\* a window the other is about to fill: the target, exceeded by part of a file,
\* and one more batch.
L0Bounded == Bytes[version[0]] <= Target - 1 + MaxFileBytes + MaxBatchBytes

\* With back-pressure the number of L0 files is bounded in the same way: both
\* refills may find the stop trigger not yet reached, and each admits a batch.
\* With a slowdown trigger below it full batches are only decided below that
\* trigger, and then one refill may go round once more: from there to the stop
\* trigger L0 grows by one file per refill.
L0CountBounded ==
  Backpressure /\ StopTrigger > 0 =>
    \/ /\ SlowdownTrigger \notin 1..(StopTrigger - 1)
       /\ Cardinality(version[0]) <= StopTrigger - 1 + 2 * MaxRegisterBatch
    \/ /\ SlowdownTrigger \in 1..(StopTrigger - 1)
       /\ \/ Cardinality(version[0]) <= StopTrigger + 1
          \/ Cardinality(version[0]) <= SlowdownTrigger + 2 * MaxRegisterBatch

-----------------------------------------------------------------------------
(* The commit queue.                                                       *)

\* A request is queued, or in the leader's batch, exactly once until it is done,
\* and while one waits somebody leads: no request is forgotten between the
\* leader's last look at the queue and the end of its leadership.
NoRequestForgotten ==
  /\ \A w \in Workers :
       request[w] = "queued" <=>
         w \in commitBatch \/ \E i \in DOMAIN commitQ : commitQ[i] = w
  /\ \A i, j \in DOMAIN commitQ : i # j => commitQ[i] # commitQ[j]
  /\ (\E w \in Workers : request[w] = "queued") => inProgress

\* Every request is answered: nobody sleeps through its wake-up in the commit
\* queue or in the MANIFEST writers' queue.
RequestsAnswered ==
  \A w \in Workers : request[w] = "queued" ~> request[w] # "queued"

\* A load ends: it reaches Phase 2 or returns early, and the workers come to
\* rest, even if a MANIFEST write or a merge fails on the way.
LoadEnds == <>[](stage \in {"phase2", "failed", "stuck"} /\ AllIdle)

\* Without a background error the load enters Phase 2 with L0 drained and the
\* entries of every generated file below it, whichever refill admitted what.
DrainedUnlessError ==
  stage \in {"pause", "cleanup", "snapshot", "phase2"} /\ ~bgError =>
    /\ pending = <<>> /\ version[0] = {}
    /\ L0Files = UNION {origin[f] : f \in Current}

-----------------------------------------------------------------------------
(* What the documentation says and the code does not do.                   *)

\* DESIGN_AND_IMPLEMENTATION.md section 5: pending files are put into the
\* VersionSet only while the visible L0 bytes are below the target.  Stated of
\* the moment a refill's edit has just been installed.
RegistersBelowTarget ==
  \A t \in Threads :
    pc[t] = "manifestDone" /\ purpose[t] = "refill" /\ written[t] = "ok" =>
      visible < Target

\* tools/db_bench_tool.cc, before the drain: "Lower the file-count trigger to 1
\* so the tail can drain through the normal picker."  With no error, and no
\* compaction debt to wait for, the drain does not give up.
TailDrains == stage = "stuck" => bgError

\* tools/db_bench_tool.cc, before Phase 2: "Residual virtual L0 should now be
\* drained before Phase 2".
DrainedBeforePhase2 == stage = "phase2" => pending = <<>> /\ version[0] = {}
=============================================================================
