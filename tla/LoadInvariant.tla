---------------------------- MODULE LoadInvariant ----------------------------
(***************************************************************************)
(* The inductive invariant of the load: what has to be known besides the   *)
(* properties of LoadProperties for them to be preserved by every step.    *)
(***************************************************************************)
EXTENDS LoadProperties

-----------------------------------------------------------------------------
(* Types: LoadTypes proves this part.                                      *)

\* A compaction goes down, L0 inputs are generated files, and a trivial move
\* has neither inputs at its output level nor new files.
JobShape ==
  \A w \in Workers :
    \/ job[w] = NoJob
    \/ /\ job[w].level < job[w].out
       /\ job[w].level = 0 => job[w].inputs \subseteq L0Files
       /\ job[w].move => job[w].lower = {} /\ job[w].outputs = {}

\* manifest_writers_ holds each thread that waits in LogAndApply once; its
\* front, and no other, writes the MANIFEST, and only while ioLen is not 0.
QueueShape ==
  /\ \A i \in DOMAIN manifestQ :
       /\ written[manifestQ[i]] = "none"
       /\ pc[manifestQ[i]] = IF i = 1 /\ ioLen > 0 THEN "manifestIO"
                             ELSE "manifestWait"
  /\ \A i, j \in DOMAIN manifestQ : manifestQ[i] = manifestQ[j] => i = j
  /\ \A t \in Threads :
       pc[t] = "manifestIO" \/ (pc[t] = "manifestWait" /\ written[t] = "none") =>
         \E i \in DOMAIN manifestQ : manifestQ[i] = t

TypeInv == TypeOK /\ JobShape /\ QueueShape

\* A worker that merges has a compaction, and not a trivial move.
MergeShape ==
  \A w \in Workers : pc[w] = "merge" => job[w] # NoJob /\ ~job[w].move

-----------------------------------------------------------------------------
(* Who leads and who waits: CommitProofs proves this part.                 *)

\* A worker leads the commit queue from its push until it leaves the loop, its
\* LogAndApply calls and its refills included.
LeadLabels == {"lead", "delay", "finishBatch", "refill", "manifestWait",
               "manifestIO", "manifestDone"}
Leading(w) == pc[w] \in LeadLabels
Waiting(w) == \E i \in DOMAIN commitQ : commitQ[i] = w

LeaderShape ==
  /\ \A v, w \in Workers : Leading(v) /\ Leading(w) => v = w
  /\ \A w \in Workers : Leading(w) => inProgress
  /\ \A w \in Workers : pc[w] \in {"lead", "delay"} => commitBatch = {}

\* Between compactions a worker has no request and nothing to release; its
\* request is queued only while it follows or leads.
RequestShape ==
  \A w \in Workers :
    /\ pc[w] \in {"idle", "backoff", "purge", "merge"} =>
         request[w] = "none" /\ w \notin released
    /\ pc[w] \in {"idle", "backoff", "purge"} => job[w] = NoJob
    /\ pc[w] = "commitDone" => request[w] # "queued"
    /\ Waiting(w) => w \notin commitBatch /\ w \notin released

CommitInv == LeaderShape /\ RequestShape /\ NoRequestForgotten

-----------------------------------------------------------------------------
(* What a thread has in its hands: HandProofs proves this part.            *)

\* A batch is in the hands of a thread only while it is in a refill's
\* LogAndApply, and only workers commit.
BatchShape ==
  /\ purpose[FG] # "commit"
  /\ \A t \in Threads :
       batch[t] # {} =>
         purpose[t] = "refill" /\ pc[t] \in {"manifestWait", "manifestIO", "manifestDone"}

\* The compactions of a commit edit that is not yet written hold their inputs.
ReleaseShape ==
  \A w \in Workers :
    /\ pc[w] \in {"manifestWait", "manifestIO"}
    /\ purpose[w] = "commit" /\ written[w] = "none"
    => commitBatch \cap released = {}

HandInv == BatchShape /\ ReleaseShape

\* Once background work is paused only the loader's cleanup is left.
PauseShape ==
  paused => AllIdle /\ pc[FG] \in {"idle", "purge"}
            /\ stage \in {"cleanup", "snapshot", "phase2"}

-----------------------------------------------------------------------------
(* Which files are where: FileProofs and RegistryProofs prove this part.   *)

\* The FIFO is in the order of generation, and a popped file is in one batch.
FifoShape ==
  /\ \A i, j \in DOMAIN pending : i < j => pending[i] < pending[j]
  /\ \A i \in DOMAIN pending : pending[i] < nextL0
  /\ \A t \in Threads : \A f \in batch[t] :
       f < nextL0 /\ \A i \in DOMAIN pending : f < pending[i]
  /\ \A s, t \in Threads : s # t => batch[s] \cap batch[t] = {}

\* A merge's outputs have numbers of their own.
OutputShape ==
  /\ \A w \in Workers : job[w].outputs \subseteq (NumL0 + 1)..(nextFile - 1)
  /\ \A v, w \in Workers : v # w => job[v].outputs \cap job[w].outputs = {}

\* Numbers that an installed Version has, or had and are not yet purged.
Seen == Current \cup obsolete \cup UNION {doomed[t] : t \in Threads}

\* A number not yet installed has never been seen; one about to be purged is no
\* longer current.
FreshShape ==
  /\ \A f \in Seen : f < nextFile /\ (f <= NumL0 => f < nextL0)
  /\ \A i \in DOMAIN pending : pending[i] \notin Seen
  /\ Seen \cap Uninstalled = {}
  /\ \A w \in Workers \ released : job[w].outputs \cap Seen = {}
  /\ \A t \in Threads : doomed[t] \cap Current = {}

FileInv ==
  /\ FifoShape /\ OutputShape /\ FreshShape
  /\ RegistryExact /\ OneLevelPerFile /\ InputsExclusive

-----------------------------------------------------------------------------
(* Which files hold whose entries: EntryProofs proves this part.           *)

\* A generated file holds its own entries; a merge that waits to be committed
\* has outputs, and each holds the entries of all its inputs.
OriginShape ==
  /\ \A f \in L0Files : origin[f] = {f}
  /\ \A w \in Workers : \A f \in job[w].inputs \cup job[w].lower : f < nextFile
  /\ \A w \in Workers :
       request[w] = "queued" /\ ~job[w].move =>
         /\ job[w].outputs # {}
         /\ \A f \in job[w].outputs, g \in job[w].inputs \cup job[w].lower :
              origin[g] \subseteq origin[f]

EntryInv == OriginShape /\ NoFileLost
=============================================================================
