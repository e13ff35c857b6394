-------------------------- MODULE VirtualCompaction --------------------------
(***************************************************************************)
(* Background compaction of virtual SSTs: what the leveled picker may      *)
(* pick, RunVirtualCompaction, the virtual branch of PerformTrivialMove,   *)
(* and the purge of obsolete files after a failure.                        *)
(*                                                                         *)
(* Keys are left out, so the picker's choice among the idle files of a     *)
(* level, the files of the next level they overlap, and whether a pick is  *)
(* a trivial move, are left open; so is the score of a level above L0.     *)
(***************************************************************************)
EXTENDS CommitQueue

\* L0's score is at least 1: by number of files or by bytes.
L0Needs ==
  /\ Idle(0) # {}
  /\ \/ Cardinality(Idle(0)) >= trigger
     \/ Bytes[Idle(0)] >= BaseBytes

\* level0_compactions_in_progress_ is not empty.
L0Busy == \E v \in Workers \ released : job[v].level = 0 /\ job[v].inputs # {}

\* File numbers that are left when every running merge takes one: a bound of
\* the model, the code has 64 bits.
Room == MaxFile + 1 - nextFile - Cardinality({v \in Workers : pc[v] = "merge"})

\* The compaction in the job is one the picker may return.  L0 goes to the base
\* level, above which all levels are empty.
Pickable(j) ==
  /\ IF j.level = 0
       THEN L0Needs /\ ~L0Busy /\ \A l \in 1..(j.out - 1) : version[l] = {}
       ELSE j.out = j.level + 1
  /\ j.inputs # {} /\ j.inputs \subseteq Idle(j.level)
  /\ j.lower \subseteq Idle(j.out)
  /\ j.outputs = {}
  /\ IF j.move THEN j.lower = {} ELSE Room >= 1

Picks ==
  {j \in UNION {[level : {l}, out : 1..MaxLevel, inputs : SUBSET Idle(l),
                 lower : UNION {SUBSET version[k] : k \in 1..MaxLevel},
                 outputs : {{}}, move : BOOLEAN] : l \in 0..(MaxLevel - 1)} :
     Pickable(j)}

\* An input of the current Version has no descriptor: "current virtual SST
\* missing from registry".
MissingInput(w) ==
  /\ bgError' = TRUE
  /\ StopWork(w)
  /\ UNCHANGED <<mutex, asleep, job, commitQ, request, inProgress>>

\* BackgroundCompaction up to where it lets go of the mutex: a merge looks up
\* its inputs' descriptors and starts, a trivial move is pushed at once.
Pick(w) ==
  /\ pc[w] = "idle" /\ Free /\ ~paused /\ ~bgError
  /\ \E j \in Picks :
       IF ~AllVirtual(j.inputs \cup j.lower)
         THEN MissingInput(w)
         ELSE /\ job' = [job EXCEPT ![w] = j]
              /\ IF j.move
                   THEN Push(w)
                   ELSE /\ Goto(w, "merge")
                        /\ UNCHANGED <<mutex, asleep, commitQ, request, inProgress>>
              /\ UNCHANGED bgError
  /\ UNCHANGED <<manifestVars, versionVars, windowVars, released, commitBatch,
                 commitOk, nextFile, origin, loaderVars, failures>>

\* The merge, done without the mutex, succeeded: number the outputs and commit.
MergeDone(w) ==
  /\ pc[w] = "merge" /\ Free
  /\ \E k \in 1..MaxOutputs :
       /\ k <= Room + 1
       /\ job' = [job EXCEPT ![w].outputs = nextFile..(nextFile + k - 1)]
       /\ nextFile' = nextFile + k
       /\ origin' = [f \in Files |->
                       IF f \in nextFile..(nextFile + k - 1)
                         THEN UNION {origin[g] : g \in job[w].inputs \cup job[w].lower}
                         ELSE origin[f]]
  /\ Push(w)
  /\ UNCHANGED <<manifestVars, versionVars, windowVars, released, commitBatch,
                 commitOk, bgError, loaderVars, failures>>

\* Count overflow, or an empty or failed merge: release and return the error.
MergeFailed(w) ==
  /\ pc[w] = "merge" /\ Free
  /\ failures < MaxFailures
  /\ failures' = failures + 1
  /\ CompactionReturn(w, FALSE)
  /\ UNCHANGED <<asleep, manifestVars, versionVars, windowVars, commitQ, inProgress,
                 commitBatch, commitOk, nextFile, origin, loaderVars>>

-----------------------------------------------------------------------------
(* Obsolete files.                                                         *)

\* Mutant: the live files are not consulted.
FindObsoleteFilesBlindly(t) ==
  \E S \in SUBSET obsolete :
    /\ obsolete' = obsolete \ S
    /\ doomed' = [doomed EXCEPT ![t] = S]

\* FindObsoleteFiles, under the mutex: takes what no Version references any
\* more (a moved file's old metadata among it) and compares with the live files.
FindObsoleteFiles(t) ==
  \E S \in SUBSET obsolete :
    /\ obsolete' = obsolete \ S
    /\ doomed' = [doomed EXCEPT ![t] = S \ Current]

\* A failed compaction collects after its back-off.  (After a success the
\* collection is deferred to the end of the load.)
CollectAfterFailure(w) ==
  /\ pc[w] = "backoff" /\ Free
  /\ FindObsoleteFiles(w)
  /\ Goto(w, "purge")
  /\ UNCHANGED <<mutex, asleep, manifestVars, version, registryVars, windowVars,
                 commitVars, jobVars, loaderVars, failures>>

\* PurgeObsoleteFiles, without the mutex: forget the descriptors.
Purge(t) ==
  /\ pc[t] = "purge"
  /\ Consume(doomed[t])
  /\ doomed' = [doomed EXCEPT ![t] = {}]
  /\ Goto(t, "idle")
  /\ UNCHANGED <<mutex, asleep, manifestVars, version, obsolete, windowVars,
                 commitVars, jobVars, loaderVars, failures>>
=============================================================================
