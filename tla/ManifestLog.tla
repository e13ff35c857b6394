----------------------------- MODULE ManifestLog -----------------------------
(***************************************************************************)
(* VersionSet::LogAndApply and ProcessManifestWrites (db/version_set.cc).  *)
(*                                                                         *)
(* Writers queue under the DB mutex.  The writer at the front takes every  *)
(* writer then queued into one group, builds the new Version, releases the *)
(* mutex for the MANIFEST write, takes it back, installs the Version, runs *)
(* the writers' callbacks and marks them done.  A follower learns of it    *)
(* only when it next gets the mutex.                                       *)
(*                                                                         *)
(* Two kinds of edit reach the MANIFEST during a load: a refill admits a   *)
(* batch of files to L0, a commit applies a set of compactions.            *)
(***************************************************************************)
EXTENDS LoadState

\* The edits of a writer.
Admits(t) == IF purpose[t] = "refill" THEN batch[t] ELSE {}
Commits(t) == IF purpose[t] = "commit" THEN commitBatch ELSE {}

\* Mutants: a compaction does not delete its inputs above the output level; a
\* trivial move does not add the files it deletes.
DeletedAtOutput(w, l) == {f \in job[w].lower : job[w].out = l}
AddedByMerge(w, l) == {f \in job[w].outputs : job[w].out = l}

\* DeleteFile and AddFile records of a compaction, by level: AddInputDeletions
\* and the outputs of a merge, or a move of the same numbers.
DeletedAt(w, l) ==
  {f \in job[w].inputs : job[w].level = l} \cup
  {f \in job[w].lower : job[w].out = l}
AddedAt(w, l) ==
  {f \in IF job[w].move THEN job[w].inputs ELSE job[w].outputs : job[w].out = l}

\* The writers whose edits are being written, and what the edits hold.
Group == {manifestQ[i] : i \in 1..ioLen}
GroupAdmits == UNION {Admits(t) : t \in Group}
GroupJobs == UNION {Commits(t) : t \in Group}

GroupDeletes(l) == UNION {DeletedAt(w, l) : w \in GroupJobs}
GroupAdds(l) ==
  {f \in GroupAdmits : l = 0} \cup UNION {AddedAt(w, l) : w \in GroupJobs}

\* VersionBuilder::SaveTo.  The edits of a group touch different files
\* (InputsExclusive), so the order in which they are applied does not matter.
Apply == [l \in Levels |-> (version[l] \ GroupDeletes(l)) \cup GroupAdds(l)]

Merges(W) == {w \in W : ~job[w].move}
InputsOf(W) == UNION {job[w].inputs \cup job[w].lower : w \in W}
OutputsOf(W) == UNION {job[w].outputs : w \in W}

\* LogAndApply up to where it lets go of the mutex: the only writer starts the
\* MANIFEST write, any other waits for its turn.
LogAndApply(t, why) ==
  /\ purpose' = [purpose EXCEPT ![t] = why]
  /\ written' = [written EXCEPT ![t] = "none"]
  /\ manifestQ' = Append(manifestQ, t)
  /\ mutex' = None
  /\ IF manifestQ = <<>>
       THEN /\ ioLen' = 1
            /\ Goto(t, "manifestIO")
            /\ UNCHANGED asleep
       ELSE /\ Goto(t, "manifestWait")
            /\ asleep' = asleep \cup {t}
            /\ UNCHANGED ioLen

\* The group of the writer at the front: the queue up to a writer that skips
\* the MANIFEST (SetOptions' dummy edit), which is never grouped.  The two early
\* returns of the grouping loop, for an edit that does not fit the Version, are
\* not reached: see InputsExclusive, OneLevelPerFile and RegistryExact.
GroupLen ==
  Cardinality({i \in DOMAIN manifestQ :
                 \A j \in 1..i : purpose[manifestQ[j]] # "options"})

\* A signalled writer gets the mutex: its edit was written by the leader of its
\* group, and it returns; or it is at the front, and leads the next group.
ManifestWake(t) ==
  /\ pc[t] = "manifestWait" /\ t \notin asleep /\ Free
  /\ purpose[t] # "options"
  /\ IF written[t] # "none"
       THEN mutex' = t /\ Goto(t, "manifestDone") /\ UNCHANGED ioLen
       ELSE /\ Head(manifestQ) = t
            /\ ioLen' = GroupLen
            /\ Goto(t, "manifestIO")
            /\ UNCHANGED mutex
  /\ UNCHANGED <<asleep, manifestQ, purpose, written, versionVars, windowVars,
                 commitVars, jobVars, loaderVars, failures>>

\* Mutant: the new front of the queue is not signalled.
DequeueSilently(t, status) ==
  /\ manifestQ' = SubSeq(manifestQ, ioLen + 1, Len(manifestQ))
  /\ ioLen' = 0
  /\ written' = [s \in Threads |-> IF s \in Group THEN status ELSE written[s]]
  /\ asleep' = asleep \ Group
  /\ mutex' = t
  /\ Goto(t, "manifestDone")
  /\ UNCHANGED purpose

\* Taking the group off the queue, with the status every writer of it gets:
\* the followers are signalled, and so is the new front.
Dequeue(t, status) ==
  LET rest == SubSeq(manifestQ, ioLen + 1, Len(manifestQ))
  IN  /\ manifestQ' = rest
      /\ ioLen' = 0
      /\ written' = [s \in Threads |-> IF s \in Group THEN status ELSE written[s]]
      /\ asleep' = (asleep \ Group) \ {rest[i] : i \in {1} \cap DOMAIN rest}
      /\ mutex' = t
      /\ Goto(t, "manifestDone")
      /\ UNCHANGED purpose

\* The MANIFEST write succeeded: install, and run the commit callbacks, which
\* publish the outputs, retire the inputs and release the compactions.
ManifestInstalled(t) ==
  /\ pc[t] = "manifestIO" /\ Free
  /\ version' = Apply
  /\ obsolete' = obsolete \cup InputsOf(GroupJobs)
  /\ Replace(OutputsOf(Merges(GroupJobs)) \cup InputsOf(GroupJobs \ Merges(GroupJobs)),
             InputsOf(Merges(GroupJobs)))
  /\ UNCHANGED doomed
  /\ released' = released \cup GroupJobs
  /\ Dequeue(t, "ok")
  /\ UNCHANGED <<windowVars, request, commitQ, inProgress, commitBatch, commitOk,
                 jobVars, loaderVars, failures>>

\* The MANIFEST write failed: no new Version, and the callbacks release the
\* compactions with the error.
ManifestFailed(t) ==
  /\ pc[t] = "manifestIO" /\ Free
  /\ failures < MaxFailures
  /\ failures' = failures + 1
  /\ released' = released \cup GroupJobs
  /\ Dequeue(t, "failed")
  /\ UNCHANGED <<versionVars, windowVars, request, commitQ, inProgress,
                 commitBatch, commitOk, jobVars, loaderVars>>
=============================================================================
