----------------------------- MODULE CommitQueue -----------------------------
(***************************************************************************)
(* DBImpl::CommitVirtualCompactionEdit: group commit of virtual compaction *)
(* results (db/db_impl/db_impl_compaction_flush.cc).                       *)
(*                                                                         *)
(* The first worker to push a request while nobody leads becomes the       *)
(* leader.  It writes batch after batch until the queue is empty, and      *)
(* after each one accounts for the L0 files consumed and refills the       *)
(* window, all on behalf of the followers, who sleep on one condition      *)
(* variable.                                                               *)
(***************************************************************************)
EXTENDS VirtualL0Window

\* Threads blocked on virtual_compaction_commit_cv_.
CommitWaiters == {w \in asleep : pc[w] = "follow"}

\* Push the request of w.  Signal wakes some waiter, who will find its own
\* request not done and wait again.
Push(w) ==
  /\ commitQ' = Append(commitQ, w)
  /\ request' = [request EXCEPT ![w] = "queued"]
  /\ \E woken \in SUBSET CommitWaiters :
       /\ IF CommitWaiters = {} THEN woken = {} ELSE \E v \in woken : woken = {v}
       /\ asleep' = (asleep \ woken) \cup (IF inProgress THEN {w} ELSE {})
  /\ IF inProgress
       THEN Goto(w, "follow") /\ mutex' = None
       ELSE Goto(w, "lead") /\ mutex' = w
  /\ inProgress' = TRUE

\* while (!req.done) Wait(): woken too early.
FollowerWait(w) ==
  /\ pc[w] = "follow" /\ w \notin asleep /\ Free
  /\ request[w] = "queued"
  /\ asleep' = asleep \cup {w}
  /\ UNCHANGED <<mutex, pc, manifestVars, versionVars, windowVars, commitVars,
                 jobVars, loaderVars, failures>>

\* A short queue is given VCOMP_BG_COMMIT_DELAY_US to grow, without the mutex.
Delays == CommitDelay /\ Len(commitQ) < MaxCommitBatch

LeaderDelay(w) ==
  /\ pc[w] = "lead" /\ mutex = w /\ commitQ # <<>>
  /\ Delays
  /\ mutex' = None
  /\ Goto(w, "delay")
  /\ UNCHANGED <<asleep, manifestVars, versionVars, windowVars, commitVars,
                 jobVars, loaderVars, failures>>

\* Take a batch off the queue.  A request whose input is no longer in the
\* current Version is done, with nothing installed; the others form one edit
\* list.  An empty list goes straight on to the refill.
TakeBatch(w) ==
  LET n      == IF Len(commitQ) < MaxCommitBatch THEN Len(commitQ) ELSE MaxCommitBatch
      taken  == {commitQ[i] : i \in 1..n}
      commit == {v \in taken : InputsCurrent(v)}
      stale  == taken \ commit
  IN  /\ commitQ' = SubSeq(commitQ, n + 1, Len(commitQ))
      /\ commitBatch' = commit
      /\ request' = [v \in Workers |-> IF v \in stale THEN "ok" ELSE request[v]]
      /\ released' = released \cup stale
      /\ IF commit = {}
           THEN RefillEnter(w, pending) /\ UNCHANGED <<asleep, manifestVars>>
           ELSE /\ LogAndApply(w, "commit")
                /\ UNCHANGED <<feed, commitOk, stage>>
      /\ UNCHANGED <<versionVars, pending, visible, batch, lost, inProgress,
                     jobVars, nextL0, trigger, drainRound, paused, failures>>

LeaderBatch(w) ==
  /\ pc[w] = "lead" /\ mutex = w /\ commitQ # <<>>
  /\ ~Delays
  /\ TakeBatch(w)

\* Back from the delay; only the leader takes requests off the queue, so the
\* code's second test for an empty queue never succeeds.
LeaderWake(w) ==
  /\ pc[w] = "delay" /\ Free
  /\ TakeBatch(w)

\* LogAndApply succeeded: account for the L0 inputs, then refill.
CommitInstalled(w) ==
  /\ pc[w] = "manifestDone" /\ mutex = w
  /\ purpose[w] = "commit" /\ written[w] = "ok"
  /\ Account(commitBatch)
  /\ RefillEnter(w, pending)
  /\ UNCHANGED <<asleep, manifestVars, versionVars, pending, batch, lost, released,
                 request, commitQ, inProgress, commitBatch, jobVars, nextL0,
                 trigger, drainRound, paused, failures>>

\* LogAndApply failed: neither accounting nor refill.
CommitFailed(w) ==
  /\ pc[w] = "manifestDone" /\ mutex = w
  /\ purpose[w] = "commit" /\ written[w] = "failed"
  /\ commitOk' = FALSE
  /\ Goto(w, "finishBatch")
  /\ UNCHANGED <<mutex, asleep, manifestVars, versionVars, windowVars, released,
                 request, commitQ, inProgress, commitBatch, jobVars, loaderVars,
                 failures>>

\* Hand the status (of the commit, or else of the refill) to every request of
\* the batch and wake all waiters.
FinishBatch(w) ==
  /\ pc[w] = "finishBatch" /\ mutex = w
  /\ request' = [v \in Workers |-> IF v \notin commitBatch THEN request[v]
                                   ELSE IF commitOk THEN "ok" ELSE "failed"]
  /\ released' = released \cup commitBatch
  /\ commitBatch' = {}
  /\ commitOk' = TRUE
  /\ asleep' = asleep \ CommitWaiters
  /\ Goto(w, "lead")
  /\ UNCHANGED <<mutex, manifestVars, versionVars, windowVars, commitQ, inProgress,
                 jobVars, loaderVars, failures>>

\* Mutant: one batch, and the leadership ends.
LeaderExitEarly(w) ==
  /\ pc[w] = "lead" /\ mutex = w
  /\ commitBatch = {} /\ request[w] # "queued"
  /\ inProgress' = FALSE
  /\ asleep' = asleep \ CommitWaiters
  /\ Goto(w, "commitDone")
  /\ UNCHANGED <<mutex, manifestVars, versionVars, windowVars, released, request,
                 commitQ, commitBatch, commitOk, jobVars, loaderVars, failures>>

\* The queue is empty: stop leading.
LeaderExit(w) ==
  /\ pc[w] = "lead" /\ mutex = w /\ commitQ = <<>>
  /\ inProgress' = FALSE
  /\ asleep' = asleep \ CommitWaiters
  /\ Goto(w, "commitDone")
  /\ UNCHANGED <<mutex, manifestVars, versionVars, windowVars, released, request,
                 commitQ, commitBatch, commitOk, jobVars, loaderVars, failures>>

\* The compaction of w sets the error that stops all background work, backs off
\* and will purge.  A worker scheduled before the error and started after it
\* finds the work stopped, returns the error and backs off like w.  Its start
\* changes nothing else, so it is part of this step; later errors find no
\* worker scheduled.
StopWork(w) ==
  \E late \in SUBSET {v \in Workers : pc[v] = "idle"} :
    /\ bgError => late = {}
    /\ pc' = [t \in Threads |-> IF t \in late \cup {w} THEN "backoff" ELSE pc[t]]

\* The end of a background compaction (BackgroundCompaction's tail).
CompactionReturn(w, ok) ==
  /\ job' = [job EXCEPT ![w] = NoJob]
  /\ released' = released \ {w}
  /\ request' = [request EXCEPT ![w] = "none"]
  /\ bgError' = (bgError \/ ~ok)
  /\ IF ok THEN Goto(w, "idle") ELSE StopWork(w)
  /\ mutex' = None

\* CommitVirtualCompactionEdit returns, in the leader or in a follower that
\* finds its request done.
CommitReturn(w) ==
  /\ \/ pc[w] = "commitDone" /\ mutex = w
     \/ pc[w] = "follow" /\ w \notin asleep /\ Free /\ request[w] # "queued"
  /\ CompactionReturn(w, request[w] = "ok")
  /\ UNCHANGED <<asleep, manifestVars, versionVars, windowVars, commitQ, inProgress,
                 commitBatch, commitOk, nextFile, origin, loaderVars, failures>>
=============================================================================
