--------------------------- MODULE VirtualL0Window ---------------------------
(***************************************************************************)
(* The bounded window of visible virtual L0 files                          *)
(* (db/db_impl/db_impl_compaction_flush.cc, RefillVirtualL0WindowLocked).  *)
(*                                                                         *)
(* Generated files wait in a FIFO.  A refill moves files to L0 while the   *)
(* bytes counted as visible are below a target; it runs in the loader      *)
(* (EnqueueVirtualL0Files, RefillVirtualL0Window) and in the leader of the *)
(* commit queue, and LogAndApply releases the mutex in the middle of it.   *)
(***************************************************************************)
EXTENDS ManifestLog

\* The lambda `pressure': L0 file counts against the write-stall triggers, and
\* the pending compaction bytes, whose estimate the model leaves open.
Pressure(debt) ==
  LET l0 == Cardinality(version[0])
  IN  IF ~Backpressure THEN "kFree"
      ELSE IF (StopTrigger > 0 /\ l0 >= StopTrigger) \/ debt = "kStop" THEN "kStop"
      ELSE IF (SlowdownTrigger > 0 /\ l0 >= SlowdownTrigger) \/ debt = "kSlowdown"
      THEN "kSlowdown"
      ELSE "kFree"

Front(n) == {pending[i] : i \in 1..n}

\* Mutant: batches are limited by number only.
PopsNthAnySize(n, cap, remaining) == n <= Len(pending) /\ n <= cap

\* The inner loop reaches its n-th file: the first is popped whatever its
\* size, a further one only while it fits in what remains of the target.
PopsNth(n, cap, remaining) ==
  /\ n <= Len(pending) /\ n <= cap
  /\ \A i \in 2..n : Bytes[Front(i)] <= remaining
  /\ \A i \in 1..(n - 1) : Bytes[Front(i)] < remaining

\* Mutant: a slowdown does not shrink the batch.
BatchCapFull(p) == MaxRegisterBatch

\* batch_cap: under a slowdown a refill admits one file.
BatchCap(p) == IF p = "kSlowdown" THEN 1 ELSE MaxRegisterBatch

\* What the caller does with the status: the loader goes on to the next stage
\* or gives up, the leader finishes its batch with it.
RefillReturn(t, ok) ==
  IF t = FG
    THEN /\ Goto(t, "idle")
         /\ mutex' = None
         /\ stage' = IF ~ok THEN "failed"
                     ELSE IF stage = "drain" THEN "drainWait" ELSE stage
         /\ UNCHANGED commitOk
    ELSE /\ Goto(t, "finishBatch")
         /\ mutex' = t
         /\ commitOk' = ok
         /\ UNCHANGED stage

\* Entry of RefillVirtualL0WindowLocked with q in the FIFO: nothing to do when
\* it is empty; otherwise the target is read, once.
RefillEnter(t, q) ==
  IF q = <<>>
    THEN RefillReturn(t, TRUE) /\ UNCHANGED feed
    ELSE /\ Goto(t, "refill")
         /\ mutex' = t
         /\ feed' = [feed EXCEPT ![t] =
                       [target |-> IF TargetBytes > 0 THEN TargetBytes
                                   ELSE Bytes[{Head(q)}],
                        trickled |-> FALSE]]
         /\ UNCHANGED <<commitOk, stage>>

\* The outer loop admits: pop a batch, Register its descriptors, and only then
\* write the edit that adds its files to L0.
RefillAdmit(t) ==
  /\ pc[t] = "refill" /\ mutex = t
  /\ pending # <<>> /\ visible < feed[t].target /\ ~feed[t].trickled
  /\ \E debt \in DebtPressures :
       LET p   == Pressure(debt)
           cap == BatchCap(p)
           remaining == feed[t].target - visible
       IN  /\ p # "kStop"
           /\ feed' = [feed EXCEPT ![t].trickled = (p = "kSlowdown")]
           /\ \E n \in 1..Len(pending) :
                /\ PopsNth(n, cap, remaining)
                /\ ~PopsNth(n + 1, cap, remaining)
                /\ batch' = [batch EXCEPT ![t] = Front(n)]
                /\ pending' = SubSeq(pending, n + 1, Len(pending))
                /\ Register(Front(n))
  /\ LogAndApply(t, "refill")
  /\ UNCHANGED <<version, obsolete, doomed, visible, lost, commitVars, jobVars,
                 loaderVars, failures>>

\* The edit was installed: count the batch and go round the loop again.
RefillCount(t) ==
  /\ pc[t] = "manifestDone" /\ mutex = t
  /\ purpose[t] = "refill" /\ written[t] = "ok"
  /\ visible' = visible + Bytes[batch[t]]
  /\ batch' = [batch EXCEPT ![t] = {}]
  /\ Goto(t, "refill")
  /\ UNCHANGED <<mutex, asleep, manifestVars, versionVars, pending, feed, lost,
                 commitVars, jobVars, loaderVars, failures>>

\* The outer loop stops: FIFO empty, target reached, one file trickled, or the
\* stop conditions hold.
RefillStop(t) ==
  /\ pc[t] = "refill" /\ mutex = t
  /\ \/ pending = <<>>
     \/ visible >= feed[t].target
     \/ feed[t].trickled
     \/ \E debt \in DebtPressures : Pressure(debt) = "kStop"
  /\ RefillReturn(t, TRUE)
  /\ UNCHANGED <<asleep, manifestVars, versionVars, windowVars, released, request,
                 commitQ, inProgress, commitBatch, jobVars, nextL0, trigger,
                 drainRound, paused, failures>>

\* The edit was not installed: Remove the descriptors and return the error.
\* The popped files are neither in the FIFO nor in the tree any more.
RefillFail(t) ==
  /\ pc[t] = "manifestDone" /\ mutex = t
  /\ purpose[t] = "refill" /\ written[t] = "failed"
  /\ Remove(batch[t])
  /\ lost' = lost \cup batch[t]
  /\ batch' = [batch EXCEPT ![t] = {}]
  /\ RefillReturn(t, FALSE)
  /\ UNCHANGED <<asleep, manifestVars, version, obsolete, doomed, pending, visible, feed,
                 released, request, commitQ, inProgress, commitBatch, jobVars,
                 nextL0, trigger, drainRound, paused, failures>>

\* Mutant: all inputs that once were in L0 are taken for L0 inputs.
OnceL0InputsOf(W) == InputsOf(W) \cap L0Files

\* AccountVirtualL0CompactionLocked, for a batch of compactions: a saturating
\* subtraction of their L0 inputs (their outputs are never in L0).
L0InputsOf(W) == UNION {DeletedAt(w, 0) : w \in W}
Account(W) ==
  LET bytes == Bytes[L0InputsOf(W)]
  IN  visible' = IF bytes > visible THEN 0 ELSE visible - bytes
=============================================================================
