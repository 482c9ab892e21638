------------------------------ MODULE ChangeQueue ------------------------------
(***************************************************************************)
(* The queue of the change intelligence, for one merchant: the work row    *)
(* and the captured events (change-work-queue.service.ts, the trigger      *)
(* change_capture), and the workers that evaluate them                     *)
(* (change-processor.service.ts, change-publisher.service.ts).  The rows   *)
(* of two merchants never meet.                                            *)
(***************************************************************************)
EXTENDS Integers, FiniteSets

CONSTANTS
  Workers,       \* processes that run the worker
  NoWorker,
  MaxRevision,   \* bound on the requests of a behaviour
  MaxAttempts,   \* attempts before the work is set aside as failed
  Backlog,       \* more events than this make a run a reconciliation
  MaxFaults      \* failed runs, crashes and leases lost by a live worker

ASSUME QueueAssumption ==
  /\ NoWorker \notin Workers
  /\ MaxRevision \in Nat /\ MaxAttempts \in Nat \ {0}
  /\ Backlog \in Nat /\ MaxFaults \in Nat

VARIABLES
  requested,    \* requested_revision
  processed,    \* processed_revision
  events,       \* revisions that have an event, as the trigger wrote them
  unprocessed,  \* those of them whose event is still pending
  reason,       \* requested_reason
  booted,       \* bootstrap_status is completed
  status,       \* of the row
  attempts,
  nextAttempt,  \* next_attempt_at: none, to come, or passed
  holder,       \* whose lease token the row has
  live,         \* the lease has not run out
  pc,           \* what each worker does next
  claimed,      \* the revision it claimed
  base,         \* the processed revision it saw then
  why,          \* the requested reason it saw then
  full,         \* its run evaluates every product
  loaded,       \* the events it read
  evaluations,  \* how often published runs evaluated each event
  faults

rowVars    == <<requested, processed, reason, booted, status, attempts, nextAttempt>>
leaseVars  == <<holder, live>>
eventVars  == <<events, unprocessed, evaluations>>
workVars   == <<claimed, base, why>>
workerVars == <<pc, workVars, full, loaded>>
vars == <<rowVars, leaseVars, eventVars, workerVars, faults>>

Revisions   == 1..MaxRevision
FullReasons == {"model_upgrade", "settings_change", "reconciliation"}
Reasons     == FullReasons \cup {"source_change", "clock"}

TypeOK ==
  /\ requested \in 0..MaxRevision /\ processed \in 0..MaxRevision
  /\ events \subseteq Revisions /\ unprocessed \subseteq Revisions
  /\ reason \in Reasons \cup {"none"}
  /\ booted \in BOOLEAN
  /\ status \in {"idle", "processing", "failed"}
  /\ attempts \in 0..MaxAttempts
  /\ nextAttempt \in {"none", "later", "past"}
  /\ holder \in Workers \cup {NoWorker}
  /\ live \in BOOLEAN
  /\ pc \in [Workers -> {"idle", "claimed", "loaded"}]
  /\ claimed \in [Workers -> 0..MaxRevision]
  /\ base \in [Workers -> 0..MaxRevision]
  /\ why \in [Workers -> Reasons \cup {"none"}]
  /\ full \in [Workers -> BOOLEAN]
  /\ loaded \in [Workers -> SUBSET Revisions]
  /\ evaluations \in [Revisions -> Nat]
  /\ faults \in 0..MaxFaults

Init ==
  /\ requested = 0 /\ processed = 0
  /\ events = {} /\ unprocessed = {}
  /\ reason = "none" /\ booted = FALSE
  /\ status = "idle" /\ attempts = 0 /\ nextAttempt = "none"
  /\ holder = NoWorker /\ live = FALSE
  /\ pc = [w \in Workers |-> "idle"]
  /\ claimed = [w \in Workers |-> 0]
  /\ base = [w \in Workers |-> 0]
  /\ why = [w \in Workers |-> "none"]
  /\ full = [w \in Workers |-> FALSE]
  /\ loaded = [w \in Workers |-> {}]
  /\ evaluations = [n \in Revisions |-> 0]
  /\ faults = 0

Pending == requested > processed

-------------------------------------------------------------------------------
(* Requests                                                                *)

\* change_capture: the event and its revision, in the transaction of the
\* change.  The row stays locked until that commits, so that revisions become
\* visible in order.
Capture ==
  /\ requested < MaxRevision
  /\ requested' = requested + 1
  /\ events' = events \cup {requested'}
  /\ unprocessed' = unprocessed \cup {requested'}
  /\ UNCHANGED <<processed, reason, booted, status, attempts, nextAttempt, evaluations,
                 leaseVars, workerVars, faults>>

\* Mutant of NewReason: the last request wins.
LastReason(r) == r

\* The reason a request leaves: one for everything is not lost to one for less.
NewReason(r) ==
  IF Pending /\ reason \in FullReasons /\ r \notin FullReasons THEN reason ELSE r

\* bump; a request that is due now ends a backoff, but not a failure.
Bump(r, dueNow) ==
  /\ requested < MaxRevision
  /\ requested' = requested + 1
  /\ reason' = NewReason(r)
  /\ nextAttempt' = IF dueNow /\ status # "failed" THEN "none" ELSE nextAttempt
  /\ UNCHANGED <<processed, booted, status, attempts, eventVars, leaseVars, workerVars, faults>>

\* requestRebuild of an operator.
RequestRebuild == Bump("reconciliation", TRUE)

\* requestUpdateNow: nothing while a run is under way.
RequestUpdateNow ==
  /\ ~(status = "processing" /\ live)
  /\ Bump("source_change", TRUE)

\* enqueueScheduled: the deployed model or the settings differ from those of
\* the row, and that is not asked for yet; or the day is over and nothing is.
EnqueueScheduled ==
  /\ booted
  /\ \/ ~(Pending /\ reason = "model_upgrade") /\ Bump("model_upgrade", FALSE)
     \/ /\ ~(Pending /\ reason \in {"model_upgrade", "settings_change"})
        /\ Bump("settings_change", FALSE)
     \/ ~Pending /\ Bump("clock", FALSE)

\* operatorRetry, which leaves a live lease alone.
OperatorRetry ==
  /\ status = "failed" \/ nextAttempt # "none"
  /\ ~live
  /\ status' = "idle" /\ attempts' = 0 /\ nextAttempt' = "none"
  /\ UNCHANGED <<requested, processed, reason, booted, eventVars, leaseVars, workerVars, faults>>

-------------------------------------------------------------------------------
(* Workers                                                                 *)

\* Mutant of Due: a lease that ran out still bars the row.
DueIfUnheld ==
  Pending /\ status # "failed" /\ holder = NoWorker /\ nextAttempt # "later"

Due == Pending /\ status # "failed" /\ ~live /\ nextAttempt # "later"

\* claim: the row is locked and leased with a new token.
Claim(w) ==
  /\ pc[w] = "idle" /\ Due
  /\ status' = "processing" /\ holder' = w /\ live' = TRUE
  /\ pc' = [pc EXCEPT ![w] = "claimed"]
  /\ claimed' = [claimed EXCEPT ![w] = requested]
  /\ base' = [base EXCEPT ![w] = processed]
  /\ why' = [why EXCEPT ![w] = reason]
  /\ full' = [full EXCEPT ![w] = ~booted \/ reason \in FullReasons]
  /\ UNCHANGED <<requested, processed, reason, booted, attempts, nextAttempt, eventVars,
                 loaded, faults>>

\* Mutant of Load: it reads what is pending, up to whatever revision.
LoadAll(w) ==
  /\ pc[w] = "claimed"
  /\ pc' = [pc EXCEPT ![w] = "loaded"]
  /\ loaded' = [loaded EXCEPT ![w] = unprocessed]
  /\ full' = [full EXCEPT ![w] = @ \/ Cardinality(loaded'[w]) > Backlog]
  /\ UNCHANGED <<rowVars, leaseVars, eventVars, workVars, faults>>

\* load: the pending events up to the claimed revision, in one snapshot; a long
\* backlog makes the run a reconciliation (finalReason).
Load(w) ==
  /\ pc[w] = "claimed"
  /\ pc' = [pc EXCEPT ![w] = "loaded"]
  /\ loaded' = [loaded EXCEPT ![w] = {n \in unprocessed : n <= claimed[w]}]
  /\ full' = [full EXCEPT ![w] = @ \/ Cardinality(loaded'[w]) > Backlog]
  /\ UNCHANGED <<rowVars, leaseVars, eventVars, workVars, faults>>

\* A serialization failure undoes the publication; the run loads again.
Reload(w) ==
  /\ pc[w] = "loaded" /\ faults < MaxFaults
  /\ faults' = faults + 1
  /\ pc' = [pc EXCEPT ![w] = "claimed"]
  /\ UNCHANGED <<rowVars, leaseVars, eventVars, workVars, full, loaded>>

\* Mutant of MayPublish: the lease and the revision are not looked at again.
PublishAnyway(w) == TRUE

\* lockForPublish: the token is still the worker's, the lease live, and nobody
\* published since the claim.
MayPublish(w) == holder = w /\ live /\ processed = base[w]

\* publish and completeInTx, in one transaction.
Publish(w) ==
  /\ pc[w] = "loaded" /\ MayPublish(w)
  /\ pc' = [pc EXCEPT ![w] = "idle"]
  /\ unprocessed' = unprocessed \ loaded[w]
  /\ evaluations' = [n \in Revisions |->
       IF n \in loaded[w] THEN evaluations[n] + 1 ELSE evaluations[n]]
  /\ processed' = IF claimed[w] > processed THEN claimed[w] ELSE processed
  /\ reason' = IF reason = why[w] THEN "none" ELSE reason
  /\ booted' = TRUE
  /\ status' = "idle" /\ attempts' = 0 /\ nextAttempt' = "none"
  /\ holder' = NoWorker /\ live' = FALSE
  /\ UNCHANGED <<requested, events, workVars, full, loaded, faults>>

\* LeaseLostError, from the heartbeat's flag or from lockForPublish.
GiveUp(w) ==
  /\ pc[w] # "idle" /\ ~MayPublish(w)
  /\ pc' = [pc EXCEPT ![w] = "idle"]
  /\ UNCHANGED <<rowVars, leaseVars, eventVars, workVars, full, loaded, faults>>

\* Mutant of Fail: the attempts are counted and never exhausted.
FailAgain(w) ==
  /\ pc[w] # "idle" /\ faults < MaxFaults
  /\ faults' = faults + 1
  /\ pc' = [pc EXCEPT ![w] = "idle"]
  /\ attempts' = attempts + 1
  /\ status' = "idle" /\ nextAttempt' = "later"
  /\ holder' = NoWorker /\ live' = FALSE
  /\ UNCHANGED <<requested, processed, reason, booted, eventVars, workVars, full, loaded>>

\* fail, for any other error: the token alone must be the worker's.  The last
\* attempt sets the work aside, an earlier one delays it.
Fail(w) ==
  /\ pc[w] # "idle" /\ faults < MaxFaults
  /\ faults' = faults + 1
  /\ pc' = [pc EXCEPT ![w] = "idle"]
  /\ IF holder = w
       THEN /\ attempts' = attempts + 1
            /\ status' = IF attempts' >= MaxAttempts THEN "failed" ELSE "idle"
            /\ nextAttempt' = IF attempts' >= MaxAttempts THEN "none" ELSE "later"
            /\ holder' = NoWorker /\ live' = FALSE
       ELSE UNCHANGED <<attempts, status, nextAttempt, leaseVars>>
  /\ UNCHANGED <<requested, processed, reason, booted, eventVars, workVars, full, loaded>>

Crash(w) ==
  /\ pc[w] # "idle" /\ faults < MaxFaults
  /\ faults' = faults + 1
  /\ pc' = [pc EXCEPT ![w] = "idle"]
  /\ UNCHANGED <<rowVars, leaseVars, eventVars, workVars, full, loaded>>

WorkerStep(w) == Load(w) \/ Publish(w) \/ GiveUp(w)

-------------------------------------------------------------------------------
(* Time                                                                    *)

\* The lease runs out: of a worker that is gone, or of one whose renewals fail.
Lapse ==
  /\ live /\ live' = FALSE
  /\ IF pc[holder] = "idle" THEN UNCHANGED faults
     ELSE faults < MaxFaults /\ faults' = faults + 1
  /\ UNCHANGED <<rowVars, holder, eventVars, workerVars>>

BackoffEnds ==
  /\ nextAttempt = "later" /\ nextAttempt' = "past"
  /\ UNCHANGED <<requested, processed, reason, booted, status, attempts, leaseVars, eventVars,
                 workerVars, faults>>

Next ==
  \/ Capture \/ RequestRebuild \/ RequestUpdateNow \/ EnqueueScheduled \/ OperatorRetry
  \/ \E w \in Workers :
       Claim(w) \/ WorkerStep(w) \/ Reload(w) \/ Fail(w) \/ Crash(w)
  \/ Lapse \/ BackoffEnds

Spec == Init /\ [][Next]_vars

\* Fairness.  The hourly tick claims what is due, a run that started goes on,
\* the lease of a dead worker runs out, a backoff ends.
Fairness ==
  /\ WF_vars(\E w \in Workers : Claim(w))
  /\ \A w \in Workers : WF_vars(WorkerStep(w))
  /\ WF_vars(Lapse) /\ WF_vars(BackoffEnds)

FairSpec == Spec /\ Fairness

-------------------------------------------------------------------------------
(* Correctness                                                             *)

\* The queue implements the log: each captured event is evaluated by exactly
\* one published run, in order, though leases lapse, workers overlap and runs
\* are repeated (claim, load, lockForPublish, completeInTx).
Log == INSTANCE RevisionLog
  WITH length <- requested, changes <- events, position <- processed, handled <- evaluations

ImplementsLog == Log!Spec

\* Why: a worker that may still publish has read every event between the
\* revision it saw and the one it claimed, and nothing else is unprocessed.
\* It needs no lease: that nobody published since the claim is enough.
QueueInv ==
  /\ processed <= requested
  /\ \A n \in events : n <= requested
  /\ unprocessed = {n \in events : n > processed}
  /\ reason # "none" => Pending
  /\ \A w \in Workers : pc[w] # "idle" =>
       /\ base[w] < claimed[w] /\ claimed[w] <= requested /\ base[w] <= processed
       /\ pc[w] = "loaded" /\ processed = base[w] =>
            loaded[w] = {n \in events : base[w] < n /\ n <= claimed[w]}

\* A pending re-evaluation of everything is ended by nothing but a published
\* run that evaluated everything (bump, completeInTx).
FullIsNotDowngraded ==
  [][(reason \in FullReasons /\ reason' \notin FullReasons) =>
       \E w \in Workers : /\ pc[w] = "loaded" /\ full[w] /\ pc'[w] = "idle"
                          /\ processed' = claimed[w]]_vars

\* Every event is processed, unless the work fails so often that it is set
\* aside for an operator: no crash, lapse or overlap leaves it behind.
EveryEventIsProcessed ==
  \A n \in Revisions : n \in unprocessed ~> (n \notin unprocessed \/ status = "failed")

===============================================================================
