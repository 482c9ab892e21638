-------------------------- MODULE ChangeQueue_proofs --------------------------
(***************************************************************************)
(* What ChangeQueue promises, for every number of workers, requests,       *)
(* attempts and faults.  The argument is about the revisions a worker saw  *)
(* when it claimed the row; the lease is nowhere used, it only spares work *)
(* that could not be published.                                            *)
(***************************************************************************)
EXTENDS ChangeQueue, TLAPS

\* An attempt is left as long as the work is not set aside, and work that is
\* set aside belongs to nobody.
AttemptInv ==
  /\ status # "failed" => attempts < MaxAttempts
  /\ holder # NoWorker => status # "failed"

\* While nothing was requested or published since a worker's claim, the reason
\* is the one it saw.
ReasonInv ==
  \A w \in Workers :
    pc[w] # "idle" /\ processed = base[w] /\ requested = claimed[w] => reason = why[w]

Inv == TypeOK /\ QueueInv /\ AttemptInv /\ ReasonInv

-------------------------------------------------------------------------------
(* The steps keep Inv                                                      *)

LEMMA InitInv == Init => Inv
<1> SUFFICES ASSUME Init PROVE Inv
  OBVIOUS
<1> USE QueueAssumption DEF Init
<1>1. TypeOK
  <2>1. /\ pc \in [Workers -> {"idle", "claimed", "loaded"}]
        /\ claimed \in [Workers -> 0..MaxRevision] /\ base \in [Workers -> 0..MaxRevision]
        /\ why \in [Workers -> Reasons \cup {"none"}]
    OBVIOUS
  <2>2. /\ full \in [Workers -> BOOLEAN] /\ loaded \in [Workers -> SUBSET Revisions]
        /\ evaluations \in [Revisions -> Nat]
    OBVIOUS
  <2>3. /\ requested \in 0..MaxRevision /\ processed \in 0..MaxRevision
        /\ events \subseteq Revisions /\ unprocessed \subseteq Revisions
        /\ attempts \in 0..MaxAttempts /\ faults \in 0..MaxFaults
    OBVIOUS
  <2>4. /\ reason \in Reasons \cup {"none"} /\ nextAttempt \in {"none", "later", "past"}
        /\ status \in {"idle", "processing", "failed"} /\ holder \in Workers \cup {NoWorker}
    OBVIOUS
  <2>5. booted \in BOOLEAN /\ live \in BOOLEAN
    OBVIOUS
  <2> HIDE DEF Init
  <2> QED
    BY <2>1, <2>2, <2>3, <2>4, <2>5 DEF TypeOK
<1>2. QueueInv /\ AttemptInv /\ ReasonInv
  BY DEF QueueInv, AttemptInv, ReasonInv, Pending
<1> QED
  BY <1>1, <1>2 DEF Inv

\* Requests only add revisions beyond those a worker can have seen.
LEMMA CaptureKeeps ==
  ASSUME Inv, Capture PROVE Inv'
<1> USE QueueAssumption DEF Capture, leaseVars, workerVars, workVars
<1>1. TypeOK'
  BY DEF Inv, TypeOK, Revisions
<1>2. QueueInv'
  BY DEF Inv, TypeOK, QueueInv, Pending, Revisions
<1>3. AttemptInv'
  BY DEF Inv, AttemptInv
<1>4. ReasonInv'
  BY DEF Inv, TypeOK, QueueInv, ReasonInv
<1> QED
  BY <1>1, <1>2, <1>3, <1>4 DEF Inv

LEMMA BumpKeeps ==
  ASSUME Inv, NEW r \in Reasons, NEW dueNow \in BOOLEAN, Bump(r, dueNow) PROVE Inv'
<1> USE QueueAssumption DEF Bump, eventVars, leaseVars, workerVars, workVars
<1>0. reason' \in Reasons
  BY DEF Inv, TypeOK, NewReason, Reasons
<1>1. TypeOK'
  BY <1>0 DEF Inv, TypeOK, Revisions
<1>2. QueueInv'
  BY DEF Inv, TypeOK, QueueInv, Pending, Revisions
<1>3. AttemptInv'
  BY DEF Inv, AttemptInv
<1>4. ReasonInv'
  BY DEF Inv, TypeOK, QueueInv, ReasonInv
<1> QED
  BY <1>1, <1>2, <1>3, <1>4 DEF Inv

\* A worker starts from the revisions of the row.
LEMMA ClaimKeeps ==
  ASSUME Inv, NEW w \in Workers, Claim(w) PROVE Inv'
<1> USE QueueAssumption DEF Claim, eventVars
<1>1. TypeOK'
  BY DEF Inv, TypeOK, Reasons
<1>2. QueueInv'
  <2>1. base'[w] < claimed'[w] /\ claimed'[w] <= requested /\ base'[w] <= processed
    BY DEF Inv, TypeOK, Due, Pending
  <2>2. pc'[w] = "claimed"
    BY DEF Inv, TypeOK
  <2>3. ASSUME NEW v \in Workers, v # w
        PROVE  pc'[v] = pc[v] /\ claimed'[v] = claimed[v] /\ base'[v] = base[v]
    BY <2>3 DEF Inv, TypeOK
  <2> QED
    BY <2>1, <2>2, <2>3 DEF Inv, QueueInv, Pending
<1>3. AttemptInv'
  BY DEF Inv, AttemptInv, Due
<1>4. ReasonInv'
  BY DEF Inv, TypeOK, ReasonInv
<1> QED
  BY <1>1, <1>2, <1>3, <1>4 DEF Inv

\* What a worker reads is what it will publish, if nobody is faster.
LEMMA LoadKeeps ==
  ASSUME Inv, NEW w \in Workers, Load(w) PROVE Inv'
<1> USE QueueAssumption DEF Load, rowVars, leaseVars, eventVars, workVars
<1>1. TypeOK'
  BY DEF Inv, TypeOK
<1>2. QueueInv'
  <2>1. processed = base[w] => loaded'[w] = {n \in events : base[w] < n /\ n <= claimed[w]}
    BY DEF Inv, TypeOK, QueueInv, Revisions
  <2>2. pc[w] # "idle"
    OBVIOUS
  <2>3. ASSUME NEW v \in Workers, v # w PROVE pc'[v] = pc[v] /\ loaded'[v] = loaded[v]
    BY <2>3 DEF Inv, TypeOK
  <2> QED
    BY <2>1, <2>2, <2>3 DEF Inv, QueueInv, Pending
<1>3. AttemptInv'
  BY DEF Inv, AttemptInv
<1>4. ReasonInv'
  BY DEF Inv, TypeOK, ReasonInv
<1> QED
  BY <1>1, <1>2, <1>3, <1>4 DEF Inv

\* A publication is what the log calls an advance.
LEMMA PublishReads ==
  ASSUME Inv, NEW w \in Workers, Publish(w)
  PROVE  /\ claimed[w] \in (processed + 1) .. requested /\ processed' = claimed[w]
         /\ loaded[w] = {n \in events : processed < n /\ n <= claimed[w]}
BY DEF Inv, TypeOK, QueueInv, Publish, MayPublish

LEMMA PublishKeeps ==
  ASSUME Inv, NEW w \in Workers, Publish(w) PROVE Inv'
<1>0. /\ processed' = claimed[w] /\ claimed[w] \in (processed + 1) .. requested
      /\ loaded[w] = {n \in events : processed < n /\ n <= claimed[w]}
  BY PublishReads
<1>1. processed < processed' /\ processed' <= requested /\ processed' \in 0..MaxRevision
  BY <1>0 DEF Inv, TypeOK
<1> USE QueueAssumption DEF Publish, workVars
<1>2. TypeOK'
  <2>1. evaluations' \in [Revisions -> Nat]
    BY DEF Inv, TypeOK
  <2>2. requested' \in 0..MaxRevision /\ events' \subseteq Revisions
        /\ unprocessed' \subseteq Revisions /\ reason' \in Reasons \cup {"none"}
    BY DEF Inv, TypeOK
  <2>3. attempts' \in 0..MaxAttempts /\ pc' \in [Workers -> {"idle", "claimed", "loaded"}]
    BY DEF Inv, TypeOK
  <2> QED
    BY <1>1, <2>1, <2>2, <2>3 DEF Inv, TypeOK
<1>3. ASSUME NEW v \in Workers, pc'[v] # "idle"
      PROVE  v # w /\ pc'[v] = pc[v] /\ base[v] < processed'
  BY <1>1, <1>3 DEF Inv, TypeOK, QueueInv
<1>4. QueueInv'
  <2>1. unprocessed' = {n \in events : n > processed'}
    <3>1. unprocessed = {n \in events : n > processed} /\ events \subseteq Nat
      BY DEF Inv, TypeOK, QueueInv, Revisions
    <3>2. unprocessed' = unprocessed \ loaded[w] /\ processed \in Int /\ claimed[w] \in Int
      BY DEF Inv, TypeOK
    <3> HIDE DEF Publish
    <3>3. ASSUME NEW n \in events PROVE n \in unprocessed' <=> n > processed'
      <4>1. n \in Int /\ processed' \in Int
        BY <1>1, <3>1
      <4>2. n \in unprocessed' <=> n > processed /\ ~(processed < n /\ n <= claimed[w])
        BY <1>0, <3>1, <3>2
      <4> QED
        BY <1>0, <1>1, <3>2, <4>1, <4>2
    <3>4. unprocessed' \subseteq events
      BY <3>1, <3>2
    <3> QED
      BY <3>3, <3>4
  <2>2. reason' # "none" => Pending'
    <3>1. reason = why[w] \/ requested # processed'
      BY <1>0 DEF MayPublish, Inv, ReasonInv
    <3> QED
      BY <1>1, <3>1 DEF Inv, TypeOK, Pending
  <2> QED
    BY <1>1, <1>3, <2>1, <2>2 DEF Inv, QueueInv, TypeOK
<1>5. ReasonInv'
  BY <1>3 DEF Inv, TypeOK, ReasonInv
<1>6. AttemptInv'
  BY DEF AttemptInv
<1> QED
  BY <1>2, <1>4, <1>5, <1>6 DEF Inv

\* The other steps touch neither revisions nor events.
LEMMA OthersKeep ==
  ASSUME Inv,
         \/ OperatorRetry \/ Lapse \/ BackoffEnds \/ UNCHANGED vars
         \/ \E w \in Workers : Reload(w) \/ GiveUp(w) \/ Fail(w) \/ Crash(w)
  PROVE  Inv'
<1> USE QueueAssumption DEF rowVars, leaseVars, eventVars, workVars, workerVars, vars
<1>0. /\ UNCHANGED <<requested, processed, reason, booted, eventVars, workVars, full, loaded>>
      /\ \A v \in Workers :
           pc'[v] # "idle" => pc[v] # "idle" /\ (pc'[v] = "loaded" => pc[v] = "loaded")
  BY DEF OperatorRetry, Lapse, BackoffEnds, Reload, GiveUp, Fail, Crash, Inv, TypeOK
<1> DEFINE Goal ==
      /\ status' \in {"idle", "processing", "failed"} /\ attempts' \in 0..MaxAttempts
      /\ nextAttempt' \in {"none", "later", "past"} /\ holder' \in Workers \cup {NoWorker}
      /\ live' \in BOOLEAN /\ pc' \in [Workers -> {"idle", "claimed", "loaded"}]
      /\ faults' \in 0..MaxFaults /\ AttemptInv'
<1>1. Goal
  <2>1. CASE OperatorRetry
    BY <2>1 DEF OperatorRetry, Inv, TypeOK, AttemptInv
  <2>2. CASE Lapse
    <3>1. faults' \in 0..MaxFaults
      BY <2>2 DEF Lapse, Inv, TypeOK
    <3> QED
      BY <2>2, <3>1 DEF Lapse, Inv, TypeOK, AttemptInv
  <2>3. CASE BackoffEnds \/ UNCHANGED vars
    BY <2>3 DEF BackoffEnds, Inv, TypeOK, AttemptInv
  <2>4. ASSUME NEW w \in Workers, Reload(w) \/ GiveUp(w) \/ Crash(w) PROVE Goal
    BY <2>4 DEF Reload, GiveUp, Crash, Inv, TypeOK, AttemptInv
  <2>5. ASSUME NEW w \in Workers, Fail(w) PROVE Goal
    <3>1. faults' \in 0..MaxFaults /\ pc' \in [Workers -> {"idle", "claimed", "loaded"}]
      BY <2>5 DEF Fail, Inv, TypeOK
    <3>2. CASE holder = w
      <4>1. attempts < MaxAttempts
        BY <3>2 DEF Inv, AttemptInv
      <4>2. /\ attempts' = attempts + 1 /\ holder' = NoWorker /\ live' = FALSE
            /\ status' = IF attempts' >= MaxAttempts THEN "failed" ELSE "idle"
            /\ nextAttempt' = IF attempts' >= MaxAttempts THEN "none" ELSE "later"
        BY <2>5, <3>2 DEF Fail
      <4>3. attempts \in 0..MaxAttempts
        BY DEF Inv, TypeOK
      <4>4. attempts' \in 0..MaxAttempts /\ (status' # "failed" => attempts' < MaxAttempts)
        BY <4>1, <4>2, <4>3
      <4>5. /\ status' \in {"idle", "processing", "failed"}
            /\ nextAttempt' \in {"none", "later", "past"}
        BY <4>2
      <4> QED
        BY <3>1, <4>2, <4>4, <4>5 DEF AttemptInv
    <3>3. CASE holder # w
      BY <2>5, <3>1, <3>3 DEF Fail, Inv, TypeOK, AttemptInv
    <3> QED
      BY <3>2, <3>3
  <2> QED
    BY <2>1, <2>2, <2>3, <2>4, <2>5
<1>2. TypeOK'
  BY <1>0, <1>1 DEF Inv, TypeOK
<1>3. QueueInv' /\ ReasonInv'
  BY <1>0 DEF Inv, QueueInv, ReasonInv, Pending
<1> QED
  BY <1>1, <1>2, <1>3 DEF Inv

LEMMA StepInv == Inv /\ [Next]_vars => Inv'
<1> SUFFICES ASSUME Inv, [Next]_vars PROVE Inv'
  OBVIOUS
<1>1. CASE RequestRebuild \/ RequestUpdateNow \/ EnqueueScheduled
  BY <1>1, BumpKeeps
  DEF RequestRebuild, RequestUpdateNow, EnqueueScheduled, Reasons, FullReasons
<1> QED
  BY <1>1, CaptureKeeps, ClaimKeeps, LoadKeeps, PublishKeeps, OthersKeep
  DEF Next, WorkerStep

LEMMA Inductive == Spec => []Inv
BY InitInv, StepInv, PTL DEF Spec

-------------------------------------------------------------------------------
(* The theorems                                                            *)

\* Every variable stays within its type; in particular the attempts at a
\* revision never exceed the bound after which the work is set aside.
THEOREM TypeCorrect == Spec => []TypeOK
BY Inductive, PTL DEF Inv

\* What a worker that may still publish has read is every event between the
\* revision it saw and the one it claimed (claim, load, lockForPublish).
THEOREM NothingIsSkipped == Spec => []QueueInv
BY Inductive, PTL DEF Inv

\* The queue implements the log: each event is evaluated by exactly one
\* published run, in the order of the revisions, whatever number of workers
\* overlap, fail, crash, lose their lease or repeat a run.
THEOREM Refinement == Spec => ImplementsLog
<1>1. Init => Log!Init
  BY DEF Init, Log!Init, Revisions
<1>2. Inv /\ [Next]_vars => [Log!Next]_(Log!vars)
  <2> SUFFICES ASSUME Inv, [Next]_vars PROVE Log!Next \/ UNCHANGED Log!vars
    OBVIOUS
  <2> USE DEF rowVars, leaseVars, eventVars, workVars, workerVars, Log!vars
  <2>1. CASE Capture
    BY <2>1 DEF Capture, Log!Next, Log!Append
  <2>2. ASSUME NEW r, NEW dueNow, Bump(r, dueNow) PROVE Log!Next
    BY <2>2 DEF Bump, Log!Next, Log!Append
  <2>3. ASSUME NEW w \in Workers, Publish(w) PROVE Log!Next
    <3>1. evaluations' = [n \in 1..MaxRevision |->
            IF n \in events /\ processed < n /\ n <= claimed[w]
              THEN evaluations[n] + 1 ELSE evaluations[n]]
      BY <2>3, PublishReads DEF Publish, Revisions
    <3> QED
      BY <2>3, <3>1, PublishReads DEF Publish, Log!Next, Log!Advance
  <2>4. CASE OperatorRetry \/ Lapse \/ BackoffEnds \/ UNCHANGED vars
    BY <2>4 DEF OperatorRetry, Lapse, BackoffEnds, vars
  <2>5. ASSUME NEW w \in Workers, Claim(w) \/ Load(w) \/ Reload(w) \/ GiveUp(w) \/ Fail(w) \/ Crash(w)
        PROVE  UNCHANGED Log!vars
    BY <2>5 DEF Claim, Load, Reload, GiveUp, Fail, Crash
  <2> QED
    BY <2>1, <2>2, <2>3, <2>4, <2>5
    DEF Next, WorkerStep, RequestRebuild, RequestUpdateNow, EnqueueScheduled
<1> QED
  BY <1>1, <1>2, Inductive, PTL DEF Spec, ImplementsLog, Log!Spec

\* A run that was claimed for everything evaluates everything.
FullInv == \A w \in Workers : pc[w] # "idle" /\ why[w] \in FullReasons => full[w]

LEMMA FullStep ==
  ASSUME TypeOK, FullInv, [Next]_vars PROVE FullInv'
<1> USE DEF rowVars, leaseVars, eventVars, workVars, workerVars, vars
<1>1. ASSUME UNCHANGED <<why, full>>, \A v \in Workers : pc'[v] # "idle" => pc[v] # "idle"
      PROVE  FullInv'
  BY <1>1 DEF FullInv
<1>2. ASSUME NEW w \in Workers, Claim(w) PROVE FullInv'
  BY <1>2 DEF Claim, TypeOK, FullInv
<1>3. ASSUME NEW w \in Workers, Load(w) PROVE FullInv'
  <2>1. \A v \in Workers : full[v] => full'[v]
    BY <1>3 DEF Load, TypeOK
  <2>2. UNCHANGED why /\ \A v \in Workers : pc'[v] # "idle" => pc[v] # "idle"
    BY <1>3 DEF Load, TypeOK
  <2> QED
    BY <2>1, <2>2 DEF FullInv
<1>4. ASSUME NEW w \in Workers, Publish(w) \/ GiveUp(w) \/ Reload(w) \/ Fail(w) \/ Crash(w)
      PROVE  FullInv'
  BY <1>1, <1>4 DEF Publish, GiveUp, Reload, Fail, Crash, TypeOK
<1> QED
  BY <1>1, <1>2, <1>3, <1>4
  DEF Next, WorkerStep, Capture, RequestRebuild, RequestUpdateNow, EnqueueScheduled, Bump,
    OperatorRetry, Lapse, BackoffEnds

\* A pending re-evaluation of everything ends with a published run that
\* evaluated everything, and in no other way (bump, completeInTx).
THEOREM FullEvaluation == Spec => FullIsNotDowngraded
<1>1. Init => FullInv
  BY DEF Init, FullInv
<1> DEFINE Ends(w) == pc[w] = "loaded" /\ full[w] /\ pc'[w] = "idle" /\ processed' = claimed[w]
<1>2. Inv /\ FullInv /\ [Next]_vars =>
        [(reason \in FullReasons /\ reason' \notin FullReasons) =>
           \E w \in Workers : /\ pc[w] = "loaded" /\ full[w] /\ pc'[w] = "idle"
                              /\ processed' = claimed[w]]_vars
  <2> SUFFICES ASSUME Inv, FullInv, [Next]_vars, reason \in FullReasons, reason' \notin FullReasons
               PROVE  \E w \in Workers : Ends(w)
    OBVIOUS
  <2>1. reason' # reason
    OBVIOUS
  <2>2. ASSUME NEW r, NEW dueNow, Bump(r, dueNow) PROVE FALSE
    BY <2>2 DEF Bump, NewReason, Inv, QueueInv, FullReasons
  <2>3. ASSUME NEW w \in Workers, Publish(w) PROVE Ends(w)
    <3>1. pc[w] = "loaded" /\ reason = why[w] /\ pc'[w] = "idle"
      BY <2>1, <2>3 DEF Publish, Inv, TypeOK
    <3>2. full[w] /\ processed' = claimed[w]
      BY <2>3, <3>1, PublishReads DEF FullInv
    <3> QED
      BY <3>1, <3>2
  <2> QED
    BY <2>1, <2>2, <2>3
    DEF Next, WorkerStep, Capture, RequestRebuild, RequestUpdateNow, EnqueueScheduled,
      OperatorRetry, Lapse, BackoffEnds, Claim, Load, GiveUp, Reload, Fail, Crash, rowVars, vars
<1> QED
  BY <1>1, <1>2, FullStep, Inductive, PTL DEF Spec, FullIsNotDowngraded, Inv

===============================================================================
