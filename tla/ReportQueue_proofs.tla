------------------------- MODULE ReportQueue_proofs -------------------------
(***************************************************************************)
(* Proofs about the report queue, for every set of jobs and invocations    *)
(* and every bound on attempts.                                            *)
(***************************************************************************)
EXTENDS ReportQueue, TLAPS

(***************************************************************************)
(* Claiming keeps the queue's invariant: the attempt given out is one more *)
(* than every attempt of that row a live invocation holds (ClaimJob).      *)
(***************************************************************************)
LEMMA ClaimKeepsInv ==
  ASSUME QueueInv, NEW w \in Workers, ClaimJob(w)
  PROVE  QueueInv'
<1> USE JobsAssumption, MaxAttemptsAssumption
<1>1. PICK j \in Claimable(w) :
        /\ status'  = [status EXCEPT ![j] = "running"]
        /\ lease'   = [lease EXCEPT ![j] = "held"]
        /\ attempt' = [attempt EXCEPT ![j] = @ + 1]
        /\ job'     = [job EXCEPT ![w] = j]
        /\ try'     = [try EXCEPT ![w] = attempt[j] + 1]
  BY DEF ClaimJob
<1>2. /\ pc[w] = "claim"
      /\ pc' = [pc EXCEPT ![w] = "generate"]
      /\ UNCHANGED <<key, objects, scope>>
  BY DEF ClaimJob
<1>3. j \in Jobs /\ attempt[j] < MaxAttempts /\ status[j] \in {"queued", "running"}
  BY <1>1 DEF Claimable, Stale
<1>4. TypeOK'
  BY <1>1, <1>2, <1>3 DEF QueueInv, TypeOK, Statuses, Working
<1>5. HoldsAttempt'
  BY <1>1, <1>2, <1>3 DEF QueueInv, TypeOK, HoldsAttempt, Statuses, Working
<1>6. OneOwnerPerAttempt'
  <2> SUFFICES ASSUME NEW u \in Workers, NEW v \in Workers, u # v,
                      pc'[u] \in Working, pc'[v] \in Working,
                      job'[u] = job'[v], try'[u] = try'[v]
               PROVE  FALSE
    BY DEF OneOwnerPerAttempt
  <2>1. CASE u # w /\ v # w
    BY <2>1, <1>1, <1>2 DEF QueueInv, TypeOK, OneOwnerPerAttempt
  <2>2. CASE u = w
    BY <2>2, <1>1, <1>2, <1>3 DEF QueueInv, TypeOK, HoldsAttempt
  <2>3. CASE v = w
    BY <2>3, <1>1, <1>2, <1>3 DEF QueueInv, TypeOK, HoldsAttempt
  <2>. QED
    BY <2>1, <2>2, <2>3
<1>7. FailedOnlyWhenSpent'
  BY <1>1, <1>3 DEF QueueInv, TypeOK, FailedOnlyWhenSpent
<1>. QED
  BY <1>4, <1>5, <1>6, <1>7 DEF QueueInv

(***************************************************************************)
(* A step that moves one invocation on, or ends it, without touching the   *)
(* rows keeps the queue's invariant.                                       *)
(***************************************************************************)
LEMMA MoveKeepsInv ==
  ASSUME QueueInv, NEW w \in Workers, UNCHANGED rows,
         objects' \subseteq Jobs \X (1 .. MaxAttempts),
         \/ EndCall(w)
         \/ pc[w] \in Working /\ \E point \in Working : Goto(w, point)
  PROVE  QueueInv'
<1> USE DEF QueueInv, rows
<1>1. TypeOK'
  <2>1. CASE EndCall(w)
    BY <2>1, MaxAttemptsAssumption DEF TypeOK, EndCall
  <2>2. ASSUME NEW point \in Working, Goto(w, point) PROVE TypeOK'
    BY <2>2 DEF TypeOK, Goto
  <2>. QED
    BY <2>1, <2>2
<1>2. HoldsAttempt'
  BY DEF TypeOK, HoldsAttempt, EndCall, Goto, Working
<1>3. OneOwnerPerAttempt'
  BY DEF TypeOK, OneOwnerPerAttempt, EndCall, Goto, Working
<1>4. FailedOnlyWhenSpent'
  BY DEF FailedOnlyWhenSpent
<1>. QED
  BY <1>1, <1>2, <1>3, <1>4

\* The path an invocation uploads to or deletes is a typed one (storageKey).
LEMMA PathTyped ==
  ASSUME QueueInv, NEW w \in Workers, pc[w] \in Working
  PROVE  ObjectPath(w) \in Jobs \X (1 .. MaxAttempts)
BY MaxAttemptsAssumption DEF QueueInv, TypeOK, HoldsAttempt, ObjectPath

(***************************************************************************)
(* The queue's inductive invariant holds: attempts are fencing tokens, and *)
(* a row fails only with its attempts spent.                               *)
(***************************************************************************)
THEOREM QueueCorrect == Spec => []QueueInv
<1> USE JobsAssumption, WorkersAssumption, MaxAttemptsAssumption
<1>1. Init => QueueInv
  BY DEF Init, QueueInv, TypeOK, Statuses, Working, HoldsAttempt,
         OneOwnerPerAttempt, FailedOnlyWhenSpent
<1>2. QueueInv /\ [Next]_vars => QueueInv'
  <2> SUFFICES ASSUME QueueInv, [Next]_vars
               PROVE  QueueInv'
    OBVIOUS
  <2>1. ASSUME NEW j \in Jobs, RequestReport(j) PROVE QueueInv'
    BY <2>1 DEF RequestReport, call, QueueInv, TypeOK, Statuses, HoldsAttempt,
                OneOwnerPerAttempt, FailedOnlyWhenSpent
  <2>2. ASSUME NEW j \in Jobs, LeaseExpires(j) PROVE QueueInv'
    BY <2>2 DEF LeaseExpires, call, QueueInv, TypeOK, HoldsAttempt,
                OneOwnerPerAttempt, FailedOnlyWhenSpent
  <2>3. ASSUME NEW w \in Workers, NEW orgs \in SUBSET Orgs, FailExhausted(w, orgs)
        PROVE  QueueInv'
    <3>1. PICK j \in Exhausted(orgs) :
            /\ status' = [status EXCEPT ![j] = "failed"]
            /\ lease'  = [lease EXCEPT ![j] = "null"]
      BY <2>3 DEF FailExhausted
    <3>2. UNCHANGED <<attempt, key, objects, call>>
      BY <2>3 DEF FailExhausted
    <3>3. j \in Jobs /\ attempt[j] >= MaxAttempts
      BY <3>1 DEF Exhausted
    <3>. QED
      BY <3>1, <3>2, <3>3 DEF call, QueueInv, TypeOK, Statuses, HoldsAttempt,
                              OneOwnerPerAttempt, FailedOnlyWhenSpent
  <2>4. ASSUME NEW w \in Workers, NEW orgs \in SUBSET Orgs, NothingExhausted(w, orgs)
        PROVE  QueueInv'
    BY <2>4 DEF NothingExhausted, rows, QueueInv, TypeOK, Working, HoldsAttempt,
                OneOwnerPerAttempt, FailedOnlyWhenSpent
  <2>5. ASSUME NEW w \in Workers, ClaimJob(w) PROVE QueueInv'
    BY <2>5, ClaimKeepsInv
  <2>6. ASSUME NEW w \in Workers, ClaimNothing(w) \/ Crash(w) PROVE QueueInv'
    <3>1. EndCall(w) /\ UNCHANGED <<rows, objects>>
      BY <2>6 DEF ClaimNothing, Crash
    <3>. QED
      BY <3>1, MoveKeepsInv DEF QueueInv, TypeOK
  <2>7. ASSUME NEW w \in Workers, GenerateArtifact(w) \/ RenewBeforePublish(w)
        PROVE  QueueInv'
    <3>1. /\ pc[w] \in Working
          /\ UNCHANGED <<rows, objects>>
          /\ \E point \in Working : Goto(w, point)
      BY <2>7 DEF GenerateArtifact, RenewBeforePublish, Renewal, Working
    <3>. QED
      BY <3>1, MoveKeepsInv DEF QueueInv, TypeOK
  <2>8. ASSUME NEW w \in Workers, PutArtifact(w) \/ DeleteArtifact(w)
        PROVE  QueueInv'
    <3>1. /\ pc[w] \in Working
          /\ UNCHANGED rows
          /\ \E point \in Working : Goto(w, point)
          /\ objects' \subseteq objects \cup {ObjectPath(w)}
      BY <2>8 DEF PutArtifact, DeleteArtifact, Working
    <3>2. objects' \subseteq Jobs \X (1 .. MaxAttempts)
      BY <3>1, PathTyped DEF QueueInv, TypeOK
    <3>. QED
      BY <3>1, <3>2, MoveKeepsInv
  <2>9. ASSUME NEW w \in Workers, PublishReport(w) PROVE QueueInv'
    <3>1. pc[w] \in Working /\ UNCHANGED objects
      BY <2>9 DEF PublishReport, Working
    <3>2. CASE UNCHANGED rows /\ Goto(w, "cleanup")
      BY <3>1, <3>2, MoveKeepsInv DEF QueueInv, TypeOK, Working
    <3>3. CASE LeaseHeld(w) /\ Publish(w) /\ (EndCall(w) \/ Goto(w, "cleanup"))
      <4>1. job[w] \in Jobs /\ try[w] \in 1 .. MaxAttempts
        BY <3>1 DEF QueueInv, TypeOK, HoldsAttempt
      <4>2. TypeOK'
        BY <3>1, <3>3, <4>1 DEF QueueInv, TypeOK, Publish, ObjectPath, EndCall, Goto,
                                Statuses, Working
      <4>3. HoldsAttempt'
        BY <3>1, <3>3, <4>1 DEF QueueInv, TypeOK, HoldsAttempt, Publish, EndCall, Goto,
                                Working
      <4>4. OneOwnerPerAttempt'
        BY <3>1, <3>3 DEF QueueInv, TypeOK, OneOwnerPerAttempt, EndCall, Goto, Working
      <4>5. FailedOnlyWhenSpent'
        BY <3>3, <4>1 DEF QueueInv, TypeOK, FailedOnlyWhenSpent, Publish
      <4>. QED
        BY <4>2, <4>3, <4>4, <4>5 DEF QueueInv
    <3>. QED
      BY <2>9, <3>2, <3>3 DEF PublishReport
  <2>10. ASSUME NEW w \in Workers, ReleaseJob(w) PROVE QueueInv'
    <3>1. /\ pc[w] \in Working
          /\ EndCall(w)
          /\ UNCHANGED <<attempt, key, objects>>
      BY <2>10 DEF ReleaseJob, Working
    <3>2. CASE UNCHANGED <<status, lease>>
      BY <3>1, <3>2, MoveKeepsInv DEF QueueInv, TypeOK, rows
    <3>3. CASE /\ OwnsRow(w)
               /\ status' = [status EXCEPT
                      ![job[w]] = IF RetryAllowed(w) THEN "queued" ELSE "failed"]
               /\ lease' = [lease EXCEPT ![job[w]] = "null"]
      <4>1. /\ job[w] \in Jobs
            /\ try[w] \in 1 .. MaxAttempts
            /\ attempt[job[w]] = try[w]
        BY <3>1, <3>3 DEF QueueInv, TypeOK, HoldsAttempt, OwnsRow
      <4>2. TypeOK'
        BY <3>1, <3>3, <4>1 DEF QueueInv, TypeOK, EndCall, Statuses, Working
      <4>3. HoldsAttempt'
        BY <3>1, <3>3, <4>1 DEF QueueInv, TypeOK, HoldsAttempt, EndCall, Working
      <4>4. OneOwnerPerAttempt'
        BY <3>1 DEF QueueInv, TypeOK, OneOwnerPerAttempt, EndCall, Working
      <4>5. FailedOnlyWhenSpent'
        BY <3>1, <3>3, <4>1 DEF QueueInv, TypeOK, FailedOnlyWhenSpent, RetryAllowed
      <4>. QED
        BY <4>2, <4>3, <4>4, <4>5 DEF QueueInv
    <3>. QED
      BY <2>10, <3>2, <3>3 DEF ReleaseJob
  <2>11. CASE UNCHANGED vars
    BY <2>11 DEF vars, QueueInv, TypeOK, HoldsAttempt, OneOwnerPerAttempt,
                 FailedOnlyWhenSpent
  <2>. QED
    BY <2>1, <2>2, <2>3, <2>4, <2>5, <2>6, <2>7, <2>8, <2>9, <2>10, <2>11
       DEF Next, CronPoll, ManualPoll, WorkerStep
<1>. QED
  BY <1>1, <1>2, PTL DEF Spec

(***************************************************************************)
(* Type correctness of the queue, its rows' CHECK (attempt_count between 0 *)
(* and 3) included.                                                        *)
(***************************************************************************)
THEOREM TypeCorrect == Spec => []TypeOK
BY QueueCorrect, PTL DEF QueueInv

(***************************************************************************)
(* No two live invocations ever hold the same attempt of a row.            *)
(***************************************************************************)
THEOREM FencingCorrect == Spec => []OneOwnerPerAttempt
BY QueueCorrect, PTL DEF QueueInv

(***************************************************************************)
(* A row is failed only with its attempts spent.                           *)
(***************************************************************************)
THEOREM FailureCorrect == Spec => []FailedOnlyWhenSpent
BY QueueCorrect, PTL DEF QueueInv

----------------------------------------------------------------------------
(***************************************************************************)
(* The object of a downloadable report stays: with no lost reply to the    *)
(* publishing commit, the only invocation that could delete the object of  *)
(* a published attempt is the one that published it, and it has ended.     *)
(***************************************************************************)
LEMMA ArtifactStep ==
  ASSUME "ackLost" \notin Faults, QueueInv, QueueInv', ArtifactInv, [Next]_vars
  PROVE  ArtifactInv'
<1> USE DEF QueueInv, ArtifactInv
<1>1. ASSUME NEW j \in Jobs, RequestReport(j) \/ LeaseExpires(j) PROVE ArtifactInv'
  <2>. QED
    BY <1>1 DEF RequestReport, LeaseExpires, call, TypeOK, DownloadHasObject,
                Downloadable, UploadStands, ObjectPath, PublishedUnheld, HoldsAttempt
<1>2. ASSUME NEW w \in Workers, NEW orgs \in SUBSET Orgs,
             FailExhausted(w, orgs) \/ NothingExhausted(w, orgs)
      PROVE  ArtifactInv'
  BY <1>2 DEF FailExhausted, NothingExhausted, Exhausted, Stale, call, rows, TypeOK,
              DownloadHasObject, Downloadable, UploadStands, ObjectPath,
              PublishedUnheld, HoldsAttempt, Working
<1>3. ASSUME NEW w \in Workers, ClaimJob(w) PROVE ArtifactInv'
  <2>1. PICK j \in Claimable(w) :
          /\ status'  = [status EXCEPT ![j] = "running"]
          /\ job'     = [job EXCEPT ![w] = j]
          /\ try'     = [try EXCEPT ![w] = attempt[j] + 1]
    BY <1>3 DEF ClaimJob
  <2>2. /\ pc' = [pc EXCEPT ![w] = "generate"]
        /\ UNCHANGED <<key, objects, scope>>
    BY <1>3 DEF ClaimJob
  <2>3. j \in Jobs
    BY <2>1 DEF Claimable
  <2>4. DownloadHasObject'
    BY <2>1, <2>2, <2>3 DEF TypeOK, DownloadHasObject, Downloadable
  <2>5. UploadStands'
    BY <2>1, <2>2, <2>3 DEF TypeOK, UploadStands, ObjectPath
  <2>6. PublishedUnheld'
    BY <2>1, <2>2, <2>3 DEF TypeOK, PublishedUnheld, HoldsAttempt
  <2>. QED
    BY <2>4, <2>5, <2>6
<1>4. ASSUME NEW w \in Workers, ClaimNothing(w) \/ Crash(w) PROVE ArtifactInv'
  BY <1>4 DEF ClaimNothing, Crash, EndCall, rows, TypeOK, DownloadHasObject,
              Downloadable, UploadStands, ObjectPath, PublishedUnheld, Working
<1>5. ASSUME NEW w \in Workers, GenerateArtifact(w) \/ RenewBeforePublish(w)
      PROVE  ArtifactInv'
  BY <1>5 DEF GenerateArtifact, RenewBeforePublish, Renewal, Goto, rows, TypeOK,
              DownloadHasObject, Downloadable, UploadStands, ObjectPath,
              PublishedUnheld, Working
<1>6. ASSUME NEW w \in Workers, PutArtifact(w) PROVE ArtifactInv'
  BY <1>6 DEF PutArtifact, Goto, rows, TypeOK, DownloadHasObject, Downloadable,
              UploadStands, ObjectPath, PublishedUnheld, Working
<1>7. ASSUME NEW w \in Workers, PublishReport(w) PROVE ArtifactInv'
  <2>1. pc[w] = "publish" /\ UNCHANGED objects
    BY <1>7 DEF PublishReport
  <2>2. CASE UNCHANGED rows /\ Goto(w, "cleanup")
    BY <2>1, <2>2 DEF Goto, rows, TypeOK, DownloadHasObject, Downloadable,
                      UploadStands, ObjectPath, PublishedUnheld, Working
  <2>3. CASE LeaseHeld(w) /\ Publish(w) /\ EndCall(w)
    <3>1. job[w] \in Jobs /\ ObjectPath(w) = <<job[w], try[w]>>
      BY <2>1 DEF HoldsAttempt, Working, ObjectPath
    <3>2. DownloadHasObject'
      BY <2>1, <2>3, <3>1 DEF Publish, TypeOK, DownloadHasObject, Downloadable,
                              UploadStands
    <3>3. UploadStands'
      BY <2>1, <2>3 DEF EndCall, TypeOK, UploadStands, ObjectPath
    <3>4. PublishedUnheld'
      <4> SUFFICES ASSUME NEW v \in Workers, pc'[v] \in Working,
                          status'[job'[v]] = "succeeded"
                   PROVE  key'[job'[v]] # try'[v]
        BY DEF PublishedUnheld
      <4>1. v # w /\ pc'[v] = pc[v] /\ job'[v] = job[v] /\ try'[v] = try[v]
        BY <2>3 DEF EndCall, TypeOK, Working
      <4>2. CASE job[v] = job[w]
        BY <2>1, <2>3, <3>1, <4>1, <4>2 DEF Publish, TypeOK, OneOwnerPerAttempt, Working
      <4>3. CASE job[v] # job[w]
        BY <2>3, <4>1, <4>3 DEF Publish, TypeOK, PublishedUnheld, HoldsAttempt
      <4>. QED
        BY <4>2, <4>3
    <3>. QED
      BY <3>2, <3>3, <3>4
  <2>. QED
    BY <1>7, <2>2, <2>3 DEF PublishReport
<1>8. ASSUME NEW w \in Workers, DeleteArtifact(w) PROVE ArtifactInv'
  <2>1. /\ pc[w] = "cleanup"
        /\ objects \ {ObjectPath(w)} \subseteq objects'
        /\ objects' \subseteq objects
        /\ Goto(w, "release")
        /\ UNCHANGED rows
    BY <1>8 DEF DeleteArtifact
  <2>2. DownloadHasObject'
    BY <2>1 DEF rows, DownloadHasObject, Downloadable, ObjectPath, PublishedUnheld,
                Working
  <2>3. UploadStands'
    <3> SUFFICES ASSUME NEW v \in Workers, pc'[v] \in {"renew", "publish"}
                 PROVE  ObjectPath(v)' \in objects'
      BY DEF UploadStands
    <3>1. v # w /\ pc'[v] = pc[v] /\ ObjectPath(v)' = ObjectPath(v)
      BY <2>1 DEF Goto, TypeOK, ObjectPath
    <3>2. ObjectPath(v) # ObjectPath(w)
      BY <2>1, <3>1 DEF OneOwnerPerAttempt, Working, ObjectPath
    <3>. QED
      BY <2>1, <3>1, <3>2 DEF UploadStands
  <2>4. PublishedUnheld'
    BY <2>1 DEF Goto, rows, TypeOK, PublishedUnheld, Working
  <2>. QED
    BY <2>2, <2>3, <2>4
<1>9. ASSUME NEW w \in Workers, ReleaseJob(w) PROVE ArtifactInv'
  <2>1. /\ pc[w] = "release"
        /\ EndCall(w)
        /\ UNCHANGED <<attempt, key, objects>>
        /\ \A j \in Jobs : status'[j] = "succeeded" => status[j] = "succeeded"
    BY <1>9 DEF ReleaseJob, TypeOK
  <2>. QED
    BY <2>1 DEF EndCall, TypeOK, DownloadHasObject, Downloadable, UploadStands,
                ObjectPath, PublishedUnheld, HoldsAttempt, Working
<1>10. CASE UNCHANGED vars
  BY <1>10 DEF vars, DownloadHasObject, Downloadable, UploadStands, ObjectPath,
               PublishedUnheld
<1>. QED
  BY <1>1, <1>2, <1>3, <1>4, <1>5, <1>6, <1>7, <1>8, <1>9, <1>10
     DEF Next, CronPoll, ManualPoll, WorkerStep

(***************************************************************************)
(* No invocation deletes the object of a published attempt, and what an    *)
(* invocation has uploaded stands until it publishes it, whatever other    *)
(* invocations crash, stall or wake up late.                               *)
(***************************************************************************)
THEOREM ArtifactCorrect ==
  ASSUME "ackLost" \notin Faults
  PROVE  Spec => []ArtifactInv
<1>1. Init => ArtifactInv
  BY DEF Init, ArtifactInv, DownloadHasObject, Downloadable, UploadStands,
         PublishedUnheld, Working
<1>2. QueueInv /\ QueueInv' /\ ArtifactInv /\ [Next]_vars => ArtifactInv'
  BY ArtifactStep
<1>. QED
  BY <1>1, <1>2, QueueCorrect, PTL DEF Spec

(***************************************************************************)
(* Every report the download route offers has its object.                  *)
(***************************************************************************)
THEOREM DownloadCorrect ==
  ASSUME "ackLost" \notin Faults
  PROVE  Spec => []DownloadHasObject
<1>1. ArtifactInv => DownloadHasObject
  BY DEF ArtifactInv
<1>. QED
  BY <1>1, ArtifactCorrect, PTL

----------------------------------------------------------------------------
(***************************************************************************)
(* A settled row is never changed: every statement of the worker that      *)
(* writes a row is fenced by its status.                                   *)
(***************************************************************************)
THEOREM SettledCorrect == Spec => SettledIsFinal
<1>1. QueueInv /\ [Next]_vars =>
        [\A j \in Jobs : status[j] \in Settled =>
           /\ status'[j] = status[j]
           /\ key'[j] = key[j]
           /\ attempt'[j] = attempt[j]]_rows
  <2> SUFFICES ASSUME QueueInv, [Next]_vars, NEW i \in Jobs, status[i] \in Settled
               PROVE  UNCHANGED <<status[i], key[i], attempt[i]>>
    OBVIOUS
  <2>1. ASSUME NEW j \in Jobs, RequestReport(j) \/ LeaseExpires(j)
        PROVE  UNCHANGED <<status[i], key[i], attempt[i]>>
    BY <2>1 DEF QueueInv, TypeOK, Settled, RequestReport, LeaseExpires
  <2>2. ASSUME NEW w \in Workers, NEW orgs \in SUBSET Orgs,
               FailExhausted(w, orgs) \/ NothingExhausted(w, orgs)
        PROVE  UNCHANGED <<status[i], key[i], attempt[i]>>
    BY <2>2 DEF QueueInv, TypeOK, Settled, FailExhausted, NothingExhausted,
                Exhausted, Stale, rows
  <2>3. ASSUME NEW w \in Workers, ClaimJob(w)
        PROVE  UNCHANGED <<status[i], key[i], attempt[i]>>
    BY <2>3 DEF QueueInv, TypeOK, Settled, ClaimJob, Claimable, Stale
  <2>4. ASSUME NEW w \in Workers, PublishReport(w)
        PROVE  UNCHANGED <<status[i], key[i], attempt[i]>>
    BY <2>4 DEF QueueInv, TypeOK, Settled, PublishReport, Publish, LeaseHeld,
                HoldsAttempt, Working, rows
  <2>5. ASSUME NEW w \in Workers, ReleaseJob(w)
        PROVE  UNCHANGED <<status[i], key[i], attempt[i]>>
    BY <2>5 DEF QueueInv, TypeOK, Settled, ReleaseJob, OwnsRow
  <2>6. ASSUME NEW w \in Workers,
               \/ ClaimNothing(w) \/ Crash(w)
               \/ GenerateArtifact(w) \/ PutArtifact(w)
               \/ RenewBeforePublish(w) \/ DeleteArtifact(w)
        PROVE  UNCHANGED <<status[i], key[i], attempt[i]>>
    BY <2>6 DEF ClaimNothing, Crash, GenerateArtifact, PutArtifact,
                RenewBeforePublish, DeleteArtifact, Renewal, rows
  <2>7. CASE UNCHANGED vars
    BY <2>7 DEF vars
  <2>. QED
    BY <2>1, <2>2, <2>3, <2>4, <2>5, <2>6, <2>7
       DEF Next, CronPoll, ManualPoll, WorkerStep
<1>. QED
  BY <1>1, QueueCorrect, PTL DEF Spec, SettledIsFinal

----------------------------------------------------------------------------
(***************************************************************************)
(* The queue keeps the promise of ReportPromise: claims are tries, the     *)
(* fenced publication is a delivery of the latest try, both ways of        *)
(* failing are give-ups with the tries spent, everything else stutters.    *)
(***************************************************************************)
LEMMA PromiseStep ==
  ASSUME QueueInv, [Next]_vars
  PROVE  [Promise!Next]_(Promise!vars)
<1>1. ASSUME NEW j \in Jobs, RequestReport(j) PROVE Promise!Request(j)
  BY <1>1 DEF RequestReport, Promise!Request, outcome, QueueInv, TypeOK
<1>2. ASSUME NEW j \in Jobs, LeaseExpires(j) PROVE UNCHANGED Promise!vars
  BY <1>2 DEF LeaseExpires, Promise!vars, outcome
<1>3. ASSUME NEW w \in Workers, NEW orgs \in SUBSET Orgs, FailExhausted(w, orgs)
      PROVE  \E j \in Jobs : Promise!GiveUp(j)
  <2>1. PICK j \in Exhausted(orgs) : status' = [status EXCEPT ![j] = "failed"]
    BY <1>3 DEF FailExhausted
  <2>2. j \in Jobs /\ status[j] = "running" /\ attempt[j] = MaxAttempts
    BY <2>1, MaxAttemptsAssumption DEF Exhausted, Stale, QueueInv, TypeOK
  <2>3. Promise!GiveUp(j)
    BY <1>3, <2>1, <2>2 DEF FailExhausted, Promise!GiveUp, outcome, QueueInv, TypeOK
  <2>. QED
    BY <2>2, <2>3
<1>4. ASSUME NEW w \in Workers, ClaimJob(w) PROVE \E j \in Jobs : Promise!Try(j)
  <2>1. PICK j \in Claimable(w) :
          /\ status'  = [status EXCEPT ![j] = "running"]
          /\ attempt' = [attempt EXCEPT ![j] = @ + 1]
    BY <1>4 DEF ClaimJob
  <2>2. j \in Jobs /\ attempt[j] < MaxAttempts /\ status[j] \in {"queued", "running"}
    BY <2>1 DEF Claimable, Stale
  <2>3. Promise!Try(j)
    BY <1>4, <2>1, <2>2 DEF ClaimJob, Promise!Try, outcome, QueueInv, TypeOK
  <2>. QED
    BY <2>2, <2>3
<1>5. ASSUME NEW w \in Workers, PublishReport(w)
      PROVE  (Promise!Deliver(job[w]) /\ job[w] \in Jobs) \/ UNCHANGED Promise!vars
  <2>1. CASE UNCHANGED rows
    BY <2>1 DEF rows, Promise!vars, outcome
  <2>2. CASE LeaseHeld(w) /\ Publish(w)
    <3>1. PICK j \in Jobs : j = job[w] /\ try[w] \in 1 .. MaxAttempts
      BY <1>5 DEF PublishReport, QueueInv, TypeOK, HoldsAttempt, Working
    <3>2. /\ status[j] = "running" /\ attempt[j] = try[w]
          /\ status' = [status EXCEPT ![j] = "succeeded"]
          /\ key' = [key EXCEPT ![j] = try[w]]
          /\ UNCHANGED attempt
      BY <2>2, <3>1 DEF LeaseHeld, Publish, ObjectPath
    <3>3. outcome[j] = "pending" /\ attempt[j] > 0
      BY <3>1, <3>2, MaxAttemptsAssumption DEF outcome
    <3>4. outcome' = [outcome EXCEPT ![j] = "succeeded"]
      BY <3>1, <3>2 DEF outcome, QueueInv, TypeOK
    <3>5. Promise!Deliver(j)
      BY <3>2, <3>3, <3>4 DEF Promise!Deliver
    <3>. QED
      BY <3>1, <3>5
  <2>. QED
    BY <1>5, <2>1, <2>2 DEF PublishReport
<1>6. ASSUME NEW w \in Workers, ReleaseJob(w)
      PROVE  (Promise!GiveUp(job[w]) /\ job[w] \in Jobs) \/ UNCHANGED Promise!vars
  <2>1. CASE ~OwnsRow(w)
    BY <1>6, <2>1 DEF ReleaseJob, Promise!vars, outcome
  <2>2. CASE OwnsRow(w)
    <3>1. PICK j \in Jobs : /\ j = job[w]
                            /\ try[w] \in 1 .. MaxAttempts
                            /\ attempt[j] = try[w]
                            /\ status[j] = "running"
      BY <1>6, <2>2 DEF ReleaseJob, OwnsRow, QueueInv, TypeOK, HoldsAttempt, Working
    <3>2. /\ status' = [status EXCEPT
                          ![j] = IF RetryAllowed(w) THEN "queued" ELSE "failed"]
          /\ UNCHANGED <<attempt, key>>
      BY <1>6, <2>2, <3>1 DEF ReleaseJob
    <3>3. CASE RetryAllowed(w)
      BY <3>1, <3>2, <3>3 DEF Promise!vars, outcome, QueueInv, TypeOK
    <3>4. CASE ~RetryAllowed(w)
      <4>1. attempt[j] = MaxAttempts
        BY <3>1, <3>4, MaxAttemptsAssumption DEF RetryAllowed
      <4>2. Promise!GiveUp(j)
        BY <3>1, <3>2, <3>4, <4>1 DEF Promise!GiveUp, outcome, QueueInv, TypeOK
      <4>. QED
        BY <3>1, <4>2
    <3>. QED
      BY <3>3, <3>4
  <2>. QED
    BY <2>1, <2>2
<1>7. ASSUME NEW w \in Workers,
             \/ \E orgs \in SUBSET Orgs : NothingExhausted(w, orgs)
             \/ ClaimNothing(w) \/ Crash(w)
             \/ GenerateArtifact(w) \/ PutArtifact(w)
             \/ RenewBeforePublish(w) \/ DeleteArtifact(w)
      PROVE  UNCHANGED Promise!vars
  BY <1>7 DEF NothingExhausted, ClaimNothing, Crash, GenerateArtifact, PutArtifact,
              RenewBeforePublish, DeleteArtifact, Renewal, rows, Promise!vars, outcome
<1>8. CASE UNCHANGED vars
  BY <1>8 DEF vars, Promise!vars, outcome
<1>. QED
  BY <1>1, <1>2, <1>3, <1>4, <1>5, <1>6, <1>7, <1>8
     DEF Next, CronPoll, ManualPoll, WorkerStep, Promise!Next

(***************************************************************************)
(* The queue implements the promise.                                       *)
(***************************************************************************)
THEOREM PromiseCorrect == Spec => PromiseKept
<1>1. Init => Promise!Init
  BY DEF Init, Promise!Init, outcome
<1>2. QueueInv /\ [Next]_vars => [Promise!Next]_(Promise!vars)
  BY PromiseStep
<1>. QED
  BY <1>1, <1>2, QueueCorrect, PTL DEF Spec, PromiseKept, Promise!Spec
----------------------------------------------------------------------------
(* What makes an object nobody's: neither published nor on its way.        *)
Published(o) == status[o[1]] = "succeeded" /\ key[o[1]] = o[2]
HeldBy(w, o) == pc[w] \in {"renew", "publish", "cleanup"} /\ ObjectPath(w) = o

LEMMA DebrisIs ==
  ASSUME NEW o
  PROVE  o \in Debris <=> o \in objects /\ ~Published(o) /\ \A w \in Workers : ~HeldBy(w, o)
BY DEF Debris, Published, HeldBy

(***************************************************************************)
(* A step that leaves every object of the store to whoever answered for it *)
(* before makes no debris.                                                 *)
(***************************************************************************)
LEMMA NoNewDebris ==
  ASSUME \A o \in objects' :
            \/ Published(o)'
            \/ \E w \in Workers : HeldBy(w, o)'
            \/ o \in objects /\ ~Published(o) /\ \A w \in Workers : ~HeldBy(w, o)
  PROVE  Debris' \subseteq Debris
BY DebrisIs DEF Debris, Published, HeldBy

LEMMA DebrisStep ==
  ASSUME QueueInv, [Next]_vars
  PROVE  \/ Debris' \subseteq Debris
         \/ \E w \in Workers : Crash(w) \/ (DeleteArtifact(w) /\ UNCHANGED objects)
<1> USE JobsAssumption, WorkersAssumption DEF QueueInv, TypeOK, ObjectPath
<1>1. ASSUME NEW j \in Jobs, RequestReport(j) \/ LeaseExpires(j) PROVE Debris' \subseteq Debris
  <2>1. SUFFICES ASSUME NEW o \in objects PROVE Published(o)' <=> Published(o)
    BY <1>1 DEF RequestReport, LeaseExpires, call, Debris, Published
  <2>2. o[1] \in Jobs
    OBVIOUS
  <2>. QED
    BY <1>1, <2>2 DEF RequestReport, LeaseExpires, Published
<1>2. ASSUME NEW w \in Workers, NEW orgs, FailExhausted(w, orgs) \/ NothingExhausted(w, orgs)
      PROVE  Debris' \subseteq Debris
  <2>1. CASE FailExhausted(w, orgs)
    <3>1. SUFFICES ASSUME NEW o \in objects PROVE Published(o)' <=> Published(o)
      BY <2>1 DEF FailExhausted, call, Debris, Published
    <3>2. o[1] \in Jobs
      OBVIOUS
    <3>. QED
      BY <2>1, <3>2 DEF FailExhausted, Exhausted, Stale, Published
  <2>2. CASE NothingExhausted(w, orgs)
    BY <2>2 DEF NothingExhausted, rows, Debris
  <2>. QED
    BY <1>2, <2>1, <2>2
<1>3. ASSUME NEW w \in Workers, ClaimJob(w) PROVE Debris' \subseteq Debris
  BY <1>3 DEF ClaimJob, Claimable, Stale, Debris
<1>4. ASSUME NEW w \in Workers, ClaimNothing(w) PROVE Debris' \subseteq Debris
  BY <1>4 DEF ClaimNothing, EndCall, rows, Debris
<1>5. ASSUME NEW w \in Workers, GenerateArtifact(w) \/ RenewBeforePublish(w)
      PROVE  Debris' \subseteq Debris
  BY <1>5 DEF GenerateArtifact, RenewBeforePublish, Renewal, Goto, rows, Debris
<1>6. ASSUME NEW w \in Workers, PutArtifact(w) PROVE Debris' \subseteq Debris
  BY <1>6 DEF PutArtifact, Goto, rows, Debris
<1>7. ASSUME NEW w \in Workers, PublishReport(w) PROVE Debris' \subseteq Debris
  <2>1. pc[w] = "publish" /\ job[w] \in Jobs /\ objects' = objects
    BY <1>7 DEF PublishReport, HoldsAttempt, Working
  <2>2. CASE LeaseHeld(w) /\ Publish(w) /\ (EndCall(w) \/ Goto(w, "cleanup"))
    <3>1. SUFFICES ASSUME NEW o \in objects
                   PROVE  \/ Published(o)'
                          \/ \E u \in Workers : HeldBy(u, o)'
                          \/ o \in objects /\ ~Published(o) /\ \A u \in Workers : ~HeldBy(u, o)
      BY <2>1, NoNewDebris
    <3>2. o = <<o[1], o[2]>> /\ o[1] \in Jobs
      OBVIOUS
    <3>3. CASE o = <<job[w], try[w]>>
      BY <2>1, <2>2, <3>2, <3>3 DEF Publish, Published
    <3>4. CASE o # <<job[w], try[w]>>
      <4>1. Published(o)' <=> (Published(o) \/ (o[1] = job[w] /\ o[2] = try[w]))
        BY <2>1, <2>2, <3>2 DEF LeaseHeld, Publish, Published
      <4>2. \A u \in Workers : HeldBy(u, o) => HeldBy(u, o)'
        BY <2>1, <2>2, <3>4 DEF HeldBy, EndCall, Goto
      <4>. QED
        BY <4>1, <4>2
    <3>. QED
      BY <3>3, <3>4
  <2>3. CASE UNCHANGED rows /\ Goto(w, "cleanup")
    BY <2>1, <2>3 DEF Goto, rows, Debris
  <2>. QED
    BY <1>7, <2>2, <2>3 DEF PublishReport
<1>8. ASSUME NEW w \in Workers, DeleteArtifact(w), ~UNCHANGED objects PROVE Debris' \subseteq Debris
  BY <1>8 DEF DeleteArtifact, Goto, rows, Debris
<1>9. ASSUME NEW w \in Workers, ReleaseJob(w) PROVE Debris' \subseteq Debris
  BY <1>9 DEF ReleaseJob, OwnsRow, EndCall, Debris, HoldsAttempt, Working
<1>10. CASE UNCHANGED vars
  BY <1>10 DEF vars, Debris
<1>. QED
  BY <1>1, <1>2, <1>3, <1>4, <1>5, <1>6, <1>7, <1>8, <1>9, <1>10 DEF Next, CronPoll, ManualPoll, WorkerStep

(***************************************************************************)
(* Only a crash or a failed delete leaves an object nobody publishes and   *)
(* nobody will delete (processNextReportJob's catch block).                *)
(***************************************************************************)
THEOREM DebrisCorrect == Spec => DebrisNeedsFailure
<1>1. QueueInv /\ [Next]_vars =>
        [ \/ Debris' \subseteq Debris
          \/ \E w \in Workers :
               Crash(w) \/ (DeleteArtifact(w) /\ UNCHANGED objects) ]_vars
  BY DebrisStep
<1>. QED
  BY <1>1, QueueCorrect, PTL DEF Spec, DebrisNeedsFailure
===============================================================================
