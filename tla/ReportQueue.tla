---------------------------- MODULE ReportQueue ----------------------------
(***************************************************************************)
(* The report queue: requestReportJob inserts rows into report_jobs, and   *)
(* invocations of processNextReportJob (the daily cron GET and the manual  *)
(* POST of the internal route) claim a row under a lease, build the        *)
(* artifact, upload it to the object store and publish its key.            *)
(*                                                                         *)
(* Every action is one transaction, or one call to the object store: the   *)
(* points between which another invocation can run, a lease can run out or *)
(* the process can die.  The rows the queries lock with SKIP LOCKED are    *)
(* locked by transactions that are one action here, so a skipped row is a  *)
(* row whose other transaction came first.                                 *)
(***************************************************************************)
EXTENDS Naturals

CONSTANTS
  Jobs,         \* report_jobs ids, numbered in the order of created_at
  Workers,      \* concurrent invocations of processNextReportJob
  CronWorkers,  \* the ones the cron route makes: they see every organization
  Orgs,
  OrgOf,        \* the organization of each job
  MaxAttempts,  \* REPORT_JOB_MAX_ATTEMPTS
  Faults        \* what the environment may do to an invocation

FaultKinds ==
  { "generation",    \* createReportArtifact throws
    "put",           \* the upload throws, nothing stored
    "putStored",     \* the upload throws although the object was stored
    "delete",        \* the swallowed delete of the catch block fails
    "database",      \* a statement throws and its transaction rolls back
    "ackLost",       \* the publishing transaction commits, the reply is lost
    "crash" }        \* the process dies

ASSUME JobsAssumption == Jobs \subseteq Nat \ {0}
ASSUME WorkersAssumption == CronWorkers \subseteq Workers
ASSUME OrgOfAssumption == OrgOf \in [Jobs -> Orgs]
ASSUME MaxAttemptsAssumption == MaxAttempts \in Nat \ {0}
ASSUME FaultsAssumption == Faults \subseteq FaultKinds

VARIABLES
  status,   \* report_jobs.status, "none" before the row is inserted
  attempt,  \* attempt_count
  lease,    \* lease_expires_at: null, in the future, or in the past
  key,      \* output_storage_key: the attempt its path names, 0 when null
  objects,  \* the object store: pairs <<job, attempt>>, one per path
  pc,       \* where each invocation stands
  scope,    \* the organizations its queries may see
  job,      \* the row it claimed, 0 when none
  try       \* the attempt_count it read back when it claimed

rows == <<status, attempt, lease, key>>
call == <<pc, scope, job, try>>
vars == <<status, attempt, lease, key, objects, pc, scope, job, try>>

Statuses == {"none", "queued", "running", "succeeded", "failed"}
Settled  == {"succeeded", "failed"}

\* An invocation that has claimed a row is at one of these points.
Working == {"generate", "put", "renew", "publish", "cleanup", "release"}

TypeOK ==
  /\ status  \in [Jobs -> Statuses]
  /\ attempt \in [Jobs -> 0 .. MaxAttempts]
  /\ lease   \in [Jobs -> {"null", "held", "expired"}]
  /\ key     \in [Jobs -> 0 .. MaxAttempts]
  /\ objects \subseteq Jobs \X (1 .. MaxAttempts)
  /\ pc      \in [Workers -> {"idle", "claim"} \cup Working]
  /\ scope   \in [Workers -> SUBSET Orgs]
  /\ job     \in [Workers -> Jobs \cup {0}]
  /\ try     \in [Workers -> 0 .. MaxAttempts]

Init ==
  /\ status  = [j \in Jobs |-> "none"]
  /\ attempt = [j \in Jobs |-> 0]
  /\ lease   = [j \in Jobs |-> "null"]
  /\ key     = [j \in Jobs |-> 0]
  /\ objects = {}
  /\ pc      = [w \in Workers |-> "idle"]
  /\ scope   = [w \in Workers |-> {}]
  /\ job     = [w \in Workers |-> 0]
  /\ try     = [w \in Workers |-> 0]

----------------------------------------------------------------------------
(* Requests and time.                                                      *)

\* requestReportJob: a row with its snapshot, created after every earlier one.
RequestReport(j) ==
  /\ status[j] = "none"
  /\ \A i \in Jobs : i < j => status[i] # "none"
  /\ status' = [status EXCEPT ![j] = "queued"]
  /\ UNCHANGED <<attempt, lease, key, objects, call>>

\* Two minutes pass without a renewal.
LeaseExpires(j) ==
  /\ status[j] = "running"
  /\ lease[j] = "held"
  /\ lease' = [lease EXCEPT ![j] = "expired"]
  /\ UNCHANGED <<status, attempt, key, objects, call>>

----------------------------------------------------------------------------
(* The two transactions that open an invocation.                           *)

Stale(j) == status[j] = "running" /\ lease[j] = "expired"

Exhausted(orgs) ==
  { j \in Jobs : Stale(j) /\ attempt[j] >= MaxAttempts /\ OrgOf[j] \in orgs }

\* The first transaction finds a spent row and fails it: the call ends there.
FailExhausted(w, orgs) ==
  /\ pc[w] = "idle"
  /\ \E j \in Exhausted(orgs) :
       /\ status' = [status EXCEPT ![j] = "failed"]
       /\ lease'  = [lease EXCEPT ![j] = "null"]
  /\ UNCHANGED <<attempt, key, objects, call>>

NothingExhausted(w, orgs) ==
  /\ pc[w] = "idle"
  /\ Exhausted(orgs) = {}
  /\ pc'    = [pc EXCEPT ![w] = "claim"]
  /\ scope' = [scope EXCEPT ![w] = orgs]
  /\ UNCHANGED <<rows, objects, job, try>>

\* The cron GET sees every organization, the manual POST its session's own.
CronPoll(w) ==
  w \in CronWorkers /\ (FailExhausted(w, Orgs) \/ NothingExhausted(w, Orgs))

ManualPoll(w) ==
  /\ w \notin CronWorkers
  /\ \E o \in Orgs : FailExhausted(w, {o}) \/ NothingExhausted(w, {o})

\* Mutant: a row left running by a dead invocation is never taken over.
Claimable_QueuedOnly(w) ==
  { j \in Jobs : /\ attempt[j] < MaxAttempts
                 /\ OrgOf[j] \in scope[w]
                 /\ status[j] = "queued" }

Claimable(w) ==
  { j \in Jobs : /\ attempt[j] < MaxAttempts
                 /\ OrgOf[j] \in scope[w]
                 /\ status[j] = "queued" \/ Stale(j) }

\* order by running first, then created_at.
Before(i, j) ==
  \/ status[i] = "running" /\ status[j] # "running"
  \/ (status[i] = "running" <=> status[j] = "running") /\ i < j

ClaimJob(w) ==
  /\ pc[w] = "claim"
  /\ \E j \in Claimable(w) :
       /\ \A i \in Claimable(w) : ~Before(i, j)
       /\ status'  = [status EXCEPT ![j] = "running"]
       /\ lease'   = [lease EXCEPT ![j] = "held"]
       /\ attempt' = [attempt EXCEPT ![j] = @ + 1]
       /\ job'     = [job EXCEPT ![w] = j]
       /\ try'     = [try EXCEPT ![w] = attempt[j] + 1]
  /\ pc' = [pc EXCEPT ![w] = "generate"]
  /\ UNCHANGED <<key, objects, scope>>

\* An invocation that ends forgets what it knew.
EndCall(w) ==
  /\ pc'    = [pc EXCEPT ![w] = "idle"]
  /\ scope' = [scope EXCEPT ![w] = {}]
  /\ job'   = [job EXCEPT ![w] = 0]
  /\ try'   = [try EXCEPT ![w] = 0]

ClaimNothing(w) ==
  /\ pc[w] = "claim"
  /\ Claimable(w) = {}
  /\ EndCall(w)
  /\ UNCHANGED <<rows, objects>>

----------------------------------------------------------------------------
(* The try block.                                                          *)

\* Mutant: renewals and publication match the row id and the lease only.
LeaseHeld_AnyAttempt(w) ==
  /\ status[job[w]] = "running"
  /\ lease[job[w]] = "held"

\* The fence of renewLease and of the publishing update.
LeaseHeld(w) ==
  /\ status[job[w]] = "running"
  /\ attempt[job[w]] = try[w]
  /\ lease[job[w]] = "held"

Goto(w, point) ==
  /\ pc' = [pc EXCEPT ![w] = point]
  /\ UNCHANGED <<scope, job, try>>

Renewal(w, next, onError) ==
  /\ UNCHANGED <<rows, objects>>
  /\ \/ LeaseHeld(w) /\ Goto(w, next)
     \/ (~LeaseHeld(w) \/ "database" \in Faults) /\ Goto(w, onError)

\* createReportArtifact, then renewLease: storageKey is still null on error.
GenerateArtifact(w) ==
  /\ pc[w] = "generate"
  /\ \/ Renewal(w, "put", "release")
     \/ /\ "generation" \in Faults
        /\ Goto(w, "release")
        /\ UNCHANGED <<rows, objects>>

\* Mutant: one path per job, shared by its attempts.
ObjectPath_PerJob(w) == <<job[w], 1>>

\* storageKey: the path names the attempt.
ObjectPath(w) == <<job[w], try[w]>>

\* putStimulusObject; the path is never overwritten (x-upsert: false).
PutArtifact(w) ==
  /\ pc[w] = "put"
  /\ \/ /\ objects' = objects \cup {ObjectPath(w)}
        /\ \/ Goto(w, "renew")
           \/ "putStored" \in Faults /\ Goto(w, "cleanup")
     \/ /\ "put" \in Faults
        /\ Goto(w, "cleanup")
        /\ UNCHANGED objects
  /\ UNCHANGED rows

\* The renewal between the upload and the publication.
RenewBeforePublish(w) ==
  /\ pc[w] = "renew"
  /\ Renewal(w, "publish", "cleanup")

\* The update that publishes: fenced by status, attempt and lease.
Publish(w) ==
  /\ status' = [status EXCEPT ![job[w]] = "succeeded"]
  /\ lease'  = [lease EXCEPT ![job[w]] = "null"]
  /\ key'    = [key EXCEPT ![job[w]] = ObjectPath(w)[2]]
  /\ UNCHANGED attempt

\* Mutant: an invocation that lost its lease leaves its upload behind.
PublishReport_NoCleanup(w) ==
  /\ pc[w] = "publish"
  /\ \/ LeaseHeld(w) /\ Publish(w) /\ EndCall(w)
     \/ ~LeaseHeld(w) /\ Goto(w, "release") /\ UNCHANGED rows
  /\ UNCHANGED objects

PublishReport(w) ==
  /\ pc[w] = "publish"
  /\ \/ /\ LeaseHeld(w)
        /\ Publish(w)
        /\ \/ EndCall(w)
           \/ "ackLost" \in Faults /\ Goto(w, "cleanup")
     \/ /\ ~LeaseHeld(w) \/ "database" \in Faults
        /\ Goto(w, "cleanup")
        /\ UNCHANGED rows
  /\ UNCHANGED objects

----------------------------------------------------------------------------
(* The catch block.                                                        *)

\* deleteStimulusObject(storageKey).catch(() => undefined)
DeleteArtifact(w) ==
  /\ pc[w] = "cleanup"
  /\ \/ objects' = objects \ {ObjectPath(w)}
     \/ "delete" \in Faults /\ UNCHANGED objects
  /\ Goto(w, "release")
  /\ UNCHANGED rows

\* The catch block's update is fenced by status and attempt, not by the lease.
OwnsRow(w) == status[job[w]] = "running" /\ attempt[job[w]] = try[w]

RetryAllowed(w) == try[w] < MaxAttempts

ReleaseJob(w) ==
  /\ pc[w] = "release"
  /\ \/ /\ OwnsRow(w)
        /\ status' = [status EXCEPT
                        ![job[w]] = IF RetryAllowed(w) THEN "queued" ELSE "failed"]
        /\ lease'  = [lease EXCEPT ![job[w]] = "null"]
     \/ /\ ~OwnsRow(w)
        /\ UNCHANGED <<status, lease>>
  /\ EndCall(w)
  /\ UNCHANGED <<attempt, key, objects>>

\* The process is killed, or the catch block's own transaction throws.
Crash(w) ==
  /\ "crash" \in Faults
  /\ pc[w] \in Working
  /\ EndCall(w)
  /\ UNCHANGED <<rows, objects>>

----------------------------------------------------------------------------
WorkerStep(w) ==
  \/ ClaimJob(w) \/ ClaimNothing(w)
  \/ GenerateArtifact(w) \/ PutArtifact(w) \/ RenewBeforePublish(w)
  \/ PublishReport(w)
  \/ DeleteArtifact(w) \/ ReleaseJob(w)
  \/ Crash(w)

Next ==
  \/ \E j \in Jobs : RequestReport(j) \/ LeaseExpires(j)
  \/ \E w \in Workers : CronPoll(w) \/ ManualPoll(w) \/ WorkerStep(w)

Spec == Init /\ [][Next]_vars

(***************************************************************************)
(* Fairness: the cron schedule keeps making invocations and the platform   *)
(* ends each one (maxDuration), so a cron invocation takes its steps or    *)
(* dies; and time passes.  Nothing is assumed of the manual invocations.   *)
(***************************************************************************)
Fairness ==
  /\ \A w \in CronWorkers : WF_vars(CronPoll(w)) /\ WF_vars(WorkerStep(w))
  /\ \A j \in Jobs : WF_vars(LeaseExpires(j))

FairSpec == Spec /\ Fairness

----------------------------------------------------------------------------
(* Properties.                                                             *)

(***************************************************************************)
(* No two live invocations work on the same attempt of the same row: a     *)
(* takeover counts as a new attempt, so the attempt is a fencing token     *)
(* (processNextReportJob's claim and every later where clause).            *)
(***************************************************************************)
OneOwnerPerAttempt ==
  \A v, w \in Workers :
    v # w /\ pc[v] \in Working /\ pc[w] \in Working
      => <<job[v], try[v]>> # <<job[w], try[w]>>

\* The rows the download route serves.
Downloadable == { j \in Jobs : status[j] = "succeeded" }

(***************************************************************************)
(* A report the download route offers has its object in the store: no      *)
(* late invocation of an earlier attempt removes or replaces it.  Holds as *)
(* long as no reply to a commit is lost.                                   *)
(***************************************************************************)
DownloadHasObject == \A j \in Downloadable : <<j, key[j]>> \in objects

(***************************************************************************)
(* A row is failed only when all its attempts are spent, by the catch      *)
(* block of the last one or by the LEASE_EXHAUSTED transaction.            *)
(***************************************************************************)
FailedOnlyWhenSpent ==
  \A j \in Jobs : status[j] = "failed" => attempt[j] = MaxAttempts

(***************************************************************************)
(* A settled row is never touched again, whichever invocation wakes up     *)
(* late: the status and key a user saw stay.                               *)
(***************************************************************************)
SettledIsFinal ==
  [][\A j \in Jobs : status[j] \in Settled =>
       /\ status'[j] = status[j]
       /\ key'[j] = key[j]
       /\ attempt'[j] = attempt[j]]_rows

(***************************************************************************)
(* An object nobody publishes and no live invocation will publish or       *)
(* delete: only a crash or a delete that failed leaves one behind, never a *)
(* lost lease, a failed upload or a refused publication.                   *)
(***************************************************************************)
Debris ==
  { o \in objects :
      /\ ~ (status[o[1]] = "succeeded" /\ key[o[1]] = o[2])
      /\ ~ \E w \in Workers :
             pc[w] \in {"renew", "publish", "cleanup"} /\ ObjectPath(w) = o }

DebrisNeedsFailure ==
  [][ \/ Debris' \subseteq Debris
      \/ \E w \in Workers :
           Crash(w) \/ (DeleteArtifact(w) /\ UNCHANGED objects) ]_vars

(***************************************************************************)
(* The inductive invariant behind the fencing: a live invocation holds an  *)
(* attempt that was really given out, and nobody else holds it.            *)
(***************************************************************************)
HoldsAttempt ==
  \A w \in Workers : pc[w] \in Working =>
    /\ job[w] \in Jobs
    /\ try[w] \in 1 .. attempt[job[w]]
    /\ status[job[w]] # "none"

QueueInv == TypeOK /\ HoldsAttempt /\ OneOwnerPerAttempt /\ FailedOnlyWhenSpent

(***************************************************************************)
(* Its extension to the object store: the object an invocation is about to *)
(* publish is there, and no live invocation holds the path of a published  *)
(* one, so none of them can delete it.                                     *)
(***************************************************************************)
UploadStands ==
  \A w \in Workers : pc[w] \in {"renew", "publish"} => ObjectPath(w) \in objects

PublishedUnheld ==
  \A w \in Workers :
    pc[w] \in Working /\ status[job[w]] = "succeeded" => key[job[w]] # try[w]

ArtifactInv == DownloadHasObject /\ UploadStands /\ PublishedUnheld

(***************************************************************************)
(* Every requested report settles: whatever invocations crash or stall,    *)
(* leases run out and attempts are bounded.                                *)
(***************************************************************************)
EveryReportSettles ==
  \A j \in Jobs : status[j] = "queued" ~> status[j] \in Settled

----------------------------------------------------------------------------
(* What a report promises its requester (module ReportPromise).            *)

outcome == [j \in Jobs |->
              IF status[j] \in {"queued", "running"} THEN "pending" ELSE status[j]]

Promise == INSTANCE ReportPromise WITH outcome <- outcome, tries <- attempt,
                                       published <- key

PromiseKept == Promise!Spec

=============================================================================
