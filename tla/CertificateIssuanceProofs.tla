--------------------- MODULE CertificateIssuanceProofs ---------------------
(***************************************************************************)
(* Proofs about CertificateIssuance, for every number of versions, jobs,   *)
(* workers, requests and renewal workers.                                  *)
(***************************************************************************)
EXTENDS CertificateIssuance, FiniteSetTheorems, TLAPS

(* EnsureIssuanceJob leaves well-formed job rows.                          *)
LEMMA EnsureTypes ==
    ASSUME TypeOK, NEW v \in Versions \cup {NullVersion}, NEW reason \in JobReasons,
           EnsureIssuanceJob(v, reason)
    PROVE  job' \in [Jobs -> JobRows]
<1> USE DEF TypeOK
<1>1. CASE UNCHANGED job
  BY <1>1
<1>2. ASSUME NEW j \in Jobs,
             job' = [job EXCEPT ![j] = NewJob(v, reason)]
      PROVE  job' \in [Jobs -> JobRows]
  BY <1>2 DEF JobRows, NewJob
<1> QED
  BY <1>1, <1>2 DEF EnsureIssuanceJob

(* Every status that a new version gives its certificate is a status.      *)
LEMMA StatusTypes ==
    ASSUME NEW reason \in IssuanceReasons
    PROVE  StatusForReason(reason) \in CertStatuses
  BY DEF StatusForReason, CertStatuses, IssuanceReasons

(* CreateIssuingVersion leaves well-formed rows.                           *)
LEMMA CreateTypes ==
    ASSUME TypeOK, NEW v \in Versions, NEW reason \in IssuanceReasons,
           CreateIssuingVersion(reason, v)
    PROVE  version' \in [Versions -> VersionRows] /\ certStatus' \in CertStatuses
<1>1. CASE UNCHANGED <<version, certStatus>>
  BY <1>1 DEF TypeOK
<1>2. CASE InsertVersion(reason, v)
  BY <1>2, StatusTypes DEF TypeOK, InsertVersion, VersionRows
<1> QED
  BY <1>1, <1>2 DEF CreateIssuingVersion

(* The sets of reasons nest.                                               *)
LEMMA ReasonsAreReasons ==
    /\ LifecycleReasons \subseteq IssuanceReasons
    /\ IssuanceReasons \subseteq JobReasons
    /\ {"revocation_retry", "dns_cleanup"} \subseteq JobReasons
    /\ "initial_issue" \in IssuanceReasons
    /\ "renewal" \in IssuanceReasons
  BY DEF LifecycleReasons, IssuanceReasons, JobReasons

(* API requests keep the types.                                            *)
LEMMA ApiTypes ==
    ASSUME TypeOK, ApiStep
    PROVE  TypeOK'
<1> USE ReasonsAreReasons
<1>1. CASE EnsureNew
  <2>1. version' \in [Versions -> VersionRows] /\ certStatus' \in CertStatuses
    BY <1>1, StatusTypes DEF EnsureNew, TypeOK, VersionRows
  <2>2. job' \in [Jobs -> JobRows]
    BY <1>1, EnsureTypes DEF EnsureNew
  <2> QED
    BY <1>1, <2>1, <2>2 DEF EnsureNew, TypeOK
<1>2. CASE EnsureExisting
  <2>1. PICK v \in Versions : /\ CreateIssuingVersion("initial_issue", v)
                              /\ EnsureIssuanceJob(v, "initial_issue")
    BY <1>2 DEF EnsureExisting
  <2>2. version' \in [Versions -> VersionRows] /\ certStatus' \in CertStatuses
    BY <2>1, CreateTypes
  <2>3. job' \in [Jobs -> JobRows]
    BY <2>1, EnsureTypes
  <2> QED
    BY <1>2, <2>2, <2>3 DEF EnsureExisting, TypeOK
<1>3. CASE UpdateCertificateEnabled
  BY <1>3 DEF UpdateCertificateEnabled, TypeOK, certVars
<1>4. ASSUME NEW v \in Versions, RevokeCertificateVersion(v)
      PROVE  TypeOK'
  <2>1. version' \in [Versions -> VersionRows]
    <3>1. [version[v] EXCEPT !.status = "revoked", !.acme = "pending"] \in VersionRows
      BY DEF TypeOK, VersionRows
    <3> QED
      BY <1>4, <3>1 DEF RevokeCertificateVersion, TypeOK
  <2>2. certStatus' \in CertStatuses
    BY <1>4 DEF RevokeCertificateVersion, TypeOK, StatusAfterRevoke, CertStatuses
  <2>3. job' \in [Jobs -> JobRows]
    BY <1>4, EnsureTypes DEF RevokeCertificateVersion
  <2> QED
    BY <1>4, <2>1, <2>2, <2>3 DEF RevokeCertificateVersion, TypeOK
<1>5. ASSUME NEW force \in BOOLEAN, DeleteCertificate(force)
      PROVE  TypeOK'
  <2>1. NoVersion \in VersionRows
    BY DEF NoVersion, VersionRows
  <2>2. NoJob \in JobRows
    BY DEF NoJob, JobRows, JobReasons
  <2> QED
    BY <1>5, <2>1, <2>2 DEF DeleteCertificate, TypeOK, CertStatuses
<1>6. ASSUME NEW c \in Clients, NEW reason \in LifecycleReasons,
             StartLifecycle(c, reason)
      PROVE  TypeOK'
  BY <1>6 DEF StartLifecycle, TypeOK, ClientStates, Issuing, Newest, certVars
<1>7. ASSUME NEW c \in Clients, FinishLifecycle(c)
      PROVE  TypeOK'
  <2>1. /\ client[c].reason \in LifecycleReasons
        /\ client[c].ver \in Versions \cup {NullVersion}
    BY DEF TypeOK, ClientStates
  <2>2. version' \in [Versions -> VersionRows] /\ certStatus' \in CertStatuses
    BY <1>7, <2>1, CreateTypes DEF FinishLifecycle, TypeOK
  <2>3. job' \in [Jobs -> JobRows]
    BY <1>7, <2>1, EnsureTypes DEF FinishLifecycle
  <2>4. client' \in [Clients -> ClientStates]
    BY <1>7 DEF FinishLifecycle, TypeOK, ClientStates, IdleClient, LifecycleReasons
  <2> QED
    BY <1>7, <2>2, <2>3, <2>4 DEF FinishLifecycle, TypeOK
<1>8. ASSUME NEW c \in Clients, AbandonLifecycle(c)
      PROVE  TypeOK'
  BY <1>8 DEF AbandonLifecycle, TypeOK, certVars, ClientStates, IdleClient, LifecycleReasons
<1> QED
  BY <1>1, <1>2, <1>3, <1>4, <1>5, <1>6, <1>7, <1>8 DEF ApiStep

(* A worker that moves on in its program stays a worker.                   *)
LEMMA MoveTypes ==
    ASSUME TypeOK, NEW w \in Workers, NEW retryable \in BOOLEAN,
           NEW pc \in HeldPCs \cup {"idle", "enqueue"}
    PROVE  /\ GoTo(w, pc) \in [Workers -> WorkerStates]
           /\ GoFail(w, retryable) \in [Workers -> WorkerStates]
           /\ Stay(w) \in [Workers -> WorkerStates]
<1>1. GoTo(w, pc) \in [Workers -> WorkerStates]
  BY DEF TypeOK, GoTo, WorkerStates
<1>2. GoFail(w, retryable) \in [Workers -> WorkerStates]
  BY DEF TypeOK, GoFail, WorkerStates, HeldPCs
<1>3. Stay(w) \in [Workers -> WorkerStates]
  BY DEF TypeOK, Stay, WorkerStates, Idle, JobReasons
<1> QED
  BY <1>1, <1>2, <1>3

(* So does one that goes round the loop of completeRevocationRetry.        *)
LEMMA LoopTypes ==
    ASSUME NEW s \in WorkerStates, NEW pc \in HeldPCs, NEW todo \in SUBSET Versions,
           NEW cur \in Versions \cup {NullVersion}
    PROVE  /\ [s EXCEPT !.pc = pc, !.todo = todo] \in WorkerStates
           /\ [s EXCEPT !.pc = pc, !.cur = cur] \in WorkerStates
<1>1. [s EXCEPT !.pc = pc, !.todo = todo] \in WorkerStates
  BY DEF WorkerStates
<1>2. [s EXCEPT !.pc = pc, !.cur = cur] \in WorkerStates
  BY DEF WorkerStates
<1> QED
  BY <1>1, <1>2

(* A worker that has recorded a revocation stays a worker.                 *)
LEMMA NextRevocationTypes ==
    ASSUME NEW s \in WorkerStates, NEW failed \in BOOLEAN
    PROVE  NextRevocation(s, failed) \in WorkerStates
<1>1. /\ s.todo \ {s.cur} \in SUBSET Versions
      /\ (s.bad \/ failed) \in BOOLEAN
  BY DEF WorkerStates
<1>2. ASSUME NEW todo \in SUBSET Versions, NEW bad \in BOOLEAN
      PROVE  [s EXCEPT !.pc = "revoke", !.cur = NullVersion, !.todo = todo, !.bad = bad]
                \in WorkerStates
  BY DEF WorkerStates, HeldPCs, WorkingPCs
<1> QED
  BY <1>1, <1>2 DEF NextRevocation

(* The program points of a worker that has a job.                          *)
LEMMA ProgramPoints ==
    /\ WorkingPCs \cup {"finish", "fail"} = HeldPCs
    /\ {"load", "prepare", "validating", "ordering", "store", "list", "revoke",
        "mark_ok", "mark_failed", "clean"} = WorkingPCs
  BY DEF HeldPCs, WorkingPCs

(* Every job row is well formed.                                           *)
LEMMA JobTypes ==
    ASSUME TypeOK, NEW j \in Jobs
    PROVE  job[j] \in JobRows
  BY DEF TypeOK

(* Ending, retrying or claiming a job keeps its row well formed.           *)
LEMMA RowTypes ==
    ASSUME NEW row \in JobRows
    PROVE  /\ \A s \in {"pending", "succeeded", "failed"} : Ended(row, s) \in JobRows
           /\ Retried(row) \in JobRows
           /\ \A w \in Workers : Claimed(row, w) \in JobRows
<1>1. \A s \in {"pending", "succeeded", "failed"} : Ended(row, s) \in JobRows
  BY DEF JobRows, Ended
<1>2. Retried(row) \in JobRows
  <2>1. Ended(row, "pending") \in JobRows
    BY <1>1
  <2> QED
    BY <2>1 DEF JobRows, Retried
<1>3. \A w \in Workers : Claimed(row, w) \in JobRows
  <2>1. ASSUME NEW w \in Workers, NEW n \in Nat
        PROVE  [row EXCEPT !.status = "running", !.attempt = n,
                           !.owner = LockName[w], !.live = TRUE] \in JobRows
    BY DEF JobRows
  <2>2. row.attempt \in Nat
    BY DEF JobRows
  <2>3. (IF row.status = "running" THEN row.attempt + 1 ELSE row.attempt) \in Nat
    BY <2>2
  <2> QED
    BY <2>1, <2>3 DEF Claimed
<1> QED
  BY <1>1, <1>2, <1>3

(* A change of status or of the remote revocation keeps a version row well *)
(* formed.                                                                 *)
LEMMA VersionTypes ==
    ASSUME TypeOK, NEW v
    PROVE  /\ \A s \in {"issuing", "valid", "failed", "revoked"} :
                 [version EXCEPT ![v].status = s] \in [Versions -> VersionRows]
           /\ \A s \in {"pending", "succeeded", "failed"} :
                 [version EXCEPT ![v].acme = s] \in [Versions -> VersionRows]
  BY DEF TypeOK, VersionRows

(* A claim keeps the types.                                                *)
LEMMA ClaimTypes ==
    ASSUME TypeOK, NEW w \in Workers, ClaimNextIssuanceJob(w)
    PROVE  TypeOK'
<1>1. PICK j \in Jobs :
         /\ job' = [job EXCEPT ![j] = Claimed(job[j], w)]
         /\ worker' = [worker EXCEPT ![w] = ClaimingWorker(j)]
  BY DEF ClaimNextIssuanceJob
<1>2. job' \in [Jobs -> JobRows]
  BY <1>1, JobTypes, RowTypes DEF TypeOK
<1>3. FirstPC(job[j].reason) \in {"clean", "list", "load"}
  BY DEF FirstPC
<1>4. ClaimingWorker(j) \in WorkerStates
  BY <1>3, JobTypes, ProgramPoints DEF ClaimingWorker, WorkerStates, Idle, JobRows
<1> QED
  BY <1>1, <1>2, <1>4 DEF ClaimNextIssuanceJob, TypeOK, certVars

(* The steps of a claimed job keep the types.                              *)
LEMMA WorkTypes ==
    ASSUME TypeOK, NEW w \in Workers, WorkStep(w)
    PROVE  TypeOK'
<1> USE MoveTypes, ProgramPoints
<1>1. CASE LoadVersion(w)
  <2>1. AfterLoad(version[worker[w].ver].status) \in {"finish", "prepare", "fail"}
    BY DEF AfterLoad
  <2> QED
    BY <1>1, <2>1 DEF LoadVersion, TypeOK, certVars
<1>2. CASE PrepareIssuingVersion(w)
  BY <1>2 DEF PrepareIssuingVersion, TypeOK, certVars
<1>3. CASE UpdateCertificateIssuanceStatus(w)
  BY <1>3 DEF UpdateCertificateIssuanceStatus, TypeOK, CertStatuses
<1>4. CASE StoreMaterial(w)
  <2>1. worker' \in [Workers -> WorkerStates]
    <3>1. worker' = GoFail(w, FALSE) \/ worker' = GoTo(w, "finish")
      BY <1>4 DEF StoreMaterial
    <3>2. "finish" \in HeldPCs
      BY DEF HeldPCs
    <3>3. GoTo(w, "finish") \in [Workers -> WorkerStates]
      BY <3>2, MoveTypes
    <3>4. GoFail(w, FALSE) \in [Workers -> WorkerStates]
      BY MoveTypes
    <3> QED
      BY <3>1, <3>3, <3>4
  <2>2. version' \in [Versions -> VersionRows]
    <3>1. [version EXCEPT ![worker[w].ver].status = "valid"] \in [Versions -> VersionRows]
      BY VersionTypes
    <3> QED
      BY <1>4, <3>1 DEF StoreMaterial, TypeOK
  <2> QED
    BY <1>4, <2>1, <2>2 DEF StoreMaterial, TypeOK, CertStatuses
<1>5. ASSUME NEW retryable \in BOOLEAN, StepFails(w, retryable)
      PROVE  TypeOK'
  BY <1>5 DEF StepFails, TypeOK, certVars
<1>6. CASE CleanupPendingChallenges(w)
  BY <1>6 DEF CleanupPendingChallenges, TypeOK, certVars
<1>7. CASE ListRevoked(w)
  <2>1. worker' \in [Workers -> WorkerStates]
    <3>1. RevocationsDue \in SUBSET Versions
      BY DEF RevocationsDue
    <3>2. [worker[w] EXCEPT !.pc = "revoke", !.todo = RevocationsDue] \in WorkerStates
      <4>1. worker[w] \in WorkerStates
        BY DEF TypeOK
      <4>2. "revoke" \in HeldPCs
        BY ProgramPoints
      <4> QED
        BY <3>1, <4>1, <4>2, LoopTypes
    <3> QED
      BY <1>7, <3>2 DEF ListRevoked, TypeOK
  <2> QED
    BY <1>7, <2>1 DEF ListRevoked, TypeOK, certVars
<1>8. ASSUME NEW v \in Versions, RevokeCertificate(w, v)
      PROVE  TypeOK'
  <2>1. worker' \in [Workers -> WorkerStates]
    <3>1. worker[w] \in WorkerStates
      BY DEF TypeOK
    <3>2. [worker[w] EXCEPT !.pc = "mark_ok", !.cur = v] \in WorkerStates
      BY <3>1, LoopTypes, ProgramPoints
    <3>3. [worker[w] EXCEPT !.pc = "mark_failed", !.cur = v] \in WorkerStates
      BY <3>1, LoopTypes, ProgramPoints
    <3> QED
      BY <1>8, <3>2, <3>3 DEF RevokeCertificate, Answered, TypeOK
  <2> QED
    BY <1>8, <2>1 DEF RevokeCertificate, TypeOK, certVars
<1>9. CASE MarkACMERevocation(w)
  <2>1. worker' \in [Workers -> WorkerStates]
    <3>1. worker[w] \in WorkerStates
      BY DEF TypeOK
    <3>2. \A failed \in BOOLEAN : NextRevocation(worker[w], failed) \in WorkerStates
      BY <3>1, NextRevocationTypes
    <3>3. \A v : (worker[w].pc = "mark_failed" \/ ~(version[v].status # "none")) \in BOOLEAN
      OBVIOUS
    <3> QED
      BY <1>9, <3>2, <3>3 DEF MarkACMERevocation, TypeOK
  <2>2. version' \in [Versions -> VersionRows]
    BY <1>9, VersionTypes DEF MarkACMERevocation, TypeOK, MarkOutcome
  <2> QED
    BY <1>9, <2>1, <2>2 DEF MarkACMERevocation, TypeOK, certVars
<1>10. CASE RevocationsDone(w)
  BY <1>10 DEF RevocationsDone, TypeOK, certVars
<1>11. CASE SucceedIssuanceJob(w)
  <2>1. job' \in [Jobs -> JobRows]
    BY <1>11, JobTypes, RowTypes DEF SucceedIssuanceJob, TypeOK
  <2>2. worker' \in [Workers -> WorkerStates]
    BY <1>11 DEF SucceedIssuanceJob
  <2> QED
    BY <1>11, <2>1, <2>2 DEF SucceedIssuanceJob, TypeOK, certVars
<1>12. CASE EnqueueCleanup(w)
  <2>1. job' \in [Jobs -> JobRows]
    BY <1>12, EnsureTypes DEF EnqueueCleanup, JobReasons, TypeOK
  <2> QED
    BY <1>12, <2>1 DEF EnqueueCleanup, TypeOK, certVars
<1>13. CASE FailIssuanceJob(w)
  <2>1. worker' \in [Workers -> WorkerStates]
    BY <1>13 DEF FailIssuanceJob
  <2>2. job' \in [Jobs -> JobRows]
    BY <1>13, JobTypes, RowTypes DEF FailIssuanceJob, RetryJob, GiveUpJob, TypeOK
  <2>3. version' \in [Versions -> VersionRows] /\ certStatus' \in CertStatuses
    <3>1. [version EXCEPT ![job[worker[w].job].ver].status = "failed"]
            \in [Versions -> VersionRows]
      BY VersionTypes
    <3> QED
      BY <1>13, <3>1 DEF FailIssuanceJob, FailVersion, TypeOK, CertStatuses
  <2> QED
    BY <1>13, <2>1, <2>2, <2>3 DEF FailIssuanceJob, TypeOK
<1>14. CASE StopAfterLostLease(w)
  BY <1>14 DEF StopAfterLostLease, TypeOK, certVars
<1> QED
  BY <1>1, <1>2, <1>3, <1>4, <1>5, <1>6, <1>7, <1>8, <1>9, <1>10, <1>11, <1>12,
     <1>13, <1>14 DEF WorkStep

(* Faults keep the types.                                                  *)
LEMMA FaultTypes ==
    ASSUME TypeOK, FaultStep
    PROVE  TypeOK'
<1>1. ASSUME NEW w \in Workers, HeartbeatFails(w)
      PROVE  TypeOK'
  BY <1>1 DEF HeartbeatFails, TypeOK, certVars
<1>2. ASSUME NEW w \in Workers, Crash(w)
      PROVE  TypeOK'
  BY <1>2, MoveTypes DEF Crash, TypeOK, certVars
<1>3. ASSUME NEW j \in Jobs, LeaseExpires(j)
      PROVE  TypeOK'
  BY <1>3 DEF LeaseExpires, TypeOK, JobRows, certVars
<1> QED
  BY <1>1, <1>2, <1>3 DEF FaultStep

(* Renewal workers keep the types.                                         *)
LEMMA RenewTypes ==
    ASSUME TypeOK, NEW r \in Renewers, RenewStep(r)
    PROVE  TypeOK'
<1>1. CASE ListRenewalCandidates(r)
  BY <1>1 DEF ListRenewalCandidates, TypeOK, RenewerStates, certVars
<1>2. CASE CreateRenewal(r)
  <2>1. PICK v \in Versions :
         /\ CreateIssuingVersion("renewal", v)
         /\ renewer' = [renewer EXCEPT ![r] =
                          IF version'[v].reason = "renewal"
                          THEN [pc |-> "enqueue", ver |-> v] ELSE IdleRenewer]
    BY <1>2 DEF CreateRenewal
  <2>2. version' \in [Versions -> VersionRows] /\ certStatus' \in CertStatuses
    BY <2>1, CreateTypes, ReasonsAreReasons
  <2>3. renewer' \in [Renewers -> RenewerStates]
    BY <2>1 DEF TypeOK, RenewerStates, IdleRenewer
  <2> QED
    BY <1>2, <2>2, <2>3 DEF CreateRenewal, TypeOK
<1>3. CASE EnqueueRenewal(r)
  <2>1. job' \in [Jobs -> JobRows]
    BY <1>3, EnsureTypes, ReasonsAreReasons DEF EnqueueRenewal, TypeOK, RenewerStates
  <2> QED
    BY <1>3, <2>1 DEF EnqueueRenewal, TypeOK, RenewerStates, IdleRenewer, certVars
<1>4. CASE RenewerStops(r)
  BY <1>4 DEF RenewerStops, TypeOK, RenewerStates, IdleRenewer, certVars
<1> QED
  BY <1>1, <1>2, <1>3, <1>4 DEF RenewStep

(* The initial state is well typed.                                        *)
LEMMA InitTypes == Init => TypeOK
  BY DEF Init, TypeOK, CertStatuses, VersionRows, NoVersion, JobRows, NoJob, JobReasons,
         WorkerStates, Idle, ClientStates, IdleClient, LifecycleReasons, RenewerStates,
         IdleRenewer

(* Every step keeps the types.                                             *)
LEMMA StepTypes == TypeOK /\ [Next]_vars => TypeOK'
<1> SUFFICES ASSUME TypeOK, [Next]_vars
             PROVE  TypeOK'
  OBVIOUS
<1>1. CASE ApiStep
  BY <1>1, ApiTypes
<1>2. ASSUME NEW w \in Workers, ClaimNextIssuanceJob(w) \/ WorkStep(w)
      PROVE  TypeOK'
  BY <1>2, ClaimTypes, WorkTypes
<1>3. CASE FaultStep
  BY <1>3, FaultTypes
<1>4. ASSUME NEW r \in Renewers, RenewStep(r)
      PROVE  TypeOK'
  BY <1>4, RenewTypes
<1>5. ASSUME NEW v \in Versions, TimePasses(v)
      PROVE  TypeOK'
  BY <1>5 DEF TimePasses, TypeOK, certVars
<1>6. CASE UNCHANGED vars
  BY <1>6 DEF vars, certVars, TypeOK
<1> QED
  BY <1>1, <1>2, <1>3, <1>4, <1>5, <1>6 DEF Next

(* The variables keep the types that the comments beside them give.        *)
THEOREM TypeCorrect == Spec => []TypeOK
  BY InitTypes, StepTypes, PTL DEF Spec

----------------------------------------------------------------------------
(* A worker that claims a job does not find a namesake still at work on it. *)
(* Worker ids are unique within a replica and the same on every replica,   *)
(* so this leaves out the one take-over in which the fence, which compares *)
(* names, cannot tell the new holder of a lease from the old one.          *)
NamesakesApart ==
    \A w, u \in Workers :
        w # u /\ LockName[w] = LockName[u] /\ worker[w].pc # "idle" /\ worker[u].pc # "idle"
            => worker[w].job # worker[u].job

(* Worker ids that tell the workers of all replicas apart, or one replica. *)
DistinctNames == \A w, u \in Workers : LockName[w] = LockName[u] => w = u

IssuingPCs == {"prepare", "validating", "ordering", "store"}
RevokingPCs == {"list", "revoke", "mark_ok", "mark_failed"}

(* Nothing is left of a certificate that has no row.                       *)
RowlessIsEmpty ==
    /\ ~RowExists => /\ \A v \in Versions : version[v].status = "none"
                     /\ \A j \in Jobs : job[j].status = "none"
    /\ certStatus = "absent" => \A w \in Workers : worker[w].pc = "idle"

(* A worker's copy of its job is right as long as the row exists.          *)
ClaimsMatch ==
    \A w \in Workers :
        worker[w].pc # "idle" =>
            /\ worker[w].job \in Jobs
            /\ RowExists => job[worker[w].job].status # "none"
            /\ job[worker[w].job].status # "none" =>
                 /\ worker[w].ver = job[worker[w].job].ver
                 /\ worker[w].reason = job[worker[w].job].reason

PCsMatchReasons ==
    \A w \in Workers :
        /\ worker[w].pc \in IssuingPCs \cup {"load"} => worker[w].reason \in IssuanceReasons
        /\ worker[w].pc \in RevokingPCs => worker[w].reason = "revocation_retry"
        /\ worker[w].pc = "clean" => worker[w].reason = "dns_cleanup"

JobsMatchVersions ==
    \A j \in Jobs :
        job[j].status # "none" =>
            /\ job[j].reason = "dns_cleanup" <=> job[j].ver = NullVersion
            /\ job[j].ver \in Versions => version[job[j].ver].status # "none"
            /\ job[j].reason = "revocation_retry" => version[job[j].ver].status = "revoked"

OneActiveJob ==
    \A j, k \in Jobs :
        Active(j) /\ Active(k) /\ job[j].ver = job[k].ver /\ job[j].ver # NullVersion
            => j = k

(* A job that has failed leaves no version of its own in progress.         *)
FailedIsSettled ==
    \A j \in Jobs :
        job[j].status = "failed" /\ job[j].ver # NullVersion
            => version[job[j].ver].status # "issuing"

(* What the holder of a lease knows of its version.                        *)
HolderKnows ==
    \A w \in Workers :
        Fenced(w) =>
            /\ worker[w].pc \in IssuingPCs => version[worker[w].ver].status = "issuing"
            /\ worker[w].pc = "finish" /\ worker[w].reason \in IssuanceReasons
                   => version[worker[w].ver].status \in {"valid", "revoked"}

(* A renewal worker and a request in "reuse" hold a version that was begun. *)
HeldVersionsExist ==
    /\ \A r \in Renewers : renewer[r].pc = "enqueue" =>
          /\ renewer[r].ver \in Versions
          /\ RowExists => version[renewer[r].ver].status # "none"
          /\ certStatus # "absent"
    /\ \A c \in Clients : client[c].pc = "reuse" =>
          /\ client[c].ver \in Versions
          /\ RowExists => version[client[c].ver].status # "none"
          /\ certStatus # "absent"

(* The part of the inductive invariant that needs no hypothesis on names.  *)
SettlingInv ==
    /\ RowlessIsEmpty
    /\ ClaimsMatch
    /\ PCsMatchReasons
    /\ JobsMatchVersions
    /\ OneActiveJob
    /\ FailedIsSettled
    /\ HeldVersionsExist

(* The part that holds as long as namesakes keep apart, and how a step     *)
(* keeps it.                                                               *)
HoldingInv == HolderKnows /\ SucceededJobSettled

HoldingStep == HoldingInv /\ NamesakesApart /\ NamesakesApart' => HoldingInv'

(* Exactly the jobs other than cleanups have a version.                    *)
LEMMA JobVersions ==
    ASSUME TypeOK, JobsMatchVersions, NEW j \in Jobs, job[j].status # "none"
    PROVE  /\ job[j].reason # "dns_cleanup" => job[j].ver \in Versions
           /\ job[j].reason \in IssuanceReasons => job[j].ver \in Versions
           /\ job[j].reason = "revocation_retry" => job[j].ver \in Versions
           /\ job[j].ver \in Versions => job[j].ver # NullVersion
<1>1. job[j].ver \in Versions \cup {NullVersion}
  BY DEF TypeOK, JobRows
<1>2. NullVersion \notin Versions
  BY DEF NullVersion, Versions
<1> QED
  BY <1>1, <1>2 DEF JobsMatchVersions, IssuanceReasons

(* The invariant reads a version only for its status.                      *)
LEMMA WorkerMoves ==
    ASSUME TypeOK, SettlingInv, NEW w \in Workers, NEW s \in WorkerStates,
           worker' = [worker EXCEPT ![w] = s],
           \A v \in Versions : version'[v].status = version[v].status,
           UNCHANGED <<job, client, renewer>>,
           RowExists' <=> RowExists,
           (certStatus' = "absent") <=> (certStatus = "absent"),
           \/ s.pc = "idle"
           \/ /\ worker[w].pc # "idle"
              /\ s.job = worker[w].job
              /\ s.reason = worker[w].reason
              /\ s.ver = worker[w].ver
              /\ s.pc \in IssuingPCs \cup {"load"} => s.reason \in IssuanceReasons
              /\ s.pc \in RevokingPCs => s.reason = "revocation_retry"
              /\ s.pc = "clean" => s.reason = "dns_cleanup"
    PROVE  /\ SettlingInv'
           /\ \/ ~HoldingInv
              \/ /\ Fenced(w)
                 /\ s.pc # "idle"
                 /\ \/ s.pc \in IssuingPCs /\ version[s.ver].status # "issuing"
                    \/ /\ s.pc = "finish"
                       /\ s.reason \in IssuanceReasons
                       /\ version[s.ver].status \notin {"valid", "revoked"}
              \/ HoldingInv'
<1> USE DEF SettlingInv
<1>1. /\ worker'[w] = s
      /\ \A u \in Workers \ {w} : worker'[u] = worker[u]
  BY DEF TypeOK
<1>2. RowlessIsEmpty'
  BY <1>1 DEF RowlessIsEmpty
<1>3. ClaimsMatch'
  <2> SUFFICES ASSUME NEW u \in Workers, worker'[u].pc # "idle"
               PROVE  (/\ worker[u].job \in Jobs
                       /\ RowExists => job[worker[u].job].status # "none"
                       /\ job[worker[u].job].status # "none" =>
                            /\ worker[u].ver = job[worker[u].job].ver
                            /\ worker[u].reason = job[worker[u].job].reason)'
    BY DEF ClaimsMatch
  <2>1. /\ worker[u].pc # "idle"
        /\ worker'[u].job = worker[u].job
        /\ worker'[u].ver = worker[u].ver
        /\ worker'[u].reason = worker[u].reason
    BY <1>1
  <2> QED
    BY <2>1 DEF ClaimsMatch
<1>4. PCsMatchReasons'
  <2>1. ASSUME s.pc = "idle"
        PROVE  /\ s.pc \notin IssuingPCs \cup {"load"}
               /\ s.pc \notin RevokingPCs
               /\ s.pc # "clean"
    BY <2>1 DEF IssuingPCs, RevokingPCs
  <2> QED
    BY <1>1, <2>1 DEF PCsMatchReasons
<1>5. JobsMatchVersions'
  BY JobVersions DEF JobsMatchVersions
<1>6. OneActiveJob'
  BY DEF OneActiveJob, Active
<1>7. FailedIsSettled'
  <2>1. \A j \in Jobs : job[j].ver # NullVersion => job[j].ver \in Versions
    BY DEF TypeOK, JobRows
  <2> QED
    BY <2>1, JobVersions DEF FailedIsSettled
<1>8. ASSUME HoldingInv,
             Fenced(w) /\ s.pc # "idle" =>
                /\ s.pc \in IssuingPCs => version[s.ver].status = "issuing"
                /\ s.pc = "finish" /\ s.reason \in IssuanceReasons
                     => version[s.ver].status \in {"valid", "revoked"}
      PROVE  HoldingInv'
  <2>1. SucceededJobSettled'
    <3>1. \A j \in Jobs : job[j].ver # NullVersion => job[j].ver \in Versions
      BY DEF TypeOK, JobRows
    <3> QED
      BY <1>8, <3>1, JobVersions DEF SucceededJobSettled, HoldingInv
  <2>2. HolderKnows'
    <3> SUFFICES ASSUME NEW u \in Workers, Fenced(u)'
                 PROVE (/\ worker[u].pc \in IssuingPCs => version[worker[u].ver].status = "issuing"
                        /\ worker[u].pc = "finish" /\ worker[u].reason \in IssuanceReasons
                           => version[worker[u].ver].status \in {"valid", "revoked"})'
      BY DEF HolderKnows
    <3>1. CASE worker'[u].pc = "idle"
      BY <3>1 DEF IssuingPCs
    <3>2. CASE worker'[u].pc # "idle"
      <4>1. /\ worker[u].pc # "idle"
            /\ worker'[u].job = worker[u].job
            /\ worker'[u].ver = worker[u].ver
            /\ worker'[u].reason = worker[u].reason
        BY <1>1, <3>2
      <4>2. Fenced(u)
        BY <4>1 DEF Fenced, Holds
      <4>3. worker[u].reason \in IssuanceReasons => worker[u].ver \in Versions
        BY <4>1, <4>2, JobVersions DEF Fenced, Holds, ClaimsMatch
      <4>4. worker'[u].pc \in IssuingPCs => worker'[u].reason \in IssuanceReasons
        BY <1>4 DEF PCsMatchReasons
      <4>5. CASE u = w
        BY <1>1, <1>8, <3>2, <4>1, <4>2, <4>3, <4>4, <4>5
      <4>6. CASE u # w
        BY <1>1, <1>8, <4>1, <4>2, <4>3, <4>4, <4>6 DEF HolderKnows, HoldingInv
      <4> QED
        BY <4>5, <4>6
    <3> QED
      BY <3>1, <3>2
  <2> QED
    BY <2>1, <2>2 DEF HoldingInv
<1>9. HeldVersionsExist'
  BY DEF HeldVersionsExist
<1> QED
  BY <1>2, <1>3, <1>4, <1>5, <1>6, <1>7, <1>8, <1>9

(* Rows are only added, and versions only begun or revoked: what the API   *)
(* requests, the renewal workers and EnqueueCleanup do.                    *)
LEMMA RowsGrow ==
    ASSUME TypeOK, SettlingInv, RowExists, RowExists',
           \A u \in Versions :
              \/ version'[u].status = version[u].status
              \/ version[u].status = "none" /\ version'[u].status = "issuing"
              \/ version[u].status = "valid" /\ version'[u].status = "revoked",
           \/ UNCHANGED job
           \/ \E v \in Versions \cup {NullVersion}, reason \in JobReasons :
                /\ EnsureIssuanceJob(v, reason)
                /\ reason = "dns_cleanup" <=> v = NullVersion
                /\ v \in Versions => version'[v].status # "none"
                /\ reason = "revocation_retry" => version'[v].status = "revoked",
           \A u \in Workers : worker'[u] = worker[u] \/ worker'[u] = Idle,
           HeldVersionsExist'
    PROVE  SettlingInv' /\ (HoldingInv => HoldingInv')
<1> USE DEF SettlingInv
<1>1. \/ UNCHANGED job
      \/ \E j \in Jobs, v \in Versions \cup {NullVersion}, reason \in JobReasons :
           /\ job[j].status = "none"
           /\ job' = [job EXCEPT ![j] = NewJob(v, reason)]
           /\ ~ \E k \in Jobs : SameSlot(k, v, reason)
           /\ reason = "dns_cleanup" <=> v = NullVersion
           /\ v \in Versions => version'[v].status # "none"
           /\ reason = "revocation_retry" => version'[v].status = "revoked"
  BY DEF EnsureIssuanceJob
<1>2. Idle.pc = "idle"
  BY DEF Idle
<1>3. \A j \in Jobs :
         \/ job'[j] = job[j]
         \/ /\ job[j].status = "none"
            /\ job'[j].status = "pending"
            /\ job'[j].ver \in Versions \cup {NullVersion}
            /\ job'[j].reason = "dns_cleanup" <=> job'[j].ver = NullVersion
            /\ job'[j].ver \in Versions => version'[job'[j].ver].status # "none"
            /\ job'[j].reason = "revocation_retry"
                  => version'[job'[j].ver].status = "revoked"
            /\ job'[j].ver # NullVersion
                  => \A k \in Jobs : Active(k) => job[k].ver # job'[j].ver
            /\ \A k \in Jobs \ {j} : job'[k] = job[k]
  BY <1>1 DEF NewJob, TypeOK, SameSlot
<1>4. RowlessIsEmpty'
  BY DEF RowlessIsEmpty, RowExists
<1>5. ClaimsMatch'
  BY <1>2, <1>3 DEF ClaimsMatch
<1>6. PCsMatchReasons'
  BY <1>2 DEF PCsMatchReasons, IssuingPCs, RevokingPCs
<1>7. JobsMatchVersions'
  <2> SUFFICES ASSUME NEW j \in Jobs, job'[j].status # "none"
               PROVE  (/\ job[j].reason = "dns_cleanup" <=> job[j].ver = NullVersion
                       /\ job[j].ver \in Versions => version[job[j].ver].status # "none"
                       /\ job[j].reason = "revocation_retry"
                             => version[job[j].ver].status = "revoked")'
    BY DEF JobsMatchVersions
  <2>1. CASE job'[j] = job[j]
    BY <2>1, JobVersions DEF JobsMatchVersions
  <2>2. CASE job'[j] # job[j]
    BY <2>2, <1>3
  <2> QED
    BY <2>1, <2>2
<1>8. OneActiveJob'
  BY <1>3 DEF OneActiveJob, Active
<1>9. \A j \in Jobs : job'[j].status \in {"succeeded", "failed", "running"}
                          => job'[j] = job[j] /\ job[j].status # "none"
  BY <1>3
<1>10. FailedIsSettled'
  <2> SUFFICES ASSUME NEW j \in Jobs, job'[j].status = "failed",
                      job'[j].ver # NullVersion
               PROVE  version'[job'[j].ver].status # "issuing"
    BY DEF FailedIsSettled
  <2>1. job'[j] = job[j] /\ job[j].status # "none" /\ job[j].ver \in Versions
    BY <1>9 DEF TypeOK, JobRows
  <2>2. version[job[j].ver].status \notin {"none", "issuing"}
    BY <2>1 DEF FailedIsSettled, JobsMatchVersions
  <2> QED
    BY <2>1, <2>2
<1>11. ASSUME HoldingInv PROVE SucceededJobSettled'
  <2> SUFFICES ASSUME NEW j \in Jobs, job'[j].status = "succeeded",
                      job'[j].reason \in IssuanceReasons
               PROVE  version'[job'[j].ver].status \in {"valid", "revoked"}
    BY DEF SucceededJobSettled
  <2>1. job'[j] = job[j] /\ job[j].ver \in Versions
    BY <1>9, JobVersions
  <2>2. version[job[j].ver].status \in {"valid", "revoked"}
    BY <1>11, <2>1 DEF SucceededJobSettled, HoldingInv
  <2> QED
    BY <2>1, <2>2
<1>12. ASSUME HoldingInv PROVE HolderKnows'
  <2> SUFFICES ASSUME NEW u \in Workers, Fenced(u)', worker'[u].pc # "idle"
               PROVE (/\ worker[u].pc \in IssuingPCs => version[worker[u].ver].status = "issuing"
                      /\ worker[u].pc = "finish" /\ worker[u].reason \in IssuanceReasons
                         => version[worker[u].ver].status \in {"valid", "revoked"})'
    BY DEF HolderKnows, IssuingPCs
  <2>1. worker'[u] = worker[u]
    BY <1>2
  <2>2. /\ job'[worker[u].job] = job[worker[u].job]
        /\ job[worker[u].job].status # "none"
        /\ worker[u].job \in Jobs
    BY <1>9, <2>1 DEF Fenced, Holds
  <2>3. Fenced(u)
    BY <2>1, <2>2 DEF Fenced, Holds
  <2>4. worker[u].reason \in IssuanceReasons => worker[u].ver \in Versions
    BY <2>1, <2>2, JobVersions DEF ClaimsMatch
  <2>5. worker[u].pc \in IssuingPCs => worker[u].reason \in IssuanceReasons
    BY DEF PCsMatchReasons
  <2> QED
    BY <1>12, <2>1, <2>3, <2>4, <2>5 DEF HolderKnows, HoldingInv
<1> QED
  BY <1>4, <1>5, <1>6, <1>7, <1>8, <1>10, <1>11, <1>12 DEF HoldingInv

(* A claim changes hands: whoever held the job before is fenced out.       *)
LEMMA ClaimSettles ==
    ASSUME TypeOK, SettlingInv, NEW w \in Workers, ClaimNextIssuanceJob(w)
    PROVE  SettlingInv' /\ HoldingStep
<1> USE DEF SettlingInv
<1>1. PICK j \in Jobs :
         /\ Claimable(j)
         /\ job' = [job EXCEPT ![j] = Claimed(job[j], w)]
         /\ worker' = [worker EXCEPT ![w] = ClaimingWorker(j)]
  BY DEF ClaimNextIssuanceJob
<1>2. /\ UNCHANGED <<certStatus, version, client, renewer>>
      /\ worker[w].pc = "idle"
  BY DEF ClaimNextIssuanceJob, certVars
<1>3. /\ job'[j].status = "running"
      /\ job'[j].owner = LockName[w]
      /\ job'[j].ver = job[j].ver
      /\ job'[j].reason = job[j].reason
      /\ \A k \in Jobs \ {j} : job'[k] = job[k]
      /\ Active(j)
      /\ job[j].status # "none"
  BY <1>1 DEF Claimed, TypeOK, JobRows, Claimable, Active
<1>4. /\ worker'[w].pc = FirstPC(job[j].reason)
      /\ worker'[w].job = j
      /\ worker'[w].ver = job[j].ver
      /\ worker'[w].reason = job[j].reason
      /\ \A u \in Workers \ {w} : worker'[u] = worker[u]
  BY <1>1 DEF ClaimingWorker, Idle, TypeOK
<1>5. RowExists /\ RowExists'
  BY <1>2, <1>3 DEF RowlessIsEmpty, RowExists
<1>6. RowlessIsEmpty'
  BY <1>5 DEF RowlessIsEmpty, RowExists
<1>7. ClaimsMatch'
  BY <1>3, <1>4, <1>5 DEF ClaimsMatch
<1>8. PCsMatchReasons'
  <2>1. job[j].reason \in JobReasons
    BY DEF TypeOK, JobRows
  <2>2. /\ FirstPC(job[j].reason) \in {"clean", "list", "load"}
        /\ FirstPC(job[j].reason) = "clean" => job[j].reason = "dns_cleanup"
        /\ FirstPC(job[j].reason) = "list" => job[j].reason = "revocation_retry"
        /\ FirstPC(job[j].reason) = "load" => job[j].reason \in IssuanceReasons
    BY <2>1 DEF FirstPC, JobReasons
  <2> QED
    BY <1>4, <2>2 DEF PCsMatchReasons, IssuingPCs, RevokingPCs
<1>9. JobsMatchVersions'
  BY <1>2, <1>3 DEF JobsMatchVersions
<1>10. OneActiveJob'
  BY <1>3 DEF OneActiveJob, Active
<1>11. FailedIsSettled'
  BY <1>2, <1>3 DEF FailedIsSettled
<1>12. ASSUME HoldingInv, NamesakesApart'
       PROVE  HoldingInv'
  <2>1. worker'[w].pc \notin IssuingPCs \cup {"finish", "idle"}
    BY <1>4 DEF FirstPC, IssuingPCs
  <2>2. ASSUME NEW u \in Workers \ {w}, Fenced(u)', worker'[u].pc # "idle"
        PROVE  Fenced(u) /\ worker'[u] = worker[u]
    <3>1. worker'[u].job # j
      <4> SUFFICES ASSUME worker'[u].job = j
                   PROVE  FALSE
        OBVIOUS
      <4>1. LockName[u] = LockName[w]
        BY <1>3, <2>2 DEF Fenced, Holds
      <4> QED
        BY <1>4, <1>12, <2>1, <2>2, <4>1 DEF NamesakesApart
    <3> QED
      BY <1>3, <1>4, <2>2, <3>1 DEF Fenced, Holds
  <2>3. HolderKnows'
    BY <1>2, <1>12, <2>1, <2>2 DEF HolderKnows, HoldingInv, IssuingPCs
  <2>4. SucceededJobSettled'
    BY <1>2, <1>3, <1>12 DEF SucceededJobSettled, HoldingInv
  <2> QED
    BY <2>3, <2>4 DEF HoldingInv
<1>13. HeldVersionsExist'
  BY <1>2, <1>5 DEF HeldVersionsExist
<1> QED
  BY <1>6, <1>7, <1>8, <1>9, <1>10, <1>11, <1>12, <1>13 DEF HoldingStep

(* No other worker holds a lease on a job of the same version.             *)
LEMMA OneHolder ==
    ASSUME TypeOK, SettlingInv, NamesakesApart, NEW w \in Workers, Fenced(w),
           NEW u \in Workers, Fenced(u),
           worker[u].pc # "idle", worker[w].pc # "idle",
           worker[u].ver = worker[w].ver, worker[w].ver # NullVersion
    PROVE  u = w
<1> USE DEF SettlingInv
<1>1. /\ worker[u].job \in Jobs
      /\ worker[w].job \in Jobs
      /\ Active(worker[u].job)
      /\ Active(worker[w].job)
      /\ job[worker[u].job].ver = worker[u].ver
      /\ job[worker[w].job].ver = worker[w].ver
  BY DEF Fenced, Holds, Active, ClaimsMatch
<1>2. worker[u].job = worker[w].job
  BY <1>1 DEF OneActiveJob
<1> QED
  BY <1>2 DEF Fenced, Holds, NamesakesApart

(* StoreMaterial settles the version of the job whose lease the worker     *)
(* holds.                                                                  *)
LEMMA StoreSettles ==
    ASSUME TypeOK, SettlingInv, NEW w \in Workers, StoreMaterial(w)
    PROVE  SettlingInv' /\ HoldingStep
<1> USE DEF SettlingInv
<1>1. /\ worker[w].pc = "store"
      /\ worker[w].reason \in IssuanceReasons
      /\ worker[w] \in WorkerStates
  BY DEF StoreMaterial, At, PCsMatchReasons, IssuingPCs, TypeOK
<1>2. /\ UNCHANGED <<job, client, renewer>>
      /\ \/ worker' = GoFail(w, FALSE)
         \/ worker' = GoTo(w, "finish")
  BY DEF StoreMaterial
<1>3. ASSUME UNCHANGED <<version, certStatus>>,
             HoldingInv /\ Fenced(w) => worker' = GoFail(w, FALSE)
      PROVE  SettlingInv' /\ HoldingStep
  <2>1. CASE worker' = GoFail(w, FALSE)
    <3> DEFINE s == [worker[w] EXCEPT !.pc = "fail", !.bad = FALSE]
    <3>1. /\ worker' = [worker EXCEPT ![w] = s]
          /\ s.pc = "fail"
          /\ s.job = worker[w].job
          /\ s.reason = worker[w].reason
          /\ s.ver = worker[w].ver
      BY <2>1, <1>1 DEF GoFail, WorkerStates
    <3>2. s \in WorkerStates
      BY <1>1 DEF WorkerStates, HeldPCs
    <3> HIDE DEF s
    <3> QED
      BY <1>1, <1>2, <1>3, <3>1, <3>2, WorkerMoves DEF IssuingPCs, RevokingPCs, RowExists,
         HoldingStep
  <2>2. CASE worker' = GoTo(w, "finish") /\ (HoldingInv => ~Fenced(w))
    <3> DEFINE s == [worker[w] EXCEPT !.pc = "finish"]
    <3>1. /\ worker' = [worker EXCEPT ![w] = s]
          /\ s.pc = "finish"
          /\ s.job = worker[w].job
          /\ s.reason = worker[w].reason
          /\ s.ver = worker[w].ver
      BY <2>2, <1>1 DEF GoTo, WorkerStates, TypeOK
    <3>2. s \in WorkerStates
      BY <1>1 DEF WorkerStates, HeldPCs
    <3> HIDE DEF s
    <3> QED
      BY <1>1, <1>2, <1>3, <2>2, <3>1, <3>2, WorkerMoves DEF IssuingPCs, RevokingPCs, RowExists,
         HoldingStep
  <2>3. \/ worker' = GoFail(w, FALSE)
        \/ worker' = GoTo(w, "finish") /\ (HoldingInv => ~Fenced(w))
    BY <1>2, <1>3
  <2> QED
    BY <2>1, <2>2, <2>3
<1>4. ASSUME Fenced(w),
             version[worker[w].ver].status = "issuing",
             version' = [version EXCEPT ![worker[w].ver].status = "valid"],
             certStatus' = "ready",
             worker' = GoTo(w, "finish")
      PROVE  SettlingInv' /\ HoldingStep
  <2> DEFINE v == worker[w].ver
  <2>1. /\ worker[w].job \in Jobs
        /\ job[worker[w].job].status = "running"
        /\ job[worker[w].job].ver = v
        /\ v \in Versions
    BY <1>1, <1>4, JobVersions DEF Fenced, Holds, ClaimsMatch
  <2>2. /\ version'[v].status = "valid"
        /\ \A u \in Versions \ {v} : version'[u] = version[u]
    BY <1>4, <2>1 DEF TypeOK, VersionRows
  <2>3. /\ \A u \in Workers \ {w} : worker'[u] = worker[u]
        /\ worker'[w].pc = "finish"
        /\ worker'[w].job = worker[w].job
        /\ worker'[w].ver = v
        /\ worker'[w].reason = worker[w].reason
    BY <1>1, <1>4 DEF GoTo, TypeOK, WorkerStates
  <2>4. RowExists /\ RowExists' /\ UNCHANGED <<job, client, renewer>>
    BY <1>2, <1>4, <2>1 DEF RowlessIsEmpty, RowExists
  <2>5. version[v].status = "issuing"
    BY <1>4
  <2> HIDE DEF v
  <2>6. RowlessIsEmpty'
    BY <2>4 DEF RowlessIsEmpty, RowExists
  <2>7. ClaimsMatch'
    <3> SUFFICES ASSUME NEW u \in Workers, worker'[u].pc # "idle"
                 PROVE  (/\ worker[u].job \in Jobs
                         /\ RowExists => job[worker[u].job].status # "none"
                         /\ job[worker[u].job].status # "none" =>
                              /\ worker[u].ver = job[worker[u].job].ver
                              /\ worker[u].reason = job[worker[u].job].reason)'
      BY DEF ClaimsMatch
    <3>1. /\ worker[u].pc # "idle"
          /\ worker'[u].job = worker[u].job
          /\ worker'[u].ver = worker[u].ver
          /\ worker'[u].reason = worker[u].reason
      BY <1>1, <2>3 DEF v
    <3> QED
      BY <2>4, <3>1 DEF ClaimsMatch
  <2>8. PCsMatchReasons'
    BY <2>3 DEF PCsMatchReasons, IssuingPCs, RevokingPCs
  <2>9. JobsMatchVersions'
    BY <2>2, <2>4, <2>5, JobVersions DEF JobsMatchVersions
  <2>10. OneActiveJob'
    BY <2>4 DEF OneActiveJob, Active
  <2>11. FailedIsSettled'
    BY <2>2, <2>4 DEF FailedIsSettled, TypeOK, JobRows
  <2>12. ASSUME HoldingInv
         PROVE  SucceededJobSettled'
    BY <2>2, <2>4, <2>12, JobVersions DEF SucceededJobSettled, HoldingInv
  <2>13. ASSUME HoldingInv, NamesakesApart
         PROVE  HolderKnows'
    <3> SUFFICES ASSUME NEW u \in Workers \ {w}, Fenced(u)', worker'[u].pc # "idle"
                 PROVE (/\ worker[u].pc \in IssuingPCs => version[worker[u].ver].status = "issuing"
                        /\ worker[u].pc = "finish" /\ worker[u].reason \in IssuanceReasons
                           => version[worker[u].ver].status \in {"valid", "revoked"})'
      BY <2>2, <2>3 DEF HolderKnows, IssuingPCs
    <3>1. Fenced(u) /\ worker'[u] = worker[u]
      BY <2>3, <2>4 DEF Fenced, Holds
    <3>2. worker[u].ver # v
      BY <1>1, <1>4, <2>1, <2>13, <3>1, OneHolder, JobVersions DEF v
    <3>3. worker[u].reason \in IssuanceReasons => worker[u].ver \in Versions
      BY <3>1, JobVersions DEF Fenced, Holds, ClaimsMatch
    <3>4. worker[u].pc \in IssuingPCs => worker[u].reason \in IssuanceReasons
      BY DEF PCsMatchReasons
    <3> QED
      BY <2>2, <2>13, <3>1, <3>2, <3>3, <3>4 DEF HolderKnows, HoldingInv
  <2>14. HeldVersionsExist'
    BY <1>4, <2>2, <2>4 DEF HeldVersionsExist
  <2> QED
    BY <2>6, <2>7, <2>8, <2>9, <2>10, <2>11, <2>12, <2>13, <2>14
       DEF HoldingStep, HoldingInv
<1>5. \/ UNCHANGED <<version, certStatus>> /\ (HoldingInv /\ Fenced(w) => worker' = GoFail(w, FALSE))
      \/ /\ Fenced(w)
         /\ version[worker[w].ver].status = "issuing"
         /\ version' = [version EXCEPT ![worker[w].ver].status = "valid"]
         /\ certStatus' = "ready"
         /\ worker' = GoTo(w, "finish")
  <2>1. HoldingInv /\ Fenced(w) => /\ version[worker[w].ver].status = "issuing"
                                  /\ job[worker[w].job].ver = worker[w].ver
    BY <1>1 DEF HoldingInv, HolderKnows, IssuingPCs, Fenced, Holds, ClaimsMatch
  <2> QED
    BY <2>1 DEF StoreMaterial, MayStore
<1> QED
  BY <1>3, <1>4, <1>5

(* A worker ends its job in success, or its statement matches no row.      *)
LEMMA SucceedSettles ==
    ASSUME TypeOK, SettlingInv, NEW w \in Workers, SucceedIssuanceJob(w)
    PROVE  SettlingInv' /\ (HoldingInv => HoldingInv')
<1> USE DEF SettlingInv
<1>1. /\ worker[w].pc = "finish"
      /\ worker[w] \in WorkerStates
      /\ UNCHANGED <<certStatus, version, client, renewer>>
      /\ RowExists' <=> RowExists
  BY DEF SucceedIssuanceJob, At, TypeOK, certVars, RowExists
<1>2. CASE ~MaySucceed(w)
  <2>1. worker' = [worker EXCEPT ![w] = Idle] /\ UNCHANGED job
    BY <1>2 DEF SucceedIssuanceJob, Stay
  <2>2. Idle \in WorkerStates /\ Idle.pc = "idle"
    BY DEF Idle, WorkerStates, JobReasons
  <2> QED
    BY <1>1, <2>1, <2>2, WorkerMoves
<1>3. CASE MaySucceed(w)
  <2> DEFINE j == worker[w].job
  <2>1. /\ j \in Jobs
        /\ job[j].status \in {"running", "succeeded"}
        /\ worker[w].ver = job[j].ver
        /\ worker[w].reason = job[j].reason
        /\ job[j].status = "running" => Fenced(w)
    BY <1>1, <1>3 DEF MaySucceed, Fenced, Holds, ClaimsMatch
  <2>2. job' = [job EXCEPT ![j] = Ended(job[j], "succeeded")]
    BY <1>3 DEF SucceedIssuanceJob
  <2>3. \A u \in Workers :
           \/ worker'[u] = worker[u]
           \/ worker'[u].pc = "idle"
           \/ /\ u = w
              /\ worker'[u].pc = "enqueue"
              /\ worker'[u].job = j
              /\ worker'[u].ver = worker[u].ver
              /\ worker'[u].reason = worker[u].reason
    BY <1>1, <1>3 DEF SucceedIssuanceJob, Stay, GoTo, Idle, TypeOK, WorkerStates
  <2> HIDE DEF j
  <2>4. /\ job'[j].status = "succeeded"
        /\ job'[j].ver = job[j].ver
        /\ job'[j].reason = job[j].reason
        /\ \A k \in Jobs \ {j} : job'[k] = job[k]
    BY <2>1, <2>2 DEF Ended, TypeOK, JobRows
  <2>5. RowlessIsEmpty'
    BY <1>1, <2>1 DEF RowlessIsEmpty
  <2>6. ClaimsMatch'
    <3> SUFFICES ASSUME NEW u \in Workers, worker'[u].pc # "idle"
                 PROVE  (/\ worker[u].job \in Jobs
                         /\ RowExists => job[worker[u].job].status # "none"
                         /\ job[worker[u].job].status # "none" =>
                              /\ worker[u].ver = job[worker[u].job].ver
                              /\ worker[u].reason = job[worker[u].job].reason)'
      BY DEF ClaimsMatch
    <3>1. CASE worker'[u] = worker[u]
      BY <1>1, <2>1, <2>4, <3>1 DEF ClaimsMatch
    <3>2. CASE worker'[u] # worker[u]
      BY <1>1, <2>1, <2>3, <2>4, <3>2
    <3> QED
      BY <3>1, <3>2
  <2>7. PCsMatchReasons'
    BY <2>3 DEF PCsMatchReasons, IssuingPCs, RevokingPCs
  <2>8. JobsMatchVersions'
    BY <1>1, <2>1, <2>4 DEF JobsMatchVersions
  <2>9. OneActiveJob'
    BY <2>4 DEF OneActiveJob, Active
  <2>10. FailedIsSettled'
    BY <1>1, <2>4 DEF FailedIsSettled
  <2>11. ASSUME HoldingInv
         PROVE  SucceededJobSettled'
    <3>1. job[j].reason \in IssuanceReasons
               => version[job[j].ver].status \in {"valid", "revoked"}
      BY <1>1, <2>1, <2>11 DEF HoldingInv, SucceededJobSettled, HolderKnows
    <3> QED
      BY <1>1, <2>4, <2>11, <3>1 DEF SucceededJobSettled, HoldingInv
  <2>12. ASSUME HoldingInv
         PROVE  HolderKnows'
    <3> SUFFICES ASSUME NEW u \in Workers, Fenced(u)',
                        worker'[u].pc \in IssuingPCs \cup {"finish"}
                 PROVE (/\ worker[u].pc \in IssuingPCs => version[worker[u].ver].status = "issuing"
                        /\ worker[u].pc = "finish" /\ worker[u].reason \in IssuanceReasons
                           => version[worker[u].ver].status \in {"valid", "revoked"})'
      BY DEF HolderKnows
    <3>1. worker'[u] = worker[u]
      BY <2>3 DEF IssuingPCs
    <3>2. worker[u].job # j
      BY <2>4, <3>1 DEF Fenced, Holds
    <3>3. Fenced(u)
      BY <2>4, <3>1, <3>2 DEF Fenced, Holds
    <3> QED
      BY <1>1, <2>12, <3>1, <3>3 DEF HolderKnows, HoldingInv
  <2>13. HeldVersionsExist'
    BY <1>1 DEF HeldVersionsExist
  <2> QED
    BY <2>5, <2>6, <2>7, <2>8, <2>9, <2>10, <2>11, <2>12, <2>13 DEF HoldingInv
<1> QED
  BY <1>2, <1>3

(* What ending or retrying a job does to its row.                          *)
LEMMA RowEffects ==
    ASSUME NEW row \in JobRows
    PROVE  /\ Ended(row, "failed").status = "failed"
           /\ Ended(row, "failed").ver = row.ver
           /\ Ended(row, "failed").reason = row.reason
           /\ Retried(row).status = "pending"
           /\ Retried(row).ver = row.ver
           /\ Retried(row).reason = row.reason
<1>1. \A s \in {"failed", "pending"} :
         /\ Ended(row, s) \in JobRows
         /\ Ended(row, s).status = s
         /\ Ended(row, s).ver = row.ver
         /\ Ended(row, s).reason = row.reason
  BY DEF Ended, JobRows
<1>2. /\ Retried(row).status = Ended(row, "pending").status
      /\ Retried(row).ver = Ended(row, "pending").ver
      /\ Retried(row).reason = Ended(row, "pending").reason
  BY <1>1 DEF Retried, JobRows
<1> QED
  BY <1>1, <1>2

(* A worker records a failure: the job goes back to the queue, or ends     *)
(* together with the version that is still being issued for it.            *)
LEMMA FailSettles ==
    ASSUME TypeOK, SettlingInv, NEW w \in Workers, FailIssuanceJob(w)
    PROVE  SettlingInv' /\ HoldingStep
<1> USE DEF SettlingInv
<1> DEFINE j == worker[w].job
           v == job[j].ver
<1>1. /\ worker[w].pc = "fail"
      /\ worker' = [worker EXCEPT ![w] = Idle]
      /\ UNCHANGED <<client, renewer>>
      /\ Idle \in WorkerStates
      /\ Idle.pc = "idle"
  BY DEF FailIssuanceJob, At, Stay, Idle, WorkerStates, JobReasons
<1>2. CASE UNCHANGED <<job, version, certStatus>>
  BY <1>1, <1>2, WorkerMoves DEF RowExists, HoldingStep
<1>3. CASE /\ MayFail(w)
           /\ \/ RetryJob(j) /\ ~SlotTaken(j) /\ UNCHANGED <<version, certStatus>>
              \/ GiveUpJob(j) /\ FailVersion(v)
  <2>1. /\ j \in Jobs
        /\ job[j].status \in {"running", "failed"}
        /\ job[j].status = "running" => Fenced(w)
    BY <1>1, <1>3 DEF MayFail, Fenced, Holds
  <2>2. \A u \in Workers : worker'[u].pc # "idle" => u # w /\ worker'[u] = worker[u]
    BY <1>1 DEF TypeOK
  <2>3. /\ job'[j].status \in {"pending", "failed"}
        /\ job'[j].ver = v
        /\ job'[j].reason = job[j].reason
        /\ \A k \in Jobs \ {j} : job'[k] = job[k]
    BY <1>3, <2>1, JobTypes, RowEffects DEF RetryJob, GiveUpJob, TypeOK
  <2>4. job'[j].status = "failed" => GiveUpJob(j) /\ FailVersion(v)
    BY <1>3, <2>1, JobTypes, RowEffects DEF RetryJob, TypeOK
  <2>5. v \in Versions \cup {NullVersion}
    BY <2>1 DEF TypeOK, JobRows
  <2>6. \/ /\ UNCHANGED <<version, certStatus>>
           /\ job'[j].status = "failed" => v \notin Issuing
        \/ /\ v \in Versions
           /\ version[v].status = "issuing"
           /\ version'[v].status = "failed"
           /\ \A u \in Versions \ {v} : version'[u] = version[u]
           /\ certStatus' \in {"ready", "failed"}
           /\ Fenced(w)
    <3>1. CASE UNCHANGED <<version, certStatus>> /\ v \notin Issuing
      BY <3>1
    <3>2. CASE /\ v \in Issuing
               /\ version' = [version EXCEPT ![v].status = "failed"]
               /\ certStatus' \in {"ready", "failed"}
      <4>1. /\ v \in Versions /\ version[v].status = "issuing"
            /\ version'[v].status = "failed"
            /\ \A u \in Versions \ {v} : version'[u] = version[u]
        BY <3>2 DEF Issuing, TypeOK, VersionRows
      <4>2. job[j].status # "failed"
        BY <2>1, <4>1 DEF FailedIsSettled, NullVersion, Versions
      <4> QED
        BY <2>1, <3>2, <4>1, <4>2
    <3>3. CASE UNCHANGED <<version, certStatus>> /\ job'[j].status # "failed"
      BY <3>3
    <3>4. RetryJob(j) => job'[j].status # "failed"
      BY <2>1, JobTypes, RowEffects DEF RetryJob, TypeOK
    <3> QED
      BY <1>3, <3>1, <3>2, <3>3, <3>4 DEF FailVersion
  <2>7. RowExists /\ RowExists'
    BY <2>1, <2>6 DEF RowlessIsEmpty, RowExists
  <2>8. j # None
    BY <2>1, ConstantsAssumption
  <2> HIDE DEF j, v
  <2>9. RowlessIsEmpty'
    BY <2>7 DEF RowlessIsEmpty, RowExists
  <2>10. ClaimsMatch'
    <3> SUFFICES ASSUME NEW u \in Workers, worker'[u].pc # "idle"
                 PROVE  (/\ worker[u].job \in Jobs
                         /\ RowExists => job[worker[u].job].status # "none"
                         /\ job[worker[u].job].status # "none" =>
                              /\ worker[u].ver = job[worker[u].job].ver
                              /\ worker[u].reason = job[worker[u].job].reason)'
      BY DEF ClaimsMatch
    <3>1. worker'[u] = worker[u]
      BY <2>2
    <3> QED
      BY <2>1, <2>3, <2>7, <3>1 DEF ClaimsMatch, v
  <2>11. PCsMatchReasons'
    BY <2>2 DEF PCsMatchReasons, IssuingPCs, RevokingPCs
  <2>12. \A u \in Versions : /\ version[u].status # "none" => version'[u].status # "none"
                             /\ version[u].status = "revoked" => version'[u] = version[u]
                             /\ version[u].status = "valid" => version'[u] = version[u]
                             /\ version'[u].status = "issuing" => version'[u] = version[u]
    BY <2>6
  <2>13. JobsMatchVersions'
    <3> SUFFICES ASSUME NEW k \in Jobs, job'[k].status # "none"
                 PROVE  (/\ job[k].reason = "dns_cleanup" <=> job[k].ver = NullVersion
                         /\ job[k].ver \in Versions => version[job[k].ver].status # "none"
                         /\ job[k].reason = "revocation_retry"
                               => version[job[k].ver].status = "revoked")'
      BY DEF JobsMatchVersions
    <3>1. /\ job[k].status # "none"
          /\ job'[k].ver = job[k].ver
          /\ job'[k].reason = job[k].reason
      BY <2>1, <2>3 DEF v
    <3> QED
      BY <2>12, <3>1, JobVersions DEF JobsMatchVersions
  <2>14. OneActiveJob'
    <3>1. CASE job'[j].status = "failed"
      BY <2>3, <3>1 DEF OneActiveJob, Active
    <3>2. CASE /\ job'[j].status = "pending"
               /\ ~SlotTaken(j)
      BY <2>1, <2>3, <3>2 DEF OneActiveJob, Active, SlotTaken, SameSlot, v
    <3>3. GiveUpJob(j) => job'[j].status = "failed"
      BY <2>1, JobTypes, RowEffects DEF GiveUpJob, TypeOK
    <3> QED
      BY <1>3, <2>3, <3>1, <3>2, <3>3 DEF j, v
  <2>15. FailedIsSettled'
    <3> SUFFICES ASSUME NEW k \in Jobs, job'[k].status = "failed",
                        job'[k].ver # NullVersion
                 PROVE  version'[job'[k].ver].status # "issuing"
      BY DEF FailedIsSettled
    <3>1. CASE k = j
      BY <2>3, <2>5, <2>6, <3>1 DEF Issuing
    <3>2. CASE k # j
      <4>1. job'[k] = job[k] /\ job[k].ver \in Versions
        BY <2>3, <3>2 DEF TypeOK, JobRows
      <4>2. version[job[k].ver].status # "issuing"
        BY <4>1 DEF FailedIsSettled
      <4> QED
        BY <2>12, <4>1, <4>2
    <3> QED
      BY <3>1, <3>2
  <2>16. ASSUME HoldingInv
         PROVE  SucceededJobSettled'
    <3> SUFFICES ASSUME NEW k \in Jobs, job'[k].status = "succeeded",
                        job'[k].reason \in IssuanceReasons
                 PROVE  version'[job'[k].ver].status \in {"valid", "revoked"}
      BY DEF SucceededJobSettled
    <3>1. job'[k] = job[k]
      BY <2>3
    <3> QED
      BY <2>12, <2>16, <3>1, JobVersions DEF SucceededJobSettled, HoldingInv
  <2>17. ASSUME HoldingInv, NamesakesApart
         PROVE  HolderKnows'
    <3> SUFFICES ASSUME NEW u \in Workers, Fenced(u)',
                        worker'[u].pc \in IssuingPCs \cup {"finish"}
                 PROVE (/\ worker[u].pc \in IssuingPCs => version[worker[u].ver].status = "issuing"
                        /\ worker[u].pc = "finish" /\ worker[u].reason \in IssuanceReasons
                           => version[worker[u].ver].status \in {"valid", "revoked"})'
      BY DEF HolderKnows
    <3>1. u # w /\ worker'[u] = worker[u] /\ worker[u].pc # "idle"
      BY <2>2 DEF IssuingPCs
    <3>2. Fenced(u)
      BY <2>3, <3>1 DEF Fenced, Holds
    <3>3. worker[u].reason \in IssuanceReasons => worker[u].ver \in Versions
      BY <3>1, <3>2, JobVersions DEF Fenced, Holds, ClaimsMatch
    <3>4. worker[u].pc \in IssuingPCs => worker[u].reason \in IssuanceReasons
      BY DEF PCsMatchReasons
    <3>5. UNCHANGED version \/ worker[u].ver # v
      <4> SUFFICES ASSUME Fenced(w), v \in Versions, worker[u].ver = v
                   PROVE  FALSE
        BY <2>6
      <4>1. worker[w].ver = v /\ v # NullVersion
        BY <1>1 DEF Fenced, Holds, ClaimsMatch, NullVersion, Versions, v, j
      <4> QED
        BY <1>1, <2>17, <3>1, <3>2, <4>1, OneHolder
    <3> QED
      BY <2>6, <2>17, <3>1, <3>2, <3>3, <3>4, <3>5 DEF HolderKnows, HoldingInv
  <2>18. HeldVersionsExist'
    BY <1>1, <2>7, <2>12 DEF HeldVersionsExist, RowExists
  <2> QED
    BY <2>9, <2>10, <2>11, <2>13, <2>14, <2>15, <2>16, <2>17, <2>18
       DEF HoldingStep, HoldingInv
<1> QED
  BY <1>2, <1>3 DEF FailIssuanceJob

(* A new version leaves the certificate with a row.                        *)
LEMMA StatusRows ==
    ASSUME NEW reason \in IssuanceReasons
    PROVE  StatusForReason(reason) \notin {"absent", "gone"}
  BY DEF StatusForReason

(* CreateIssuingVersion begins a version or finds the one in progress.     *)
LEMMA CreateEffects ==
    ASSUME TypeOK, RowExists, NEW v \in Versions, NEW reason \in IssuanceReasons,
           CreateIssuingVersion(reason, v)
    PROVE  /\ RowExists'
           /\ version'[v].status = "issuing"
           /\ \A u \in Versions :
                \/ version'[u] = version[u]
                \/ version[u].status = "none" /\ version'[u].status = "issuing"
<1>1. CASE v \in Issuing /\ UNCHANGED <<version, certStatus>>
  BY <1>1 DEF Issuing, RowExists
<1>2. CASE InsertVersion(reason, v)
  <2>1. version[v].status = "none"
    BY <1>2 DEF InsertVersion, Existing, Versions
  <2> QED
    BY <1>2, <2>1, StatusRows DEF InsertVersion, RowExists, TypeOK
<1> QED
  BY <1>1, <1>2 DEF CreateIssuingVersion

(* The first version starts with its job.                                  *)
LEMMA EnsureNewSettles ==
    ASSUME TypeOK, SettlingInv, EnsureNew
    PROVE  SettlingInv' /\ HoldingInv'
<1> USE DEF SettlingInv, HoldingInv
<1>1. /\ ~RowExists
      /\ RowExists'
      /\ certStatus' # "absent"
      /\ UNCHANGED <<worker, client, renewer>>
      /\ 1 \in Versions
      /\ 1 # NullVersion
      /\ \A w \in Workers : worker[w].pc = "idle"
      /\ \A v \in Versions : version[v].status = "none"
      /\ \A j \in Jobs : job[j].status = "none"
      /\ \A r \in Renewers : renewer[r].pc # "enqueue"
      /\ \A c \in Clients : client[c].pc # "reuse"
  BY StatusRows DEF EnsureNew, RowExists, RowlessIsEmpty, HeldVersionsExist, NullVersion,
     IssuanceReasons
<1>2. PICK j \in Jobs : job' = [job EXCEPT ![j] = NewJob(1, "initial_issue")]
  <2>1. ~ \E j \in Jobs : SameSlot(j, 1, "initial_issue")
    BY <1>1 DEF SameSlot, Active
  <2> QED
    BY <2>1 DEF EnsureNew, EnsureIssuanceJob
<1>3. /\ job'[j].status = "pending"
      /\ job'[j].reason = "initial_issue"
      /\ job'[j].ver = 1
      /\ \A k \in Jobs \ {j} : job'[k] = job[k]
  BY <1>2 DEF NewJob, TypeOK
<1>4. version'[1].status = "issuing"
  BY <1>1 DEF EnsureNew, TypeOK
<1>5. RowlessIsEmpty' /\ ClaimsMatch'
  BY <1>1 DEF RowlessIsEmpty, ClaimsMatch
<1>6. PCsMatchReasons'
  BY <1>1 DEF PCsMatchReasons
<1>7. JobsMatchVersions' /\ OneActiveJob' /\ FailedIsSettled' /\ SucceededJobSettled'
  BY <1>1, <1>3, <1>4 DEF JobsMatchVersions, OneActiveJob, FailedIsSettled,
     SucceededJobSettled, Active
<1>8. HolderKnows' /\ HeldVersionsExist'
  BY <1>1 DEF HolderKnows, HeldVersionsExist, IssuingPCs
<1> QED
  BY <1>5, <1>6, <1>7, <1>8

(* A deletion finds no job active and leaves no worker with a lease.       *)
LEMMA DeleteSettles ==
    ASSUME TypeOK, SettlingInv, NEW force \in BOOLEAN, DeleteCertificate(force)
    PROVE  SettlingInv' /\ HoldingInv'
<1> USE DEF SettlingInv, HoldingInv
<1>1. /\ certStatus' = "gone"
      /\ ~RowExists'
      /\ \A v \in Versions : version'[v].status = "none"
      /\ \A j \in Jobs : job'[j].status = "none"
      /\ UNCHANGED <<worker, client, renewer>>
      /\ certStatus # "absent"
  BY DEF DeleteCertificate, RowExists, NoVersion, NoJob
<1>2. RowlessIsEmpty' /\ ClaimsMatch'
  BY <1>1 DEF RowlessIsEmpty, ClaimsMatch
<1>3. PCsMatchReasons'
  BY <1>1 DEF PCsMatchReasons
<1>4. JobsMatchVersions' /\ OneActiveJob' /\ FailedIsSettled' /\ SucceededJobSettled'
  BY <1>1 DEF JobsMatchVersions, OneActiveJob, FailedIsSettled, SucceededJobSettled, Active
<1>5. HolderKnows' /\ HeldVersionsExist'
  BY <1>1 DEF HolderKnows, HeldVersionsExist, Fenced, Holds
<1> QED
  BY <1>2, <1>3, <1>4, <1>5

(* API requests keep the invariant.                                        *)
LEMMA ApiSettles ==
    ASSUME TypeOK, SettlingInv, ApiStep
    PROVE  SettlingInv' /\ HoldingStep
<1> USE ReasonsAreReasons
<1>1. CASE EnsureNew
  BY <1>1, EnsureNewSettles DEF HoldingStep
<1>2. CASE EnsureExisting
  <2>1. PICK v \in Versions : /\ CreateIssuingVersion("initial_issue", v)
                              /\ EnsureIssuanceJob(v, "initial_issue")
    BY <1>2 DEF EnsureExisting
  <2>2. /\ RowExists /\ UNCHANGED <<worker, client, renewer>>
        /\ v # NullVersion
    BY <1>2 DEF EnsureExisting, NullVersion, Versions
  <2>3. /\ RowExists'
        /\ version'[v].status # "none"
        /\ \A u \in Versions :
             \/ version'[u] = version[u]
             \/ version[u].status = "none" /\ version'[u].status = "issuing"
    BY <2>1, <2>2, CreateEffects
  <2>4. HeldVersionsExist'
    BY <2>2, <2>3 DEF SettlingInv, HeldVersionsExist, RowExists
  <2> QED
    BY <2>1, <2>2, <2>3, <2>4, RowsGrow DEF HoldingStep
<1>3. CASE UpdateCertificateEnabled
  <2>1. RowExists /\ UNCHANGED <<certStatus, version, job, worker, client, renewer>>
    BY <1>3 DEF UpdateCertificateEnabled
  <2>2. HeldVersionsExist' /\ RowExists'
    BY <2>1 DEF SettlingInv, HeldVersionsExist, RowExists
  <2> QED
    BY <2>1, <2>2, RowsGrow DEF HoldingStep
<1>4. ASSUME NEW v \in Versions, RevokeCertificateVersion(v)
      PROVE  SettlingInv' /\ HoldingStep
  <2>1. /\ RowExists
        /\ UNCHANGED <<worker, client, renewer>>
        /\ v # NullVersion
        /\ EnsureIssuanceJob(v, "revocation_retry")
    BY <1>4 DEF RevokeCertificateVersion, NullVersion, Versions
  <2>2. /\ RowExists' /\ certStatus' # "absent"
        /\ version'[v].status = "revoked"
        /\ \A u \in Versions :
             \/ version'[u] = version[u]
             \/ version[u].status = "valid" /\ version'[u].status = "revoked"
    BY <1>4, <2>1 DEF RevokeCertificateVersion, StatusAfterRevoke, RowExists, TypeOK, VersionRows
  <2>3. HeldVersionsExist'
    BY <2>1, <2>2 DEF SettlingInv, HeldVersionsExist
  <2> QED
    BY <2>1, <2>2, <2>3, RowsGrow DEF HoldingStep
<1>5. ASSUME NEW force \in BOOLEAN, DeleteCertificate(force)
      PROVE  SettlingInv' /\ HoldingStep
  BY <1>5, DeleteSettles DEF HoldingStep
<1>6. ASSUME NEW c \in Clients, NEW reason \in LifecycleReasons,
             StartLifecycle(c, reason)
      PROVE  SettlingInv' /\ HoldingStep
  <2>1. RowExists /\ UNCHANGED <<certStatus, version, job, worker, renewer>>
    BY <1>6 DEF StartLifecycle, LifecycleAllowed, certVars
  <2>2. \/ client'[c].pc = "create"
        \/ client'[c].ver \in Issuing
    BY <1>6 DEF StartLifecycle, TypeOK
  <2>3. \A d \in Clients \ {c} : client'[d] = client[d]
    BY <1>6 DEF StartLifecycle, TypeOK
  <2>4. HeldVersionsExist' /\ RowExists'
    BY <2>1, <2>2, <2>3 DEF SettlingInv, HeldVersionsExist, RowExists, Issuing
  <2> QED
    BY <2>1, <2>4, RowsGrow DEF HoldingStep
<1>7. ASSUME NEW c \in Clients, FinishLifecycle(c)
      PROVE  SettlingInv' /\ HoldingStep
  <2>1. /\ client[c].reason \in LifecycleReasons
        /\ UNCHANGED <<worker, renewer>>
        /\ client'[c].pc = "idle"
        /\ \A d \in Clients \ {c} : client'[d] = client[d]
        /\ NullVersion \notin Versions
    BY <1>7 DEF FinishLifecycle, TypeOK, ClientStates, IdleClient, NullVersion, Versions
  <2>2. CASE client[c].pc = "create"
    <3>1. PICK v \in Versions :
               /\ CreateIssuingVersion(client[c].reason, v)
               /\ EnsureIssuanceJob(v, client[c].reason)
      BY <1>7, <2>2 DEF FinishLifecycle
    <3>2. RowExists
      BY <3>1 DEF CreateIssuingVersion, MayInsert, Issuing, SettlingInv, RowlessIsEmpty
    <3>3. /\ RowExists'
          /\ version'[v].status # "none"
          /\ \A u \in Versions :
               \/ version'[u] = version[u]
               \/ version[u].status = "none" /\ version'[u].status = "issuing"
      BY <2>1, <3>1, <3>2, CreateEffects
    <3>4. HeldVersionsExist'
      BY <2>1, <3>2, <3>3 DEF SettlingInv, HeldVersionsExist, RowExists
    <3> DEFINE reason == client[c].reason
    <3>5. /\ EnsureIssuanceJob(v, reason)
          /\ reason \in JobReasons
          /\ reason # "dns_cleanup"
          /\ reason # "revocation_retry"
      BY <2>1, <3>1 DEF LifecycleReasons
    <3> HIDE DEF reason
    <3> QED
      BY <2>1, <3>2, <3>3, <3>4, <3>5, RowsGrow DEF HoldingStep
  <2>3. CASE client[c].pc = "reuse"
    <3>1. /\ RowExists
          /\ client[c].ver \in Versions
          /\ version[client[c].ver].status # "none"
          /\ UNCHANGED <<version, certStatus>>
          /\ EnsureIssuanceJob(client[c].ver, client[c].reason)
      BY <1>7, <2>3 DEF FinishLifecycle, SettlingInv, HeldVersionsExist
    <3>2. HeldVersionsExist' /\ RowExists'
      BY <2>1, <3>1 DEF SettlingInv, HeldVersionsExist, RowExists
    <3> DEFINE reason == client[c].reason
               v == client[c].ver
    <3>3. /\ EnsureIssuanceJob(v, reason)
          /\ v \in Versions
          /\ version'[v].status # "none"
          /\ reason \in JobReasons
          /\ reason # "dns_cleanup"
          /\ reason # "revocation_retry"
      BY <2>1, <3>1 DEF LifecycleReasons
    <3> HIDE DEF reason, v
    <3> QED
      BY <2>1, <3>1, <3>2, <3>3, RowsGrow DEF HoldingStep
  <2> QED
    BY <1>7, <2>2, <2>3 DEF FinishLifecycle
<1>8. ASSUME NEW c \in Clients, AbandonLifecycle(c)
      PROVE  SettlingInv' /\ HoldingStep
  <2>1. /\ UNCHANGED <<certStatus, version, job, worker, renewer>>
        /\ client'[c].pc = "idle"
        /\ \A d \in Clients \ {c} : client'[d] = client[d]
    BY <1>8 DEF AbandonLifecycle, certVars, IdleClient, TypeOK
  <2>2. HeldVersionsExist'
    BY <2>1 DEF SettlingInv, HeldVersionsExist, RowExists
  <2> QED
    BY <2>1, <2>2 DEF SettlingInv, HoldingStep, HoldingInv, RowlessIsEmpty, ClaimsMatch,
       PCsMatchReasons, JobsMatchVersions, OneActiveJob, FailedIsSettled, HolderKnows,
       SucceededJobSettled,
       RowExists, Active, Fenced, Holds
<1> QED
  BY <1>1, <1>2, <1>3, <1>4, <1>5, <1>6, <1>7, <1>8 DEF ApiStep

(* Null is no version number.                                              *)
LEMMA NullIsNoVersion == NullVersion \notin Versions
  BY DEF NullVersion, Versions

(* Going on to the next revocation changes the loop and not the job.       *)
LEMMA NextRevocationEffects ==
    ASSUME NEW s \in WorkerStates, NEW failed \in BOOLEAN
    PROVE  /\ NextRevocation(s, failed) \in WorkerStates
           /\ NextRevocation(s, failed).pc = "revoke"
           /\ NextRevocation(s, failed).job = s.job
           /\ NextRevocation(s, failed).reason = s.reason
           /\ NextRevocation(s, failed).ver = s.ver
<1>1. NextRevocation(s, failed) \in WorkerStates
  BY NextRevocationTypes
<1>2. /\ NextRevocation(s, failed).pc = "revoke"
      /\ NextRevocation(s, failed).job = s.job
      /\ NextRevocation(s, failed).reason = s.reason
      /\ NextRevocation(s, failed).ver = s.ver
  BY DEF NextRevocation, WorkerStates
<1> QED
  BY <1>1, <1>2

(* MarkACMERevocation records an outcome and leaves the rest as it was.    *)
LEMMA MarkKeepsStatus ==
    ASSUME TypeOK, NEW w \in Workers, MarkACMERevocation(w)
    PROVE  \A v \in Versions : /\ version'[v].status = version[v].status
                               /\ version'[v].reason = version[v].reason
<1> DEFINE u == worker[w].cur
           outcome == MarkOutcome(worker[w].pc)
<1>1. version' = version \/ version' = [version EXCEPT ![u].acme = outcome]
  BY DEF MarkACMERevocation
<1> HIDE DEF u, outcome
<1>2. \A v \in Versions :
         /\ [version EXCEPT ![u].acme = outcome][v].status = version[v].status
         /\ [version EXCEPT ![u].acme = outcome][v].reason = version[v].reason
  BY DEF TypeOK, VersionRows
<1> QED
  BY <1>1, <1>2

(* Steps of a worker that write nothing but its own state.                 *)
LEMMA QuietMoves ==
    ASSUME TypeOK, SettlingInv, NEW w \in Workers, NEW s, NEW pc \in HeldPCs,
           worker[w].pc # "idle",
           worker' = [worker EXCEPT ![w] = s],
           UNCHANGED <<certStatus, version, job, client, renewer>>,
           \/ s = [worker[w] EXCEPT !.pc = pc]
           \/ \E b \in BOOLEAN : s = [worker[w] EXCEPT !.pc = pc, !.bad = b]
           \/ \E S \in SUBSET Versions : s = [worker[w] EXCEPT !.pc = pc, !.todo = S]
           \/ \E v \in Versions : s = [worker[w] EXCEPT !.pc = pc, !.cur = v],
           pc \in IssuingPCs \cup {"load"} => worker[w].reason \in IssuanceReasons,
           pc \in RevokingPCs => worker[w].reason = "revocation_retry",
           pc # "clean",
           pc \in IssuingPCs => version[worker[w].ver].status = "issuing",
           pc = "finish" /\ worker[w].reason \in IssuanceReasons
               => version[worker[w].ver].status \in {"valid", "revoked"}
    PROVE  SettlingInv' /\ (HoldingInv => HoldingInv')
<1>1. /\ s.pc = pc
      /\ s.job = worker[w].job
      /\ s.reason = worker[w].reason
      /\ s.ver = worker[w].ver
  <2>1. worker[w] \in WorkerStates
    BY DEF TypeOK
  <2> QED
    BY <2>1 DEF WorkerStates
<1>2. worker[w] \in WorkerStates
  BY DEF TypeOK
<1>3. s \in WorkerStates
  BY <1>2 DEF WorkerStates
<1> QED
  BY <1>1, <1>3, WorkerMoves DEF RowExists

(* Steps after which the worker is idle and the tables are as before.      *)
LEMMA IdleMoves ==
    ASSUME TypeOK, SettlingInv, NEW w \in Workers, worker' = Stay(w),
           UNCHANGED <<certStatus, version, job, client, renewer>>
    PROVE  SettlingInv' /\ (HoldingInv => HoldingInv')
<1>1. worker' = [worker EXCEPT ![w] = Idle] /\ Idle \in WorkerStates /\ Idle.pc = "idle"
  BY DEF Stay, Idle, WorkerStates, JobReasons
<1> QED
  BY <1>1, WorkerMoves DEF RowExists

(* GoTo and GoFail as updates of one record.                               *)
LEMMA MoveForms ==
    ASSUME TypeOK, NEW w \in Workers, NEW pc, NEW b
    PROVE  /\ GoTo(w, pc) = [worker EXCEPT ![w] = [worker[w] EXCEPT !.pc = pc]]
           /\ GoFail(w, b) = [worker EXCEPT ![w] = [worker[w] EXCEPT !.pc = "fail", !.bad = b]]
  BY DEF GoTo, GoFail, TypeOK

(* The program points of the two kinds of work.                            *)
LEMMA PCFacts ==
    /\ IssuingPCs = {"prepare", "validating", "ordering", "store"}
    /\ RevokingPCs = {"list", "revoke", "mark_ok", "mark_failed"}
  BY DEF IssuingPCs, RevokingPCs

(* The steps of a claimed job keep the invariant.                          *)
LEMMA WorkSettles ==
    ASSUME TypeOK, SettlingInv, NEW w \in Workers, WorkStep(w)
    PROVE  SettlingInv' /\ HoldingStep
<1> USE MoveForms, PCFacts, ProgramPoints
<1>1. CASE LoadVersion(w)
  <2> DEFINE pc == AfterLoad(version[worker[w].ver].status)
  <2>1. /\ worker[w].pc = "load"
        /\ worker' = GoTo(w, pc)
        /\ UNCHANGED <<certStatus, version, job, client, renewer>>
        /\ worker[w].reason \in IssuanceReasons
    BY <1>1 DEF LoadVersion, At, certVars, SettlingInv, PCsMatchReasons
  <2>2. /\ pc \in {"finish", "prepare", "fail"}
        /\ pc = "finish" => version[worker[w].ver].status = "valid"
        /\ pc = "prepare" => version[worker[w].ver].status = "issuing"
    BY DEF AfterLoad
  <2> HIDE DEF pc
  <2>3. pc \in HeldPCs /\ worker' = [worker EXCEPT ![w] = [worker[w] EXCEPT !.pc = pc]]
    BY <2>1, <2>2
  <2> QED
    BY <2>1, <2>2, <2>3, QuietMoves DEF HoldingStep
<1>2. CASE PrepareIssuingVersion(w)
  <2>1. /\ worker[w].pc = "prepare"
        /\ UNCHANGED <<certStatus, version, job, client, renewer>>
        /\ worker[w].reason \in IssuanceReasons
    BY <1>2 DEF PrepareIssuingVersion, At, certVars, SettlingInv, PCsMatchReasons
  <2>2. CASE worker[w].ver \in Issuing /\ worker' = GoTo(w, "validating")
    <3>1. /\ "validating" \in HeldPCs
          /\ worker' = [worker EXCEPT ![w] = [worker[w] EXCEPT !.pc = "validating"]]
          /\ version[worker[w].ver].status = "issuing"
      BY <2>2 DEF Issuing
    <3> QED
      BY <2>1, <3>1, QuietMoves DEF HoldingStep
  <2>3. CASE worker' = GoFail(w, FALSE)
    <3>1. /\ "fail" \in HeldPCs
          /\ worker' = [worker EXCEPT ![w] = [worker[w] EXCEPT !.pc = "fail", !.bad = FALSE]]
      BY <2>3
    <3> QED
      BY <2>1, <3>1, QuietMoves DEF HoldingStep
  <2> QED
    BY <1>2, <2>2, <2>3 DEF PrepareIssuingVersion
<1>3. CASE UpdateCertificateIssuanceStatus(w)
  <2>1. /\ worker[w].pc \in {"validating", "ordering"}
        /\ worker[w].reason \in IssuanceReasons
        /\ UNCHANGED <<version, job, client, renewer>>
        /\ worker[w] \in WorkerStates
    BY <1>3 DEF UpdateCertificateIssuanceStatus, At, SettlingInv, PCsMatchReasons, TypeOK
  <2>2. RowExists' <=> RowExists
    BY <1>3 DEF UpdateCertificateIssuanceStatus, RowExists, StatusIsOpen
  <2>3. (certStatus' = "absent") <=> (certStatus = "absent")
    BY <1>3 DEF UpdateCertificateIssuanceStatus, RowExists, StatusIsOpen
  <2>4. PICK pc \in {"ordering", "store"} : worker' = GoTo(w, pc)
    BY <1>3 DEF UpdateCertificateIssuanceStatus
  <2> DEFINE s == [worker[w] EXCEPT !.pc = pc]
  <2>5. /\ worker' = [worker EXCEPT ![w] = s]
        /\ s \in WorkerStates
        /\ s.pc = pc
        /\ s.job = worker[w].job
        /\ s.reason = worker[w].reason
        /\ s.ver = worker[w].ver
    BY <2>1, <2>4 DEF WorkerStates
  <2>6. HoldingInv /\ Fenced(w) => version[worker[w].ver].status = "issuing"
    BY <2>1 DEF HoldingInv, HolderKnows
  <2> HIDE DEF s
  <2>7. /\ s.pc \notin RevokingPCs \cup {"clean", "finish"}
        /\ worker[w].pc # "idle"
        /\ s.reason \in IssuanceReasons
        /\ HoldingInv /\ Fenced(w) => version[s.ver].status = "issuing"
    BY <2>1, <2>4, <2>5, <2>6
  <2> QED
    BY <2>1, <2>2, <2>3, <2>5, <2>7, WorkerMoves DEF HoldingStep
<1>4. CASE StoreMaterial(w)
  BY <1>4, StoreSettles
<1>5. ASSUME NEW retryable \in BOOLEAN, StepFails(w, retryable)
      PROVE  SettlingInv' /\ HoldingStep
  <2>1. /\ worker[w].pc # "idle"
        /\ UNCHANGED <<certStatus, version, job, client, renewer>>
        /\ worker' = [worker EXCEPT ![w] = [worker[w] EXCEPT !.pc = "fail", !.bad = retryable]]
        /\ "fail" \in HeldPCs
    BY <1>5 DEF StepFails, At, certVars
  <2> QED
    BY <2>1, QuietMoves DEF HoldingStep
<1>6. CASE CleanupPendingChallenges(w)
  <2>1. /\ worker[w].pc = "clean"
        /\ UNCHANGED <<certStatus, version, job, client, renewer>>
        /\ worker' = [worker EXCEPT ![w] = [worker[w] EXCEPT !.pc = "finish"]]
        /\ "finish" \in HeldPCs
        /\ worker[w].reason \notin IssuanceReasons
    BY <1>6 DEF CleanupPendingChallenges, At, certVars, SettlingInv, PCsMatchReasons,
       IssuanceReasons
  <2> QED
    BY <2>1, QuietMoves DEF HoldingStep
<1>7. CASE ListRevoked(w)
  <2>1. /\ worker[w].pc = "list"
        /\ UNCHANGED <<certStatus, version, job, client, renewer>>
        /\ worker[w].reason = "revocation_retry"
    BY <1>7 DEF ListRevoked, At, certVars, SettlingInv, PCsMatchReasons
  <2>2. CASE worker' = GoFail(w, FALSE)
    <3>1. /\ "fail" \in HeldPCs
          /\ worker' = [worker EXCEPT ![w] = [worker[w] EXCEPT !.pc = "fail", !.bad = FALSE]]
      BY <2>2
    <3> QED
      BY <2>1, <3>1, QuietMoves DEF HoldingStep
  <2>3. CASE worker' = [worker EXCEPT ![w] =
                         [@ EXCEPT !.pc = "revoke", !.todo = RevocationsDue]]
    <3>1. /\ "revoke" \in HeldPCs
          /\ RevocationsDue \in SUBSET Versions
          /\ worker' = [worker EXCEPT ![w] =
                         [worker[w] EXCEPT !.pc = "revoke", !.todo = RevocationsDue]]
      BY <2>3 DEF RevocationsDue, TypeOK
    <3> QED
      BY <2>1, <3>1, QuietMoves DEF HoldingStep
  <2> QED
    BY <1>7, <2>2, <2>3 DEF ListRevoked
<1>8. ASSUME NEW v \in Versions, RevokeCertificate(w, v)
      PROVE  SettlingInv' /\ HoldingStep
  <2>1. /\ worker[w].pc = "revoke"
        /\ UNCHANGED <<certStatus, version, job, client, renewer>>
        /\ worker[w].reason = "revocation_retry"
    BY <1>8 DEF RevokeCertificate, At, certVars, SettlingInv, PCsMatchReasons
  <2>2. PICK pc \in {"mark_ok", "mark_failed"} :
            worker' = [worker EXCEPT ![w] = [worker[w] EXCEPT !.pc = pc, !.cur = v]]
    BY <1>8 DEF RevokeCertificate, Answered, TypeOK
  <2>3. pc \in HeldPCs
    BY <2>2
  <2> QED
    BY <2>1, <2>2, <2>3, QuietMoves DEF HoldingStep
<1>9. CASE MarkACMERevocation(w)
  <2>1. /\ worker[w].pc \in {"mark_ok", "mark_failed"}
        /\ UNCHANGED <<certStatus, job, client, renewer>>
        /\ worker[w].reason = "revocation_retry"
        /\ worker[w] \in WorkerStates
    BY <1>9 DEF MarkACMERevocation, At, certVars, SettlingInv, PCsMatchReasons, TypeOK
  <2>2. PICK failed \in BOOLEAN :
            worker' = [worker EXCEPT ![w] = NextRevocation(worker[w], failed)]
    BY <1>9 DEF MarkACMERevocation
  <2> DEFINE s == NextRevocation(worker[w], failed)
  <2>3. /\ s \in WorkerStates
        /\ s.pc = "revoke"
        /\ s.job = worker[w].job
        /\ s.reason = worker[w].reason
        /\ s.ver = worker[w].ver
    BY <2>1, NextRevocationEffects
  <2>4. \A v \in Versions : version'[v].status = version[v].status
    BY <1>9, MarkKeepsStatus
  <2> HIDE DEF s
  <2> QED
    BY <2>1, <2>2, <2>3, <2>4, WorkerMoves DEF HoldingStep, RowExists, s
<1>10. CASE RevocationsDone(w)
  <2>1. /\ worker[w].pc = "revoke"
        /\ UNCHANGED <<certStatus, version, job, client, renewer>>
        /\ worker[w].reason = "revocation_retry"
    BY <1>10 DEF RevocationsDone, At, certVars, SettlingInv, PCsMatchReasons
  <2>2. PICK pc \in {"fail", "finish"} :
            worker' = [worker EXCEPT ![w] = [worker[w] EXCEPT !.pc = pc]]
    BY <1>10 DEF RevocationsDone
  <2>3. pc \in HeldPCs
    BY <2>2
  <2>4. worker[w].reason \notin IssuanceReasons
    BY <2>1 DEF IssuanceReasons
  <2> QED
    BY <2>1, <2>2, <2>3, <2>4, QuietMoves DEF HoldingStep
<1>11. CASE SucceedIssuanceJob(w)
  BY <1>11, SucceedSettles DEF HoldingStep
<1>12. CASE EnqueueCleanup(w)
  <2>1. /\ UNCHANGED <<certStatus, version, client, renewer>>
        /\ worker' = Stay(w)
    BY <1>12 DEF EnqueueCleanup, certVars
  <2>2. CASE UNCHANGED job
    BY <2>1, <2>2, IdleMoves DEF HoldingStep
  <2>3. CASE RowExists /\ EnsureIssuanceJob(NullVersion, "dns_cleanup")
    <3>1. RowExists' /\ HeldVersionsExist'
      BY <2>1, <2>3 DEF RowExists, SettlingInv, HeldVersionsExist
    <3>2. \A u \in Workers : worker'[u] = worker[u] \/ worker'[u] = Idle
      BY <2>1 DEF Stay, TypeOK
    <3>3. "dns_cleanup" \in JobReasons /\ NullVersion \notin Versions
      BY NullIsNoVersion, ReasonsAreReasons
    <3> QED
      BY <2>1, <2>3, <3>1, <3>2, <3>3, RowsGrow DEF HoldingStep
  <2> QED
    BY <1>12, <2>2, <2>3 DEF EnqueueCleanup
<1>13. CASE FailIssuanceJob(w)
  BY <1>13, FailSettles
<1>14. CASE StopAfterLostLease(w)
  BY <1>14, IdleMoves DEF HoldingStep, StopAfterLostLease, certVars
<1> QED
  BY <1>1, <1>2, <1>3, <1>4, <1>5, <1>6, <1>7, <1>8, <1>9, <1>10, <1>11, <1>12,
     <1>13, <1>14 DEF WorkStep

(* Crashes, failed heartbeats and expired leases keep the invariant.       *)
LEMMA FaultSettles ==
    ASSUME TypeOK, SettlingInv, FaultStep
    PROVE  SettlingInv' /\ HoldingStep
<1>1. ASSUME NEW w \in Workers, HeartbeatFails(w)
      PROVE  SettlingInv' /\ HoldingStep
  BY <1>1 DEF HeartbeatFails, certVars, SettlingInv, HoldingStep, HoldingInv, RowlessIsEmpty, ClaimsMatch,
     PCsMatchReasons, JobsMatchVersions, OneActiveJob, FailedIsSettled, HolderKnows,
     HeldVersionsExist, SucceededJobSettled, RowExists, Active, Fenced, Holds
<1>2. ASSUME NEW w \in Workers, Crash(w)
      PROVE  SettlingInv' /\ HoldingStep
  BY <1>2, IdleMoves DEF HoldingStep, Crash, certVars
<1>3. ASSUME NEW j \in Jobs, LeaseExpires(j)
      PROVE  SettlingInv' /\ HoldingStep
  <2>1. \A k \in Jobs : /\ job'[k].status = job[k].status
                        /\ job'[k].ver = job[k].ver
                        /\ job'[k].reason = job[k].reason
                        /\ job'[k].owner = job[k].owner
                        /\ job'[k].live => job[k].live
    BY <1>3 DEF LeaseExpires, TypeOK, JobRows
  <2>2. UNCHANGED <<certStatus, version, worker, client, renewer>>
    BY <1>3 DEF LeaseExpires, certVars
  <2>3. RowlessIsEmpty' /\ ClaimsMatch' /\ PCsMatchReasons' /\ HeldVersionsExist'
    BY <2>1, <2>2 DEF SettlingInv, RowlessIsEmpty, ClaimsMatch, PCsMatchReasons,
       HeldVersionsExist, RowExists
  <2>4. JobsMatchVersions' /\ OneActiveJob' /\ FailedIsSettled'
    BY <2>1, <2>2 DEF SettlingInv, JobsMatchVersions, OneActiveJob, FailedIsSettled, Active
  <2>5. ASSUME HoldingInv
        PROVE  HoldingInv'
    <3>1. \A u \in Workers : Fenced(u)' => Fenced(u)
      BY <2>1, <2>2 DEF Fenced, Holds
    <3>2. HolderKnows'
      BY <2>2, <2>5, <3>1 DEF HoldingInv, HolderKnows
    <3>3. SucceededJobSettled'
      BY <2>1, <2>2, <2>5 DEF HoldingInv, SucceededJobSettled
    <3> QED
      BY <3>2, <3>3 DEF HoldingInv
  <2> QED
    BY <2>3, <2>4, <2>5 DEF SettlingInv, HoldingStep
<1> QED
  BY <1>1, <1>2, <1>3 DEF FaultStep

(* Renewal workers keep the invariant.                                     *)
LEMMA RenewSettles ==
    ASSUME TypeOK, SettlingInv, NEW r \in Renewers, RenewStep(r)
    PROVE  SettlingInv' /\ HoldingStep
<1>1. CASE ListRenewalCandidates(r)
  <2>1. /\ RowExists
        /\ UNCHANGED <<certStatus, version, job, worker, client>>
        /\ renewer'[r].pc # "enqueue"
        /\ \A q \in Renewers \ {r} : renewer'[q] = renewer[q]
    BY <1>1 DEF ListRenewalCandidates, RenewalCandidate, certVars, TypeOK
  <2>2. HeldVersionsExist' /\ RowExists'
    BY <2>1 DEF SettlingInv, HeldVersionsExist, RowExists
  <2> QED
    BY <2>1, <2>2, RowsGrow DEF HoldingStep
<1>2. CASE CreateRenewal(r)
  <2>1. PICK v \in Versions :
         /\ CreateIssuingVersion("renewal", v)
         /\ renewer' = [renewer EXCEPT ![r] =
                          IF version'[v].reason = "renewal"
                          THEN [pc |-> "enqueue", ver |-> v] ELSE IdleRenewer]
    BY <1>2 DEF CreateRenewal
  <2>2. RowExists /\ UNCHANGED <<job, worker, client>>
    BY <1>2, <2>1 DEF CreateRenewal, CreateIssuingVersion, MayInsert, Issuing, SettlingInv,
       RowlessIsEmpty
  <2>3. /\ RowExists'
        /\ version'[v].status = "issuing"
        /\ \A u \in Versions :
             \/ version'[u] = version[u]
             \/ version[u].status = "none" /\ version'[u].status = "issuing"
    BY <2>1, <2>2, CreateEffects, ReasonsAreReasons
  <2>4. /\ renewer'[r].pc = "enqueue" => renewer'[r].ver = v
        /\ \A q \in Renewers \ {r} : renewer'[q] = renewer[q]
    BY <2>1 DEF TypeOK, IdleRenewer
  <2>5. HeldVersionsExist'
    BY <2>2, <2>3, <2>4 DEF SettlingInv, HeldVersionsExist, RowExists
  <2> QED
    BY <2>2, <2>3, <2>5, RowsGrow DEF HoldingStep
<1>3. CASE EnqueueRenewal(r)
  <2> DEFINE v == renewer[r].ver
  <2>1. /\ RowExists
        /\ UNCHANGED <<certStatus, version, worker, client>>
        /\ EnsureIssuanceJob(v, "renewal")
        /\ v \in Versions
        /\ version[v].status # "none"
        /\ renewer'[r].pc # "enqueue"
        /\ \A q \in Renewers \ {r} : renewer'[q] = renewer[q]
    BY <1>3 DEF EnqueueRenewal, SettlingInv, HeldVersionsExist, certVars, TypeOK, IdleRenewer
  <2> HIDE DEF v
  <2>2. HeldVersionsExist' /\ RowExists'
    BY <2>1 DEF SettlingInv, HeldVersionsExist, RowExists
  <2>3. "renewal" \in JobReasons /\ v # NullVersion
    BY <2>1, NullIsNoVersion, ReasonsAreReasons
  <2> QED
    BY <2>1, <2>2, <2>3, RowsGrow DEF HoldingStep
<1>4. CASE RenewerStops(r)
  <2>1. /\ UNCHANGED <<certStatus, version, job, worker, client>>
        /\ renewer'[r].pc # "enqueue"
        /\ \A q \in Renewers \ {r} : renewer'[q] = renewer[q]
    BY <1>4 DEF RenewerStops, certVars, TypeOK, IdleRenewer
  <2>2. HeldVersionsExist'
    BY <2>1 DEF SettlingInv, HeldVersionsExist, RowExists
  <2> QED
    BY <2>1, <2>2 DEF SettlingInv, HoldingStep, HoldingInv, RowlessIsEmpty, ClaimsMatch,
       PCsMatchReasons, JobsMatchVersions, OneActiveJob, FailedIsSettled, HolderKnows,
       SucceededJobSettled,
       RowExists, Active, Fenced, Holds
<1> QED
  BY <1>1, <1>2, <1>3, <1>4 DEF RenewStep

(* The invariant holds while there is no row.                              *)
LEMMA InitSettles == Init => SettlingInv /\ HoldingInv
  BY DEF Init, SettlingInv, HoldingInv, RowlessIsEmpty, ClaimsMatch, PCsMatchReasons,
     JobsMatchVersions, OneActiveJob, FailedIsSettled, HolderKnows, HeldVersionsExist,
     SucceededJobSettled, RowExists, Active, Fenced, Holds, NoVersion, NoJob, Idle,
     IdleClient, IdleRenewer, IssuingPCs, RevokingPCs

(* Every step keeps the first part of the invariant, and the second one    *)
(* when namesakes keep apart.                                              *)
LEMMA StepSettles ==
    TypeOK /\ SettlingInv /\ [Next]_vars => SettlingInv' /\ HoldingStep
<1> SUFFICES ASSUME TypeOK, SettlingInv, [Next]_vars
             PROVE  SettlingInv' /\ HoldingStep
  OBVIOUS
<1>1. CASE ApiStep
  BY <1>1, ApiSettles
<1>2. ASSUME NEW w \in Workers, ClaimNextIssuanceJob(w) \/ WorkStep(w)
      PROVE  SettlingInv' /\ HoldingStep
  BY <1>2, ClaimSettles, WorkSettles
<1>3. CASE FaultStep
  BY <1>3, FaultSettles
<1>4. ASSUME NEW r \in Renewers, RenewStep(r)
      PROVE  SettlingInv' /\ HoldingStep
  BY <1>4, RenewSettles
<1>5. CASE UNCHANGED <<certStatus, version, job, worker, client, renewer>>
  <2>1. SettlingInv'
    BY <1>5 DEF SettlingInv, RowlessIsEmpty, ClaimsMatch, PCsMatchReasons,
       JobsMatchVersions, OneActiveJob, FailedIsSettled, HeldVersionsExist, RowExists, Active
  <2>2. HoldingInv => HoldingInv'
    BY <1>5 DEF HoldingInv, HolderKnows, SucceededJobSettled, Fenced, Holds
  <2> QED
    BY <2>1, <2>2 DEF HoldingStep
<1>6. ASSUME NEW v \in Versions, TimePasses(v)
      PROVE  SettlingInv' /\ HoldingStep
  BY <1>5, <1>6 DEF TimePasses, certVars
<1>7. CASE UNCHANGED vars
  BY <1>5, <1>7 DEF vars, certVars
<1> QED
  BY <1>1, <1>2, <1>3, <1>4, <1>6, <1>7 DEF Next

(* The jobs and the versions agree in every state: the inductive invariant *)
(* behind the theorems below.                                              *)
THEOREM SettlingCorrect == Spec => []SettlingInv
<1>1. TypeOK /\ SettlingInv /\ [Next]_vars => SettlingInv'
  BY StepSettles
<1> QED
  BY <1>1, InitTypes, StepTypes, InitSettles, PTL DEF Spec

(* What the holder of a lease knows is true, in every behaviour in which   *)
(* namesakes keep apart.                                                   *)
THEOREM HoldingCorrect == Spec /\ []NamesakesApart => []HoldingInv
<1>1. TypeOK /\ SettlingInv /\ HoldingInv /\ NamesakesApart /\ NamesakesApart' /\ [Next]_vars
         => HoldingInv'
  BY StepSettles DEF HoldingStep
<1> QED
  BY <1>1, InitSettles, TypeCorrect, SettlingCorrect, PTL DEF Spec

(* A job that ended in success left a version that has been issued, for    *)
(* every number of versions, jobs, workers, requests and replicas, in every *)
(* behaviour in which no worker claims a job that a namesake on another    *)
(* replica still works on: leases may run out and be taken over, by        *)
(* workers of the same replica or of another.                              *)
THEOREM SuccessIsIssuance == Spec /\ []NamesakesApart => []SucceededJobSettled
<1>1. HoldingInv => SucceededJobSettled
  BY DEF HoldingInv
<1> QED
  BY <1>1, HoldingCorrect, PTL

(* With one replica the hypothesis holds of itself: its worker ids are     *)
(* unique.                                                                 *)
THEOREM UniqueNamesSuffice ==
    ASSUME DistinctNames
    PROVE  Spec => []NamesakesApart
<1>1. NamesakesApart
  BY DEF NamesakesApart, DistinctNames
<1> QED
  BY <1>1, PTL

(* After EnsureIssuanceJob the version has a job, new or old.              *)
LEMMA EnsureMakesJob ==
    ASSUME TypeOK, NEW v \in Versions, NEW reason, EnsureIssuanceJob(v, reason)
    PROVE  EveryJobOf(v)' # {}
<1>1. CASE UNCHANGED job /\ \E j \in Jobs : SameSlot(j, v, reason)
  BY <1>1 DEF SameSlot, Active, EveryJobOf
<1>2. ASSUME NEW j \in Jobs, job' = [job EXCEPT ![j] = NewJob(v, reason)]
      PROVE  EveryJobOf(v)' # {}
  <2>1. job'[j].status # "none" /\ job'[j].ver = v
    BY <1>2 DEF NewJob, TypeOK
  <2> QED
    BY <2>1 DEF EveryJobOf
<1> QED
  BY <1>1, <1>2 DEF EnsureIssuanceJob

(* What the steps of the system do to the versions.                        *)
VersionStep ==
    \/ \A v \in Versions : /\ version'[v].status = version[v].status
                           /\ version'[v].reason = version[v].reason
    \/ /\ Issuing = {}
       /\ certStatus' = "gone"
       /\ \A v \in Versions : version'[v].status = "none"
    \/ \E v \in Versions :
         /\ \A u \in Versions \ {v} : version'[u] = version[u]
         /\ \/ /\ version[v].status = "none"
               /\ version'[v].status = "issuing"
               /\ Issuing = {}
               /\ Existing = 1..(v - 1)
               /\ certStatus # "gone"
               /\ enabled'
               /\ version'[v].reason = "renewal" \/ EveryJobOf(v)' # {}
            \/ version[v].status = "valid" /\ version'[v].status = "revoked"
            \/ /\ version[v].status = "issuing"
               /\ \/ version'[v].status = "failed"
                  \/ version'[v].status = "valid" /\ ~OverlapReached(v)
               /\ \E w \in Workers :
                    /\ worker[w].pc \in {"store", "fail"}
                    /\ worker'[w] # worker[w]
                    /\ Fenced(w)
                    /\ worker[w].ver = v
                    /\ job[worker[w].job].ver = v

(* CreateIssuingVersion begins the next version, or changes nothing.       *)
LEMMA CreateSteps ==
    ASSUME TypeOK, RowExists, NEW v \in Versions, NEW reason \in IssuanceReasons,
           CreateIssuingVersion(reason, v), enabled' = enabled,
           reason = "renewal" \/ EnsureIssuanceJob(v, reason)
    PROVE  VersionStep
<1>1. CASE v \in Issuing /\ UNCHANGED <<version, certStatus>>
  BY <1>1 DEF VersionStep
<1>2. CASE MayInsert /\ InsertVersion(reason, v)
  <2>1. /\ version[v].status = "none"
        /\ Issuing = {}
        /\ Existing = 1..(v - 1)
        /\ certStatus # "gone"
        /\ enabled'
    BY <1>2 DEF MayInsert, InsertVersion, Existing, Versions, RowExists
  <2>2. /\ version'[v].status = "issuing"
        /\ version'[v].reason = reason
        /\ \A u \in Versions \ {v} : version'[u] = version[u]
    BY <1>2 DEF InsertVersion, TypeOK
  <2> QED
    BY <2>1, <2>2, EnsureMakesJob DEF VersionStep
<1> QED
  BY <1>1, <1>2 DEF CreateIssuingVersion

(* Every step of the system is one of these.                               *)
LEMMA StepsOfVersions ==
    ASSUME TypeOK, SettlingInv, [Next]_vars
    PROVE  VersionStep
<1> USE ReasonsAreReasons
<1>1. CASE EnsureNew
  <2>1. /\ 1 \in Versions
        /\ version[1].status = "none"
        /\ version'[1].status = "issuing"
        /\ \A u \in Versions \ {1} : version'[u] = version[u]
        /\ certStatus # "gone"
        /\ enabled'
    BY <1>1 DEF EnsureNew, SettlingInv, RowlessIsEmpty, RowExists, TypeOK
  <2>2. Issuing = {} /\ Existing = {}
    BY <1>1 DEF EnsureNew, SettlingInv, RowlessIsEmpty, RowExists, Issuing, Existing
  <2>3. 1..(1 - 1) = {}
    OBVIOUS
  <2>4. EveryJobOf(1)' # {}
    BY <1>1, <2>1, EnsureMakesJob DEF EnsureNew
  <2> QED
    BY <2>1, <2>2, <2>3, <2>4 DEF VersionStep
<1>2. CASE EnsureExisting
  BY <1>2, CreateSteps DEF EnsureExisting
<1>3. ASSUME NEW v \in Versions, RevokeCertificateVersion(v)
      PROVE  VersionStep
  <2>1. \/ UNCHANGED version
        \/ /\ version[v].status = "valid"
           /\ version'[v].status = "revoked"
           /\ \A u \in Versions \ {v} : version'[u] = version[u]
    BY <1>3 DEF RevokeCertificateVersion, TypeOK, VersionRows
  <2> QED
    BY <2>1 DEF VersionStep
<1>4. ASSUME NEW force \in BOOLEAN, DeleteCertificate(force)
      PROVE  VersionStep
  BY <1>4 DEF DeleteCertificate, VersionStep, NoVersion
<1>5. ASSUME NEW c \in Clients, FinishLifecycle(c)
      PROVE  VersionStep
  <2>1. client[c].reason \in IssuanceReasons
    BY DEF TypeOK, ClientStates
  <2>2. CASE client[c].pc = "create"
    <3>1. PICK v \in Versions : /\ CreateIssuingVersion(client[c].reason, v)
                                /\ EnsureIssuanceJob(v, client[c].reason)
      BY <1>5, <2>2 DEF FinishLifecycle
    <3>2. RowExists /\ enabled' = enabled
      BY <1>5, <3>1 DEF FinishLifecycle, CreateIssuingVersion, MayInsert, Issuing, SettlingInv, RowlessIsEmpty
    <3> QED
      BY <2>1, <3>1, <3>2, CreateSteps
  <2>3. CASE UNCHANGED version
    BY <2>3 DEF VersionStep
  <2> QED
    BY <1>5, <2>2, <2>3 DEF FinishLifecycle
<1>6. ASSUME NEW w \in Workers, StoreMaterial(w)
      PROVE  VersionStep
  <2>1. CASE UNCHANGED version
    BY <2>1 DEF VersionStep
  <2>2. CASE /\ MayStore(w)
             /\ ~OverlapReached(worker[w].ver)
             /\ version' = [version EXCEPT ![worker[w].ver].status = "valid"]
             /\ worker' = GoTo(w, "finish")
    <3> DEFINE v == worker[w].ver
    <3>1. /\ Fenced(w)
          /\ job[worker[w].job].ver = v
          /\ version[v].status = "issuing"
          /\ ~OverlapReached(v)
      BY <2>2 DEF MayStore
    <3>2. v \in Versions
      <4>1. /\ worker[w].reason \in IssuanceReasons
            /\ worker[w].pc # "idle"
        BY <1>6 DEF StoreMaterial, At, SettlingInv, PCsMatchReasons, IssuingPCs
      <4> QED
        BY <3>1, <4>1, JobVersions DEF Fenced, Holds, SettlingInv, ClaimsMatch
    <3>3. /\ version'[v].status = "valid"
          /\ \A u \in Versions \ {v} : version'[u] = version[u]
      BY <2>2, <3>2 DEF TypeOK, VersionRows
    <3>4. worker[w].pc = "store" /\ worker'[w] # worker[w]
      BY <1>6, <2>2 DEF StoreMaterial, At, GoTo, TypeOK, WorkerStates
    <3> HIDE DEF v
    <3> QED
      BY <3>1, <3>2, <3>3, <3>4 DEF VersionStep, v
  <2> QED
    BY <1>6, <2>1, <2>2 DEF StoreMaterial
<1>7. ASSUME NEW w \in Workers, FailIssuanceJob(w)
      PROVE  VersionStep
  <2> DEFINE v == job[worker[w].job].ver
  <2>1. CASE UNCHANGED version
    BY <2>1 DEF VersionStep
  <2>2. CASE /\ MayFail(w)
             /\ v \in Issuing
             /\ version' = [version EXCEPT ![v].status = "failed"]
    <3>1. /\ v \in Versions
          /\ version[v].status = "issuing"
          /\ version'[v].status = "failed"
          /\ \A u \in Versions \ {v} : version'[u] = version[u]
      BY <2>2 DEF Issuing, TypeOK, VersionRows
    <3>2. Fenced(w)
      BY <2>2, <3>1, NullIsNoVersion DEF MayFail, SettlingInv, FailedIsSettled
    <3>3. worker[w].ver = v
      BY <1>7, <3>2 DEF FailIssuanceJob, At, Fenced, Holds, SettlingInv, ClaimsMatch
    <3>4. worker[w].pc = "fail" /\ worker'[w] # worker[w]
      BY <1>7 DEF FailIssuanceJob, At, Stay, Idle, TypeOK
    <3> QED
      BY <3>1, <3>2, <3>3, <3>4 DEF VersionStep
  <2> QED
    BY <1>7, <2>1, <2>2 DEF FailIssuanceJob, FailVersion
<1>8. ASSUME NEW r \in Renewers, CreateRenewal(r)
      PROVE  VersionStep
  <2>1. PICK v \in Versions : CreateIssuingVersion("renewal", v)
    BY <1>8 DEF CreateRenewal
  <2>2. RowExists /\ enabled' = enabled
    BY <1>8, <2>1 DEF CreateRenewal, CreateIssuingVersion, MayInsert, Issuing, SettlingInv,
       RowlessIsEmpty
  <2> QED
    BY <2>1, <2>2, CreateSteps
<1>9. ASSUME NEW w \in Workers, MarkACMERevocation(w)
      PROVE  VersionStep
  BY <1>9, MarkKeepsStatus DEF VersionStep
<1>10. CASE UNCHANGED version
  BY <1>10 DEF VersionStep
<1>11. CASE ApiStep
  BY <1>1, <1>2, <1>3, <1>4, <1>5, <1>10, <1>11 DEF ApiStep, UpdateCertificateEnabled,
     StartLifecycle, AbandonLifecycle
<1>12. ASSUME NEW w \in Workers, ClaimNextIssuanceJob(w) \/ WorkStep(w)
       PROVE  VersionStep
  BY <1>6, <1>7, <1>9, <1>10, <1>12 DEF WorkStep, ClaimNextIssuanceJob, LoadVersion,
     PrepareIssuingVersion, UpdateCertificateIssuanceStatus, StepFails,
     CleanupPendingChallenges, ListRevoked, RevokeCertificate, RevocationsDone,
     SucceedIssuanceJob, EnqueueCleanup, StopAfterLostLease
<1>13. CASE FaultStep
  BY <1>10, <1>13 DEF FaultStep, HeartbeatFails, Crash, LeaseExpires
<1>14. ASSUME NEW r \in Renewers, RenewStep(r)
       PROVE  VersionStep
  BY <1>8, <1>10, <1>14 DEF RenewStep, ListRenewalCandidates, EnqueueRenewal, RenewerStops
<1>15. ASSUME NEW v \in Versions, TimePasses(v)
       PROVE  VersionStep
  BY <1>10, <1>15 DEF TimePasses
<1>16. CASE UNCHANGED vars
  BY <1>10, <1>16 DEF vars
<1> QED
  BY <1>11, <1>12, <1>13, <1>14, <1>15, <1>16 DEF Next

(* A version leaves "issuing" only by the statement of a worker that       *)
(* passes the owner fence of a running job for that version: no request,   *)
(* no deletion and no worker that a take-over has fenced out settles it.   *)
(* This holds whatever names the workers of the replicas have.             *)
THEOREM HolderSettles == Spec => OnlyHolderSettles
<1> DEFINE Settle ==
      \A v \in Versions :
         version[v].status = "issuing" /\ version'[v].status # "issuing"
           => \E w \in Workers :
                /\ worker[w].pc \in {"store", "fail"}
                /\ worker'[w] # worker[w]
                /\ Fenced(w)
                /\ worker[w].ver = v
                /\ job[worker[w].job].ver = v
<1>1. TypeOK /\ SettlingInv /\ [Next]_vars => [Settle]_vars
  <2> SUFFICES ASSUME TypeOK, SettlingInv, [Next]_vars
               PROVE  Settle
    OBVIOUS
  <2> QED
    BY StepsOfVersions DEF VersionStep, Issuing
<1> QED
  BY <1>1, TypeCorrect, SettlingCorrect, PTL DEF Spec, OnlyHolderSettles

(* No version is begun while the certificate is disabled, whatever the     *)
(* request or the renewal worker had read before.                          *)
THEOREM StartsEnabled == Spec => NoStartWhileDisabled
<1> DEFINE Start ==
      \A v \in Versions :
         version[v].status = "none" /\ version'[v].status = "issuing" => enabled'
<1>1. TypeOK /\ SettlingInv /\ [Next]_vars => [Start]_vars
  <2> SUFFICES ASSUME TypeOK, SettlingInv, [Next]_vars
               PROVE  Start
    OBVIOUS
  <2> QED
    BY StepsOfVersions DEF VersionStep
<1> QED
  BY <1>1, TypeCorrect, SettlingCorrect, PTL DEF Spec, NoStartWhileDisabled

OneIssuing == \A u, v \in Issuing : u = v

(* Only a renewal is ever begun in a step that makes no job for it.        *)
JobOrRenewal ==
    \A v \in Issuing : EveryJobOf(v) # {} \/ version[v].reason = "renewal"

ProgressInv == OneIssuing /\ StatusTracksVersions /\ JobOrRenewal

(* A version is begun only when none is in progress.                       *)
LEMMA OneIssuingStep ==
    ASSUME OneIssuing, VersionStep
    PROVE  OneIssuing'
  BY DEF OneIssuing, VersionStep, Issuing

(* A job row lives as long as the certificate, with the version it has.    *)
JobsStay ==
    \A j \in Jobs : job[j].status # "none" =>
        job'[j].status # "none" /\ job'[j].ver = job[j].ver

(* EnsureIssuanceJob only fills a free row.                                *)
LEMMA EnsureKeepsJobs ==
    ASSUME TypeOK, NEW v, NEW reason, EnsureIssuanceJob(v, reason)
    PROVE  JobsStay
  BY DEF EnsureIssuanceJob, JobsStay, TypeOK

(* Claiming, retrying and ending a job keep its version.                   *)
LEMMA RowChangesKeepJobs ==
    ASSUME NEW row \in JobRows, row.status # "none"
    PROVE  /\ \A s \in {"succeeded", "failed"} :
                Ended(row, s).status # "none" /\ Ended(row, s).ver = row.ver
           /\ Retried(row).status # "none" /\ Retried(row).ver = row.ver
           /\ \A w \in Workers :
                Claimed(row, w).status # "none" /\ Claimed(row, w).ver = row.ver
<1>1. \A s \in {"succeeded", "failed"} :
         Ended(row, s).status # "none" /\ Ended(row, s).ver = row.ver
  BY DEF Ended, JobRows
<1>2. \A w \in Workers :
         Claimed(row, w).status # "none" /\ Claimed(row, w).ver = row.ver
  BY DEF Claimed, JobRows
<1> QED
  BY <1>1, <1>2, RowEffects

(* Jobs stay until the certificate is deleted.                             *)
LEMMA StepsOfJobs ==
    ASSUME TypeOK, SettlingInv, [Next]_vars
    PROVE  JobsStay \/ (Issuing' = {} /\ certStatus' = "gone")
<1>1. ASSUME UNCHANGED job
      PROVE  JobsStay
  BY <1>1 DEF JobsStay
<1>2. ASSUME NEW v, NEW reason, EnsureIssuanceJob(v, reason)
      PROVE  JobsStay
  BY <1>2, EnsureKeepsJobs
<1>3. ASSUME NEW force \in BOOLEAN, DeleteCertificate(force)
      PROVE  Issuing' = {} /\ certStatus' = "gone"
  BY <1>3 DEF DeleteCertificate, Issuing, NoVersion
<1>4. CASE ApiStep
  BY <1>1, <1>2, <1>3, <1>4 DEF ApiStep, EnsureNew, EnsureExisting, StartLifecycle,
     FinishLifecycle, AbandonLifecycle, UpdateCertificateEnabled, RevokeCertificateVersion
<1>5. ASSUME NEW w \in Workers, ClaimNextIssuanceJob(w)
      PROVE  JobsStay
  <2>1. PICK j \in Jobs : Claimable(j) /\ job' = [job EXCEPT ![j] = Claimed(job[j], w)]
    BY <1>5 DEF ClaimNextIssuanceJob
  <2>2. /\ job'[j] = Claimed(job[j], w)
        /\ \A k \in Jobs \ {j} : job'[k] = job[k]
        /\ job[j] \in JobRows
    BY <2>1 DEF TypeOK
  <2> QED
    BY <2>2, RowChangesKeepJobs DEF JobsStay
<1>6. ASSUME NEW w \in Workers, SucceedIssuanceJob(w), ~UNCHANGED job
      PROVE  JobsStay
  <2> DEFINE j == worker[w].job
  <2>1. /\ j \in Jobs
        /\ job' = [job EXCEPT ![j] = Ended(job[j], "succeeded")]
    BY <1>6 DEF SucceedIssuanceJob, MaySucceed, Fenced
  <2>2. /\ job'[j] = Ended(job[j], "succeeded")
        /\ \A k \in Jobs \ {j} : job'[k] = job[k]
        /\ job[j] \in JobRows
    BY <2>1 DEF TypeOK
  <2> HIDE DEF j
  <2> QED
    BY <2>1, <2>2, RowChangesKeepJobs DEF JobsStay
<1>7. ASSUME NEW w \in Workers, FailIssuanceJob(w), ~UNCHANGED job
      PROVE  JobsStay
  <2> DEFINE j == worker[w].job
  <2>1. /\ j \in Jobs
        /\ \/ job' = [job EXCEPT ![j] = Ended(job[j], "failed")]
           \/ job' = [job EXCEPT ![j] = Retried(job[j])]
    BY <1>7 DEF FailIssuanceJob, MayFail, Fenced, RetryJob, GiveUpJob
  <2>2. /\ job'[j] = Ended(job[j], "failed") \/ job'[j] = Retried(job[j])
        /\ \A k \in Jobs \ {j} : job'[k] = job[k]
        /\ job[j] \in JobRows
    BY <2>1 DEF TypeOK
  <2> HIDE DEF j
  <2> QED
    BY <2>1, <2>2, RowChangesKeepJobs DEF JobsStay
<1>8. ASSUME NEW w \in Workers, WorkStep(w)
      PROVE  JobsStay
  <2>1. CASE EnqueueCleanup(w)
    BY <1>1, <1>2, <2>1 DEF EnqueueCleanup
  <2> QED
    BY <1>1, <1>6, <1>7, <1>8, <2>1 DEF WorkStep, LoadVersion, PrepareIssuingVersion,
       UpdateCertificateIssuanceStatus, StoreMaterial, StepFails, CleanupPendingChallenges,
       ListRevoked, RevokeCertificate, MarkACMERevocation, RevocationsDone, StopAfterLostLease
<1>9. CASE FaultStep
  <2>1. ASSUME NEW j \in Jobs, LeaseExpires(j)
        PROVE  JobsStay
    BY <2>1 DEF LeaseExpires, JobsStay, TypeOK, JobRows
  <2> QED
    BY <1>1, <1>9, <2>1 DEF FaultStep, HeartbeatFails, Crash
<1>10. ASSUME NEW r \in Renewers, RenewStep(r)
       PROVE  JobsStay
  BY <1>1, <1>2, <1>10 DEF RenewStep, ListRenewalCandidates, CreateRenewal, EnqueueRenewal,
     RenewerStops
<1>11. ASSUME NEW v \in Versions, TimePasses(v)
       PROVE  JobsStay
  BY <1>1, <1>11 DEF TimePasses
<1>12. CASE UNCHANGED vars
  BY <1>1, <1>12 DEF vars
<1> QED
  BY <1>4, <1>5, <1>8, <1>9, <1>10, <1>11, <1>12 DEF Next

(* A version in progress keeps the job it once had.                        *)
LEMMA JobOrRenewalStep ==
    ASSUME JobOrRenewal, VersionStep, JobsStay \/ Issuing' = {}
    PROVE  JobOrRenewal'
<1> SUFFICES ASSUME NEW v \in Versions, version'[v].status = "issuing", JobsStay
             PROVE  EveryJobOf(v)' # {} \/ version'[v].reason = "renewal"
  BY DEF JobOrRenewal, Issuing
<1>1. EveryJobOf(v) # {} => EveryJobOf(v)' # {}
  BY DEF JobsStay, EveryJobOf
<1>2. CASE version[v].status = "issuing" /\ version'[v].reason = version[v].reason
  BY <1>1, <1>2 DEF JobOrRenewal, Issuing
<1> QED
  BY <1>1, <1>2 DEF VersionStep

(* Expiry of a version cannot make the status wrong.                       *)
LEMMA SameTracks ==
    ASSUME StatusTracksVersions, certStatus' = certStatus, Issuing' = Issuing,
           ActiveValid' \subseteq ActiveValid
    PROVE  StatusTracksVersions'
  BY DEF StatusTracksVersions

(* A new version comes with a status that says so.                         *)
LEMMA CreateTracks ==
    ASSUME TypeOK, StatusTracksVersions, NEW v \in Versions, NEW reason,
           CreateIssuingVersion(reason, v), UNCHANGED age
    PROVE  StatusTracksVersions'
<1>1. CASE UNCHANGED <<version, certStatus>>
  BY <1>1, SameTracks DEF Issuing, ActiveValid
<1>2. CASE InsertVersion(reason, v)
  <2>1. v \in Issuing' /\ certStatus' # "failed"
    BY <1>2 DEF InsertVersion, TypeOK, Issuing, StatusForReason
  <2> QED
    BY <2>1 DEF StatusTracksVersions
<1> QED
  BY <1>1, <1>2 DEF CreateIssuingVersion

(* Every step keeps the status of the certificate truthful.                *)
LEMMA StatusStep ==
    ASSUME TypeOK, OneIssuing, StatusTracksVersions, [Next]_vars
    PROVE  StatusTracksVersions'
<1>1. ASSUME UNCHANGED <<certStatus, version, age>>
      PROVE  StatusTracksVersions'
  BY <1>1, SameTracks DEF Issuing, ActiveValid
<1>2. CASE EnsureNew
  <2>1. 1 \in Issuing' /\ certStatus' = "issuing"
    BY <1>2 DEF EnsureNew, TypeOK, Issuing, StatusForReason
  <2> QED
    BY <2>1 DEF StatusTracksVersions
<1>3. CASE EnsureExisting
  BY <1>3, CreateTracks DEF EnsureExisting
<1>4. ASSUME NEW v \in Versions, RevokeCertificateVersion(v)
      PROVE  StatusTracksVersions'
  <2>1. CASE UNCHANGED <<version, certStatus>>
    BY <1>1, <1>4, <2>1 DEF RevokeCertificateVersion
  <2>2. CASE /\ version[v].status = "valid"
             /\ version' = [version EXCEPT ![v] =
                              [@ EXCEPT !.status = "revoked", !.acme = "pending"]]
             /\ certStatus' = StatusAfterRevoke
    <3>1. Issuing' = Issuing /\ ActiveValid' \subseteq ActiveValid
      <4>1. /\ version'[v].status = "revoked"
            /\ \A u \in Versions \ {v} : version'[u] = version[u]
        BY <2>2 DEF TypeOK, VersionRows
      <4>2. age' = age
        BY <1>4 DEF RevokeCertificateVersion
      <4> QED
        BY <2>2, <4>1, <4>2 DEF Issuing, ActiveValid
    <3>2. CASE certStatus' = "ready"
      BY <3>2 DEF StatusTracksVersions
    <3>3. CASE certStatus' = certStatus
      BY <3>1, <3>3, SameTracks
    <3> QED
      BY <2>2, <3>2, <3>3 DEF StatusAfterRevoke
  <2> QED
    BY <1>4, <2>1, <2>2 DEF RevokeCertificateVersion
<1>5. ASSUME NEW force \in BOOLEAN, DeleteCertificate(force)
      PROVE  StatusTracksVersions'
  BY <1>5 DEF DeleteCertificate, StatusTracksVersions
<1>6. ASSUME NEW c \in Clients, FinishLifecycle(c)
      PROVE  StatusTracksVersions'
  BY <1>1, <1>6, CreateTracks DEF FinishLifecycle
<1>7. CASE ApiStep
  BY <1>1, <1>2, <1>3, <1>4, <1>5, <1>6, <1>7 DEF ApiStep, UpdateCertificateEnabled,
     StartLifecycle, AbandonLifecycle, certVars
<1>8. ASSUME NEW w \in Workers, UpdateCertificateIssuanceStatus(w)
      PROVE  StatusTracksVersions'
  <2>1. UNCHANGED <<version, age>>
    BY <1>8 DEF UpdateCertificateIssuanceStatus
  <2>2. CASE UNCHANGED certStatus
    BY <1>1, <2>1, <2>2
  <2>3. CASE StatusIsOpen /\ certStatus' \in {"validating_dns", "issuing"}
    <3>1. Issuing # {}
      BY <2>3 DEF StatusIsOpen, RowExists, StatusTracksVersions, TypeOK, CertStatuses
    <3> QED
      BY <2>1, <2>3, <3>1 DEF StatusTracksVersions, Issuing
  <2> QED
    BY <1>8, <2>2, <2>3 DEF UpdateCertificateIssuanceStatus
<1>9. ASSUME NEW w \in Workers, StoreMaterial(w)
      PROVE  StatusTracksVersions'
  <2>1. CASE certStatus' = "ready"
    BY <2>1 DEF StatusTracksVersions
  <2> QED
    BY <1>1, <1>9, <2>1 DEF StoreMaterial
<1>10. ASSUME NEW w \in Workers, MarkACMERevocation(w)
       PROVE  StatusTracksVersions'
  <2>1. UNCHANGED <<certStatus, age>>
    BY <1>10 DEF MarkACMERevocation, certVars
  <2>2. Issuing' = Issuing /\ ActiveValid' = ActiveValid
    BY <1>10, <2>1, MarkKeepsStatus DEF Issuing, ActiveValid
  <2> QED
    BY <2>1, <2>2, SameTracks
<1>11. ASSUME NEW w \in Workers, FailIssuanceJob(w)
       PROVE  StatusTracksVersions'
  <2>1. UNCHANGED age
    BY <1>11 DEF FailIssuanceJob
  <2> DEFINE v == job[worker[w].job].ver
  <2>2. CASE UNCHANGED <<version, certStatus>>
    BY <1>1, <2>1, <2>2
  <2>3. CASE /\ v \in Issuing
             /\ version' = [version EXCEPT ![v].status = "failed"]
             /\ certStatus' = IF ActiveValid # {} THEN "ready" ELSE "failed"
    <3>1. /\ v \in Versions
          /\ version'[v].status = "failed"
          /\ \A u \in Versions \ {v} : version'[u] = version[u]
      BY <2>3 DEF Issuing, TypeOK, VersionRows
    <3>2. Issuing' = {}
      BY <2>3, <3>1 DEF OneIssuing, Issuing
    <3>3. ActiveValid' \subseteq ActiveValid
      BY <2>1, <3>1 DEF ActiveValid
    <3> QED
      BY <2>3, <3>2, <3>3 DEF StatusTracksVersions
  <2> QED
    BY <1>11, <2>2, <2>3 DEF FailIssuanceJob, FailVersion
<1>12. ASSUME NEW w \in Workers, ClaimNextIssuanceJob(w) \/ WorkStep(w)
       PROVE  StatusTracksVersions'
  BY <1>1, <1>8, <1>9, <1>10, <1>11, <1>12 DEF WorkStep, ClaimNextIssuanceJob, LoadVersion,
     PrepareIssuingVersion, StepFails, CleanupPendingChallenges, ListRevoked,
     RevokeCertificate, RevocationsDone, SucceedIssuanceJob, EnqueueCleanup,
     StopAfterLostLease, certVars
<1>13. CASE FaultStep
  BY <1>1, <1>13 DEF FaultStep, HeartbeatFails, Crash, LeaseExpires, certVars
<1>14. ASSUME NEW r \in Renewers, RenewStep(r)
       PROVE  StatusTracksVersions'
  <2>1. CASE CreateRenewal(r)
    BY <2>1, CreateTracks DEF CreateRenewal
  <2> QED
    BY <1>1, <1>14, <2>1 DEF RenewStep, ListRenewalCandidates, EnqueueRenewal, RenewerStops,
       certVars
<1>15. ASSUME NEW v \in Versions, TimePasses(v)
       PROVE  StatusTracksVersions'
  <2>1. /\ UNCHANGED <<certStatus, version>>
        /\ \A u \in Versions : age'[u] # "expired" => age[u] # "expired"
    BY <1>15 DEF TimePasses, certVars, TypeOK
  <2>2. Issuing' = Issuing /\ ActiveValid' \subseteq ActiveValid
    BY <2>1 DEF Issuing, ActiveValid
  <2> QED
    BY <2>1, <2>2, SameTracks
<1>16. CASE UNCHANGED vars
  BY <1>1, <1>16 DEF vars, certVars
<1> QED
  BY <1>7, <1>12, <1>13, <1>14, <1>15, <1>16 DEF Next

(* One version at most is in progress, the status says so, and it has had  *)
(* a job or is a renewal.                                                  *)
THEOREM ProgressCorrect == Spec => []ProgressInv
<1>1. Init => ProgressInv
  BY DEF Init, ProgressInv, OneIssuing, StatusTracksVersions, JobOrRenewal, Issuing, NoVersion
<1>2. TypeOK /\ SettlingInv /\ ProgressInv /\ [Next]_vars => ProgressInv'
  BY StepsOfVersions, StepsOfJobs, OneIssuingStep, JobOrRenewalStep, StatusStep DEF ProgressInv
<1> QED
  BY <1>1, <1>2, TypeCorrect, SettlingCorrect, PTL DEF Spec

(* A certificate reads as failed only when nothing can be served or is on  *)
(* its way, and as in progress only when a version is, whatever a worker   *)
(* without a lease writes late (UpdateCertificateIssuanceStatus has no     *)
(* fence).                                                                 *)
THEOREM StatusIsTruthful == Spec => []StatusTracksVersions
<1>1. ProgressInv => StatusTracksVersions
  BY DEF ProgressInv
<1> QED
  BY <1>1, ProgressCorrect, PTL

(* A version being issued has an active job, or is a renewal that never    *)
(* got one: no crash, retry, expired or taken-over lease orphans another,  *)
(* in every behaviour in which namesakes keep apart.                       *)
THEOREM IssuingIsBacked == Spec /\ []NamesakesApart => []IssuingBacked
<1>1. TypeOK /\ SettlingInv /\ SucceededJobSettled /\ ProgressInv => IssuingBacked
  <2> SUFFICES ASSUME TypeOK, SettlingInv, SucceededJobSettled, ProgressInv, NEW v \in Issuing,
                      EveryJobOf(v) # {}
               PROVE  \E j \in Jobs : Active(j) /\ job[j].ver = v
    BY DEF IssuingBacked, ProgressInv, JobOrRenewal
  <2>1. PICK j \in Jobs : job[j].ver = v /\ job[j].status # "none"
    BY DEF EveryJobOf
  <2>2. job[j].status # "failed"
    BY <2>1, NullIsNoVersion DEF SettlingInv, FailedIsSettled, Issuing
  <2>3. job[j].status # "succeeded"
    <3>1. job[j].reason \in JobReasons
      BY DEF TypeOK, JobRows
    <3>2. job[j].reason # "dns_cleanup" /\ job[j].reason # "revocation_retry"
      BY <2>1, NullIsNoVersion DEF SettlingInv, JobsMatchVersions, Issuing
    <3> QED
      BY <2>1, <3>1, <3>2 DEF SucceededJobSettled, JobReasons, Issuing
  <2> QED
    BY <2>1, <2>2, <2>3, JobTypes DEF Active, JobRows
<1> QED
  BY <1>1, TypeCorrect, SettlingCorrect, SuccessIsIssuance, ProgressCorrect, PTL

(* Jobs and versions agree in both ways, through crashes, retries and      *)
(* take-overs, for every number of versions, jobs, workers, requests and   *)
(* replicas, in every behaviour in which namesakes keep apart.             *)
THEOREM JobsDoAgree == Spec /\ []NamesakesApart => []JobsAgree
<1>1. SucceededJobSettled /\ IssuingBacked => JobsAgree
  BY DEF JobsAgree
<1> QED
  BY <1>1, SuccessIsIssuance, IssuingIsBacked, PTL

(* What a worker in completeRevocationRetry has seen: only versions that   *)
(* were revoked, and a successful answer only for one the CA has revoked.  *)
RevokersKnow ==
    certStatus # "gone" =>
        \A w \in Workers :
            /\ worker[w].pc \in {"revoke", "mark_ok", "mark_failed"} =>
                 \A v \in worker[w].todo : version[v].status = "revoked"
            /\ worker[w].pc \in {"mark_ok", "mark_failed"} => worker[w].cur \in worker[w].todo
            /\ worker[w].pc = "mark_ok" => worker[w].cur \in caRevoked

RevocationInv == RevokersKnow /\ RemoteRevocationTruthful

(* A deleted certificate stays deleted.                                    *)
LEMMA GoneStays ==
    ASSUME TypeOK, SettlingInv, [Next]_vars, certStatus = "gone"
    PROVE  certStatus' = "gone"
<1>1. /\ ~RowExists
      /\ Issuing = {}
      /\ \A w \in Workers : ~Fenced(w)
      /\ \A j \in Jobs : job[j].status = "none"
  BY DEF RowExists, SettlingInv, RowlessIsEmpty, Issuing, Fenced, Holds
<1>2. ASSUME NEW v, NEW reason, CreateIssuingVersion(reason, v)
      PROVE  FALSE
  BY <1>1, <1>2 DEF CreateIssuingVersion, MayInsert
<1>3. CASE ApiStep
  BY <1>1, <1>2, <1>3 DEF ApiStep, EnsureNew, EnsureExisting, StartLifecycle,
     FinishLifecycle, AbandonLifecycle, UpdateCertificateEnabled, RevokeCertificateVersion,
     DeleteCertificate, certVars
<1>4. ASSUME NEW w \in Workers, ClaimNextIssuanceJob(w) \/ WorkStep(w)
      PROVE  certStatus' = "gone"
  BY <1>1, <1>4 DEF WorkStep, ClaimNextIssuanceJob, LoadVersion,
     PrepareIssuingVersion, UpdateCertificateIssuanceStatus, StatusIsOpen, StoreMaterial,
     MayStore, StepFails, CleanupPendingChallenges, ListRevoked, RevokeCertificate,
     MarkACMERevocation, RevocationsDone, SucceedIssuanceJob, EnqueueCleanup,
     FailIssuanceJob, FailVersion, StopAfterLostLease, certVars
<1>5. CASE FaultStep
  BY <1>5 DEF FaultStep, HeartbeatFails, Crash, LeaseExpires, certVars
<1>6. ASSUME NEW r \in Renewers, RenewStep(r)
      PROVE  certStatus' = "gone"
  BY <1>2, <1>6 DEF RenewStep, ListRenewalCandidates, CreateRenewal, EnqueueRenewal,
     RenewerStops, certVars
<1>7. ASSUME NEW v \in Versions, TimePasses(v)
      PROVE  certStatus' = "gone"
  BY <1>7 DEF TimePasses, certVars
<1>8. CASE UNCHANGED vars
  BY <1>8 DEF vars, certVars
<1> QED
  BY <1>3, <1>4, <1>5, <1>6, <1>7, <1>8 DEF Next

(* A remote success is recorded by a worker that has the CA's answer.      *)
AcmeStep ==
    \A v \in Versions :
        version'[v].acme = "succeeded" =>
            \/ version[v].acme = "succeeded"
            \/ \E w \in Workers : worker[w].pc = "mark_ok" /\ worker[w].cur = v

(* A new version has no remote revocation.                                 *)
LEMMA CreateAcme ==
    ASSUME TypeOK, NEW v \in Versions, NEW reason, CreateIssuingVersion(reason, v)
    PROVE  AcmeStep
  BY DEF CreateIssuingVersion, InsertVersion, AcmeStep, TypeOK

(* A change of status leaves the remote revocation alone.                  *)
LEMMA StatusChangeAcme ==
    ASSUME TypeOK, NEW u, NEW s, version' = [version EXCEPT ![u].status = s]
    PROVE  AcmeStep
  BY DEF AcmeStep, TypeOK, VersionRows

(* Every step treats the remote revocations like this.                     *)
LEMMA StepsOfAcme ==
    ASSUME TypeOK, SettlingInv, [Next]_vars
    PROVE  AcmeStep
<1>1. ASSUME UNCHANGED version
      PROVE  AcmeStep
  BY <1>1 DEF AcmeStep
<1>2. CASE EnsureNew
  BY <1>2 DEF EnsureNew, AcmeStep, TypeOK
<1>3. ASSUME NEW v \in Versions, RevokeCertificateVersion(v)
      PROVE  AcmeStep
  BY <1>1, <1>3 DEF RevokeCertificateVersion, AcmeStep, TypeOK, VersionRows
<1>4. CASE ApiStep
  BY <1>1, <1>2, <1>3, <1>4, CreateAcme DEF ApiStep, EnsureExisting, StartLifecycle,
     FinishLifecycle, AbandonLifecycle, UpdateCertificateEnabled, DeleteCertificate,
     NoVersion, AcmeStep
<1>5. ASSUME NEW w \in Workers, MarkACMERevocation(w)
      PROVE  AcmeStep
  <2> DEFINE u == worker[w].cur
             outcome == MarkOutcome(worker[w].pc)
  <2>1. version' = version \/ version' = [version EXCEPT ![u].acme = outcome]
    BY <1>5 DEF MarkACMERevocation
  <2>2. outcome = "succeeded" => worker[w].pc = "mark_ok"
    BY DEF MarkOutcome
  <2>3. CASE version' = [version EXCEPT ![u].acme = outcome]
    <3> SUFFICES ASSUME NEW v \in Versions, version'[v].acme = "succeeded",
                        version[v].acme # "succeeded"
                 PROVE  worker[w].pc = "mark_ok" /\ u = v
      BY DEF AcmeStep
    <3> HIDE DEF u, outcome
    <3>1. u = v
      BY <2>3 DEF TypeOK, VersionRows
    <3>2. outcome = "succeeded"
      BY <2>3, <3>1 DEF TypeOK, VersionRows
    <3> QED
      BY <2>2, <3>1, <3>2
  <2> QED
    BY <1>1, <2>1, <2>3
<1>6. ASSUME NEW w \in Workers, StoreMaterial(w)
      PROVE  AcmeStep
  BY <1>1, <1>6, StatusChangeAcme DEF StoreMaterial
<1>7. ASSUME NEW w \in Workers, FailIssuanceJob(w)
      PROVE  AcmeStep
  BY <1>1, <1>7, StatusChangeAcme DEF FailIssuanceJob, FailVersion
<1>8. ASSUME NEW w \in Workers, ClaimNextIssuanceJob(w) \/ WorkStep(w)
      PROVE  AcmeStep
  BY <1>1, <1>5, <1>6, <1>7, <1>8 DEF WorkStep, ClaimNextIssuanceJob, LoadVersion,
     PrepareIssuingVersion, UpdateCertificateIssuanceStatus, StepFails,
     CleanupPendingChallenges, ListRevoked, RevokeCertificate, RevocationsDone,
     SucceedIssuanceJob, EnqueueCleanup, StopAfterLostLease
<1>9. CASE FaultStep
  BY <1>1, <1>9 DEF FaultStep, HeartbeatFails, Crash, LeaseExpires
<1>10. ASSUME NEW r \in Renewers, RenewStep(r)
       PROVE  AcmeStep
  BY <1>1, <1>10, CreateAcme DEF RenewStep, ListRenewalCandidates, CreateRenewal,
     EnqueueRenewal, RenewerStops
<1>11. ASSUME NEW v \in Versions, TimePasses(v)
       PROVE  AcmeStep
  BY <1>1, <1>11 DEF TimePasses
<1>12. CASE UNCHANGED vars
  BY <1>1, <1>12 DEF vars
<1> QED
  BY <1>4, <1>8, <1>9, <1>10, <1>11, <1>12 DEF Next

Revoking(w) == worker[w].pc \in {"revoke", "mark_ok", "mark_failed"}

(* How a worker comes to hold a list of revocations, and goes through it.  *)
RevokerStep(w) ==
    Revoking(w)' =>
        \/ worker'[w] = worker[w]
        \/ /\ worker'[w].pc = "revoke"
           /\ worker'[w].todo = RevocationsDue
           /\ UNCHANGED version
        \/ /\ Revoking(w)
           /\ worker'[w].pc = "revoke"
           /\ worker'[w].todo \subseteq worker[w].todo
        \/ /\ worker[w].pc = "revoke"
           /\ worker'[w].pc \in {"mark_ok", "mark_failed"}
           /\ worker'[w].todo = worker[w].todo
           /\ worker'[w].cur \in worker[w].todo
           /\ worker'[w].pc = "mark_ok" => worker'[w].cur \in caRevoked'

(* What the CA revokes, some worker has on its list.                       *)
CAStep ==
    /\ caRevoked \subseteq caRevoked'
    /\ \A v \in caRevoked' \ caRevoked :
         /\ version'[v].status = version[v].status
         /\ \E w \in Workers : worker[w].pc = "revoke" /\ v \in worker[w].todo

(* Every step treats the CA like this.                                     *)
LEMMA StepsOfCA ==
    ASSUME TypeOK, [Next]_vars
    PROVE  CAStep
<1>1. ASSUME UNCHANGED caRevoked
      PROVE  CAStep
  BY <1>1 DEF CAStep
<1>2. ASSUME NEW w \in Workers, NEW v \in Versions, RevokeCertificate(w, v)
      PROVE  CAStep
  BY <1>2 DEF RevokeCertificate, At, CAStep
<1>3. CASE ApiStep
  BY <1>1, <1>3 DEF ApiStep, EnsureNew, EnsureExisting, StartLifecycle, FinishLifecycle,
     AbandonLifecycle, UpdateCertificateEnabled, RevokeCertificateVersion, DeleteCertificate
<1>4. ASSUME NEW w \in Workers, ClaimNextIssuanceJob(w) \/ WorkStep(w)
      PROVE  CAStep
  BY <1>1, <1>2, <1>4 DEF WorkStep, ClaimNextIssuanceJob, LoadVersion,
     PrepareIssuingVersion, UpdateCertificateIssuanceStatus, StoreMaterial, StepFails,
     CleanupPendingChallenges, ListRevoked, MarkACMERevocation, RevocationsDone,
     SucceedIssuanceJob, EnqueueCleanup, FailIssuanceJob, StopAfterLostLease
<1>5. CASE FaultStep
  BY <1>1, <1>5 DEF FaultStep, HeartbeatFails, Crash, LeaseExpires
<1>6. ASSUME NEW r \in Renewers, RenewStep(r)
      PROVE  CAStep
  BY <1>1, <1>6 DEF RenewStep, ListRenewalCandidates, CreateRenewal, EnqueueRenewal,
     RenewerStops
<1>7. ASSUME NEW v \in Versions, TimePasses(v)
      PROVE  CAStep
  BY <1>1, <1>7 DEF TimePasses
<1>8. CASE UNCHANGED vars
  BY <1>1, <1>8 DEF vars
<1> QED
  BY <1>3, <1>4, <1>5, <1>6, <1>7, <1>8 DEF Next

(* A worker changes its own state only.                                    *)
LEMMA OtherWorkers ==
    ASSUME TypeOK, NEW w \in Workers, ClaimNextIssuanceJob(w) \/ WorkStep(w),
           NEW u \in Workers, u # w
    PROVE  worker'[u] = worker[u]
  BY DEF TypeOK, WorkStep, ClaimNextIssuanceJob, LoadVersion, PrepareIssuingVersion,
     UpdateCertificateIssuanceStatus, StoreMaterial, StepFails, CleanupPendingChallenges,
     ListRevoked, RevokeCertificate, Answered, MarkACMERevocation, RevocationsDone,
     SucceedIssuanceJob, EnqueueCleanup, FailIssuanceJob, StopAfterLostLease, GoTo, GoFail,
     Stay

(* Moves outside the revocation loop bring no worker into it.              *)
LEMMA OtherPCs ==
    ASSUME TypeOK, NEW w \in Workers
    PROVE  /\ \A pc : worker' = GoTo(w, pc) /\ pc \notin {"revoke", "mark_ok", "mark_failed"}
                        => RevokerStep(w)
           /\ \A b : worker' = GoFail(w, b) => RevokerStep(w)
           /\ worker' = Stay(w) => RevokerStep(w)
<1>1. worker[w] \in WorkerStates
  BY DEF TypeOK
<1>2. ASSUME NEW pc, worker' = GoTo(w, pc), pc \notin {"revoke", "mark_ok", "mark_failed"}
      PROVE  RevokerStep(w)
  <2>1. worker'[w].pc = pc
    BY <1>1, <1>2 DEF TypeOK, GoTo, WorkerStates
  <2> QED
    BY <1>2, <2>1 DEF RevokerStep, Revoking
<1>3. ASSUME NEW b, worker' = GoFail(w, b)
      PROVE  RevokerStep(w)
  <2>1. worker'[w].pc = "fail"
    BY <1>1, <1>3 DEF TypeOK, GoFail, WorkerStates
  <2> QED
    BY <2>1 DEF RevokerStep, Revoking
<1>4. ASSUME worker' = Stay(w)
      PROVE  RevokerStep(w)
  <2>1. worker'[w].pc = "idle"
    BY <1>4 DEF TypeOK, Stay, Idle
  <2> QED
    BY <2>1 DEF RevokerStep, Revoking
<1> QED
  BY <1>2, <1>3, <1>4

(* What a worker does to its own revocation loop.                          *)
LEMMA OwnRevokerStep ==
    ASSUME TypeOK, NEW w \in Workers, ClaimNextIssuanceJob(w) \/ WorkStep(w)
    PROVE  RevokerStep(w)
<1>1. CASE ClaimNextIssuanceJob(w)
  <2>1. PICK j \in Jobs : worker' = [worker EXCEPT ![w] = ClaimingWorker(j)]
    BY <1>1 DEF ClaimNextIssuanceJob
  <2>2. FirstPC(job[j].reason) \in {"clean", "list", "load"}
    BY DEF FirstPC
  <2> QED
    BY <2>1, <2>2 DEF ClaimingWorker, Idle, RevokerStep, Revoking, TypeOK
<1>2. CASE ListRevoked(w)
  <2>1. CASE worker' = GoFail(w, FALSE)
    BY <2>1, OtherPCs
  <2>2. CASE worker' = [worker EXCEPT ![w] =
                         [@ EXCEPT !.pc = "revoke", !.todo = RevocationsDue]]
    <3>1. worker'[w].pc = "revoke" /\ worker'[w].todo = RevocationsDue
      BY <2>2 DEF TypeOK, WorkerStates
    <3> QED
      BY <1>2, <3>1 DEF ListRevoked, RevokerStep
  <2> QED
    BY <1>2, <2>1, <2>2 DEF ListRevoked
<1>3. ASSUME NEW v \in Versions, RevokeCertificate(w, v)
      PROVE  RevokerStep(w)
  <2>1. \A pc \in {"mark_ok", "mark_failed"} :
           worker' = Answered(w, v, pc) => /\ worker'[w].pc = pc
                                           /\ worker'[w].cur = v
                                           /\ worker'[w].todo = worker[w].todo
    BY DEF Answered, TypeOK, WorkerStates
  <2> QED
    BY <1>3, <2>1 DEF RevokeCertificate, At, RevokerStep, Revoking
<1>4. CASE MarkACMERevocation(w)
  <2>1. PICK failed \in BOOLEAN :
            worker' = [worker EXCEPT ![w] = NextRevocation(worker[w], failed)]
    BY <1>4 DEF MarkACMERevocation
  <2>2. /\ NextRevocation(worker[w], failed).pc = "revoke"
        /\ NextRevocation(worker[w], failed).todo \subseteq worker[w].todo
    BY DEF NextRevocation, TypeOK, WorkerStates
  <2> QED
    BY <1>4, <2>1, <2>2 DEF MarkACMERevocation, At, RevokerStep, Revoking, TypeOK
<1>5. CASE LoadVersion(w)
  <2>1. AfterLoad(version[worker[w].ver].status) \in {"finish", "prepare", "fail"}
    BY DEF AfterLoad
  <2> QED
    BY <1>5, <2>1, OtherPCs DEF LoadVersion
<1>6. CASE RevocationsDone(w)
  BY <1>6, OtherPCs DEF RevocationsDone
<1>7. CASE PrepareIssuingVersion(w) \/ UpdateCertificateIssuanceStatus(w) \/ StoreMaterial(w)
  <2>1. \/ \E pc \in {"validating", "ordering", "store", "finish"} : worker' = GoTo(w, pc)
        \/ worker' = GoFail(w, FALSE)
    BY <1>7 DEF PrepareIssuingVersion, UpdateCertificateIssuanceStatus, StoreMaterial
  <2> QED
    BY <2>1, OtherPCs
<1>8. CASE \/ \E retryable \in BOOLEAN : StepFails(w, retryable)
           \/ CleanupPendingChallenges(w) \/ SucceedIssuanceJob(w)
  BY <1>8, OtherPCs DEF StepFails, CleanupPendingChallenges, SucceedIssuanceJob
<1>9. CASE EnqueueCleanup(w) \/ FailIssuanceJob(w) \/ StopAfterLostLease(w)
  BY <1>9, OtherPCs DEF EnqueueCleanup, FailIssuanceJob, StopAfterLostLease
<1> QED
  BY <1>1, <1>2, <1>3, <1>4, <1>5, <1>6, <1>7, <1>8, <1>9 DEF WorkStep

(* What any step does to the revocation loop of a worker.                  *)
LEMMA StepsOfRevokers ==
    ASSUME TypeOK, [Next]_vars, NEW u \in Workers
    PROVE  RevokerStep(u)
<1>1. ASSUME worker'[u] = worker[u]
      PROVE  RevokerStep(u)
  BY <1>1 DEF RevokerStep
<1>2. CASE ApiStep
  BY <1>1, <1>2 DEF ApiStep, EnsureNew, EnsureExisting, StartLifecycle, FinishLifecycle,
     AbandonLifecycle, UpdateCertificateEnabled, RevokeCertificateVersion, DeleteCertificate
<1>3. ASSUME NEW w \in Workers, ClaimNextIssuanceJob(w) \/ WorkStep(w)
      PROVE  RevokerStep(u)
  BY <1>1, <1>3, OtherWorkers, OwnRevokerStep
<1>4. CASE FaultStep
  <2>1. ASSUME NEW w \in Workers, Crash(w)
        PROVE  RevokerStep(u)
    <3>1. CASE u = w
      BY <2>1, <3>1, OtherPCs DEF Crash
    <3>2. CASE u # w
      BY <1>1, <2>1, <3>2 DEF Crash, Stay, TypeOK
    <3> QED
      BY <3>1, <3>2
  <2> QED
    BY <1>1, <1>4, <2>1 DEF FaultStep, HeartbeatFails, LeaseExpires
<1>5. ASSUME NEW r \in Renewers, RenewStep(r)
      PROVE  RevokerStep(u)
  BY <1>1, <1>5 DEF RenewStep, ListRenewalCandidates, CreateRenewal, EnqueueRenewal,
     RenewerStops
<1>6. ASSUME NEW v \in Versions, TimePasses(v)
      PROVE  RevokerStep(u)
  BY <1>1, <1>6 DEF TimePasses
<1>7. CASE UNCHANGED vars
  BY <1>1, <1>7 DEF vars
<1> QED
  BY <1>2, <1>3, <1>4, <1>5, <1>6, <1>7 DEF Next

(* Every step keeps what is known about remote revocations.                *)
LEMMA RevocationInvStep ==
    ASSUME TypeOK, SettlingInv, RevocationInv, [Next]_vars
    PROVE  RevocationInv'
<1> SUFFICES ASSUME certStatus' # "gone"
             PROVE  RevocationInv'
  BY DEF RevocationInv, RevokersKnow, RemoteRevocationTruthful
<1>1. certStatus # "gone"
  BY GoneStays
<1>2. \A v \in Versions : version[v].status = "revoked" => version'[v].status = "revoked"
  BY StepsOfVersions DEF VersionStep
<1>3. CAStep /\ AcmeStep
  BY StepsOfCA, StepsOfAcme
<1>4. \A w \in Workers : RevokerStep(w)
  BY StepsOfRevokers
<1>5. \A w \in Workers : worker[w].todo \subseteq Versions
  BY DEF TypeOK, WorkerStates
<1>6. RevokersKnow'
  <2> SUFFICES ASSUME NEW w \in Workers, Revoking(w)'
               PROVE  /\ \A v \in worker'[w].todo : version'[v].status = "revoked"
                      /\ worker'[w].pc \in {"mark_ok", "mark_failed"}
                            => worker'[w].cur \in worker'[w].todo
                      /\ worker'[w].pc = "mark_ok" => worker'[w].cur \in caRevoked'
    BY DEF RevokersKnow, Revoking
  <2>1. Revoking(w) => \A v \in worker[w].todo : version'[v].status = "revoked"
    BY <1>1, <1>2, <1>5 DEF RevocationInv, RevokersKnow, Revoking
  <2>2. UNCHANGED version => \A v \in RevocationsDue : version'[v].status = "revoked"
    BY DEF RevocationsDue
  <2>3. CASE worker'[w] = worker[w]
    BY <1>1, <1>3, <2>1, <2>3 DEF RevocationInv, RevokersKnow, Revoking, CAStep
  <2>4. CASE worker'[w] # worker[w]
    BY <1>4, <2>1, <2>2, <2>4 DEF RevokerStep, Revoking
  <2> QED
    BY <2>3, <2>4
<1>7. RemoteRevocationTruthful'
  <2> SUFFICES ASSUME NEW v \in Versions
               PROVE  /\ v \in caRevoked' => version'[v].status = "revoked"
                      /\ version'[v].acme = "succeeded" => v \in caRevoked'
    BY DEF RemoteRevocationTruthful
  <2>1. v \in caRevoked' => version'[v].status = "revoked"
    BY <1>1, <1>2, <1>3 DEF CAStep, RevocationInv, RevokersKnow, RemoteRevocationTruthful
  <2>2. version'[v].acme = "succeeded" => v \in caRevoked'
    BY <1>1, <1>3 DEF CAStep, AcmeStep, RevocationInv, RevokersKnow, RemoteRevocationTruthful
  <2> QED
    BY <2>1, <2>2
<1> QED
  BY <1>6, <1>7 DEF RevocationInv

(* The CA only ever revokes what was revoked locally, and a revocation is  *)
(* recorded as succeeded only after the CA has made it.                    *)
THEOREM RevocationIsTruthful == Spec => []RemoteRevocationTruthful
<1>1. Init => RevocationInv
  BY DEF Init, RevocationInv, RevokersKnow, RemoteRevocationTruthful, Idle, NoVersion
<1>2. RevocationInv => RemoteRevocationTruthful
  BY DEF RevocationInv
<1> QED
  BY <1>1, <1>2, RevocationInvStep, TypeCorrect, SettlingCorrect, PTL DEF Spec

(* Only material that was issued grows old.                                *)
UnissuedIsFresh ==
    \A v \in Versions :
        version[v].status \in {"none", "issuing", "failed"} => age[v] = "fresh"

(* A version being stored is fresh already, so that time stands still in   *)
(* every step but its own and a deletion.                                  *)
LEMMA StepsOfTheRow ==
    ASSUME TypeOK, SettlingInv, UnissuedIsFresh, [Next]_vars
    PROVE  \/ \E force \in BOOLEAN : DeleteCertificate(force)
           \/ \E v \in Versions : TimePasses(v)
           \/ UNCHANGED age /\ (certStatus' = "gone" <=> certStatus = "gone")
<1> DEFINE Quiet == UNCHANGED age /\ (certStatus # "gone" => certStatus' # "gone")
<1>1. ASSUME NEW v \in Versions, NEW reason, CreateIssuingVersion(reason, v)
      PROVE  certStatus # "gone" => certStatus' # "gone"
  BY <1>1 DEF CreateIssuingVersion, InsertVersion, StatusForReason
<1>2. ASSUME ApiStep, ~ \E force \in BOOLEAN : DeleteCertificate(force)
      PROVE  Quiet
  <2>1. CASE EnsureNew
    BY <2>1 DEF EnsureNew, StatusForReason
  <2>2. CASE EnsureExisting
    BY <1>1, <2>2 DEF EnsureExisting
  <2>3. CASE UpdateCertificateEnabled
    BY <2>3 DEF UpdateCertificateEnabled
  <2>4. ASSUME NEW v \in Versions, RevokeCertificateVersion(v)
        PROVE  Quiet
    BY <2>4 DEF RevokeCertificateVersion, StatusAfterRevoke
  <2>5. ASSUME NEW c \in Clients,
               \/ \E reason \in LifecycleReasons : StartLifecycle(c, reason)
               \/ FinishLifecycle(c)
               \/ AbandonLifecycle(c)
        PROVE  Quiet
    BY <1>1, <2>5 DEF StartLifecycle, FinishLifecycle, AbandonLifecycle, certVars
  <2> QED
    BY <1>2, <2>1, <2>2, <2>3, <2>4, <2>5 DEF ApiStep
<1>3. ASSUME NEW w \in Workers, StoreMaterial(w)
      PROVE  Quiet
  <2>1. CASE UNCHANGED <<age, certStatus>>
    BY <2>1
  <2>2. CASE /\ MayStore(w)
             /\ age' = [age EXCEPT ![worker[w].ver] = "fresh"]
             /\ certStatus' = "ready"
    <3>1. /\ worker[w].ver \in Versions
          /\ version[worker[w].ver].status = "issuing"
      <4>1. /\ worker[w].reason \in IssuanceReasons
            /\ worker[w].pc # "idle"
        BY <1>3 DEF StoreMaterial, At, SettlingInv, PCsMatchReasons, IssuingPCs
      <4> QED
        BY <2>2, <4>1, JobVersions DEF MayStore, Fenced, Holds, SettlingInv, ClaimsMatch
    <3>2. age[worker[w].ver] = "fresh"
      BY <3>1 DEF UnissuedIsFresh
    <3>3. age' = age
      BY <2>2, <3>2 DEF TypeOK
    <3> QED
      BY <2>2, <3>3
  <2> QED
    BY <1>3, <2>1, <2>2 DEF StoreMaterial
<1>4. ASSUME NEW w \in Workers, ClaimNextIssuanceJob(w) \/ WorkStep(w)
      PROVE  Quiet
  BY <1>3, <1>4 DEF WorkStep, ClaimNextIssuanceJob, LoadVersion,
     PrepareIssuingVersion, UpdateCertificateIssuanceStatus, StepFails,
     CleanupPendingChallenges, ListRevoked, RevokeCertificate, MarkACMERevocation,
     RevocationsDone, SucceedIssuanceJob, EnqueueCleanup, FailIssuanceJob, FailVersion,
     StopAfterLostLease, certVars
<1>5. CASE FaultStep
  BY <1>5 DEF FaultStep, HeartbeatFails, Crash, LeaseExpires, certVars
<1>6. ASSUME NEW r \in Renewers, RenewStep(r)
      PROVE  Quiet
  BY <1>1, <1>6 DEF RenewStep, ListRenewalCandidates, CreateRenewal, EnqueueRenewal,
     RenewerStops, certVars
<1>7. CASE UNCHANGED vars
  BY <1>7 DEF vars, certVars
<1> QED
  BY <1>2, <1>4, <1>5, <1>6, <1>7, GoneStays DEF Next

(* Every step keeps unissued versions fresh.                               *)
LEMMA AgeStep ==
    ASSUME TypeOK, SettlingInv, UnissuedIsFresh, [Next]_vars
    PROVE  UnissuedIsFresh'
<1>1. ASSUME NEW force \in BOOLEAN, DeleteCertificate(force)
      PROVE  UnissuedIsFresh'
  BY <1>1 DEF DeleteCertificate, UnissuedIsFresh
<1>2. ASSUME NEW v \in Versions, TimePasses(v)
      PROVE  UnissuedIsFresh'
  BY <1>2 DEF TimePasses, UnissuedIsFresh, TypeOK
<1>3. CASE UNCHANGED age /\ certStatus' # "gone"
  BY <1>3, StepsOfVersions DEF VersionStep, UnissuedIsFresh
<1>4. CASE UNCHANGED age /\ certStatus = "gone"
  <2>1. \A v \in Versions : version[v].status = "none"
    BY <1>4 DEF SettlingInv, RowlessIsEmpty, RowExists
  <2> QED
    BY <1>4, <2>1 DEF UnissuedIsFresh
<1> QED
  BY <1>1, <1>2, <1>3, <1>4, StepsOfTheRow

(* Every step is a step of CertificateVersions, or changes nothing it can  *)
(* see.                                                                    *)
LEMMA AbstractStep ==
    ASSUME TypeOK, SettlingInv, UnissuedIsFresh, [Next]_vars
    PROVE  [Abstract!ANext]_(Abstract!avars)
<1> DEFINE state == [v \in Versions |-> version[v].status]
           expired == {v \in Versions : age[v] = "expired"}
           deleted == (certStatus = "gone")
<1>1. ASSUME NEW force \in BOOLEAN, DeleteCertificate(force)
      PROVE  Abstract!Delete
  <2>1. /\ certStatus # "gone"
        /\ certStatus' = "gone"
        /\ Issuing = {}
        /\ state' = [v \in Versions |-> "none"]
        /\ expired' = {}
    BY <1>1 DEF DeleteCertificate, RowExists, NoVersion
  <2> QED
    BY <2>1 DEF Abstract!Delete, Abstract!InProgress, Abstract!Versions, Versions, Issuing
<1>2. ASSUME NEW v \in Versions, TimePasses(v)
      PROVE  Abstract!Expire(v) \/ UNCHANGED Abstract!avars
  <2>1. /\ UNCHANGED <<state, deleted>>
        /\ version[v].status \in {"valid", "revoked"}
    BY <1>2 DEF TimePasses, certVars
  <2>2. expired' = expired \/ expired' = expired \cup {v}
    BY <1>2 DEF TimePasses, TypeOK
  <2> QED
    BY <2>1, <2>2 DEF Abstract!Expire, Abstract!avars, Abstract!Versions, Versions
<1>3. CASE UNCHANGED age /\ (certStatus' = "gone" <=> certStatus = "gone")
  <2>1. UNCHANGED <<expired, deleted>>
    BY <1>3
  <2>2. CASE \A v \in Versions : version'[v].status = version[v].status
    <3>1. UNCHANGED state
      BY <2>2
    <3> QED
      BY <2>1, <3>1 DEF Abstract!avars
  <2>3. CASE certStatus' = "gone" /\ \A v \in Versions : version'[v].status = "none"
    <3>1. \A v \in Versions : version[v].status = "none"
      BY <1>3, <2>3 DEF SettlingInv, RowlessIsEmpty, RowExists
    <3> QED
      BY <2>2, <2>3, <3>1
  <2>4. ASSUME NEW v \in Versions,
               \A u \in Versions \ {v} : version'[u] = version[u],
               \/ /\ version[v].status = "none"
                  /\ version'[v].status = "issuing"
                  /\ Issuing = {}
                  /\ Existing = 1..(v - 1)
                  /\ certStatus # "gone"
               \/ version[v].status = "valid" /\ version'[v].status = "revoked"
               \/ /\ version[v].status = "issuing"
                  /\ \/ version'[v].status = "failed"
                     \/ version'[v].status = "valid" /\ ~OverlapReached(v)
        PROVE  Abstract!ANext
    <3>1. \A s : version'[v].status = s => state' = [state EXCEPT ![v] = s]
      BY <2>4
    <3>2. v \in Abstract!Versions
      BY DEF Abstract!Versions, Versions
    <3>3. CASE /\ version[v].status = "none"
               /\ version'[v].status = "issuing"
               /\ Issuing = {}
               /\ Existing = 1..(v - 1)
               /\ certStatus # "gone"
      <4>1. Abstract!Begin(v)
        BY <2>1, <3>1, <3>3 DEF Abstract!Begin, Abstract!InProgress, Abstract!Begun,
           Abstract!Versions, Versions, Issuing, Existing
      <4> QED
        BY <3>2, <4>1 DEF Abstract!ANext
    <3>4. CASE version[v].status = "valid" /\ version'[v].status = "revoked"
      <4>1. Abstract!Revoke(v)
        BY <2>1, <3>1, <3>4 DEF Abstract!Revoke
      <4> QED
        BY <3>2, <4>1 DEF Abstract!ANext
    <3>5. CASE version[v].status = "issuing" /\ version'[v].status = "failed"
      <4>1. Abstract!Abandon(v)
        BY <2>1, <3>1, <3>5 DEF Abstract!Abandon
      <4> QED
        BY <3>2, <4>1 DEF Abstract!ANext
    <3>6. CASE /\ version[v].status = "issuing"
               /\ version'[v].status = "valid"
               /\ ~OverlapReached(v)
      <4>1. ActiveValid \ {v} = ActiveValid
        BY <3>6 DEF ActiveValid
      <4>2. Cardinality(ActiveValid) \in Nat
        <5>1. IsFiniteSet(Versions)
          BY ConstantsAssumption, FS_Interval DEF Versions
        <5>2. IsFiniteSet(ActiveValid)
          BY <5>1, FS_Subset DEF ActiveValid
        <5> QED
          BY <5>2, FS_CardinalityType
      <4>3. Cardinality(ActiveValid) < MaxActiveValid
        BY <3>6, <4>1, <4>2 DEF OverlapReached, MaxActiveValid
      <4>4. Abstract!Usable = ActiveValid
        BY DEF Abstract!Usable, Abstract!Versions, Versions, ActiveValid
      <4>5. Abstract!Cardinality(Abstract!Usable) < MaxActiveValid
        BY <4>3, <4>4 DEF Abstract!Cardinality, Cardinality
      <4>6. Abstract!Complete(v)
        BY <2>1, <3>1, <3>6, <4>5 DEF Abstract!Complete
      <4> QED
        BY <3>2, <4>6 DEF Abstract!ANext
    <3> QED
      BY <2>4, <3>3, <3>4, <3>5, <3>6
  <2> QED
    BY <2>2, <2>3, <2>4, StepsOfVersions DEF VersionStep
<1> QED
  BY <1>1, <1>2, <1>3, StepsOfTheRow DEF Abstract!ANext, Abstract!Versions, Versions

(* The initial states agree.                                               *)
LEMMA AbstractInit == Init => Abstract!AInit
  BY DEF Init, Abstract!AInit, Abstract!Versions, Versions, NoVersion

(* The rows keep the promise of CertificateVersions: every step of a       *)
(* request, a worker or a renewal worker is a step of a version, or none.  *)
THEOREM Refinement == Spec => KeepsVersions
<1>1. Init => UnissuedIsFresh
  BY DEF Init, UnissuedIsFresh
<1>2. Spec => []UnissuedIsFresh
  BY <1>1, AgeStep, TypeCorrect, SettlingCorrect, PTL DEF Spec
<1> QED
  BY <1>2, AbstractInit, AbstractStep, TypeCorrect, SettlingCorrect, PTL
     DEF Spec, KeepsVersions, Abstract!ASpec

----------------------------------------------------------------------------
(* CertificateVersions itself, over rows and a limit of its own: what it   *)
(* promises in its definitions is all that its steps can reach.            *)
CONSTANT Limit
VARIABLES states, outdated, gone
Promise == INSTANCE CertificateVersions WITH
    MaxActive <- Limit, state <- states, expired <- outdated, deleted <- gone

(* Both modules count with the Cardinality of FiniteSets.                  *)
LEMMA SameCount ==
    ASSUME NEW S
    PROVE  Promise!Cardinality(S) = Cardinality(S)
  BY DEF Promise!Cardinality, Cardinality

(* The inductive invariant: types, one version in progress, bounded overlap. *)
AInv == Promise!ATypeOK /\ Promise!NewestInProgress /\ Promise!OverlapBounded

(* Only finitely many versions are usable.                                 *)
LEMMA UsableFinite ==
    ASSUME Promise!VersionsAssumption
    PROVE  IsFiniteSet(Promise!Usable)
<1>1. IsFiniteSet(Promise!Versions)
  BY FS_Interval DEF Promise!Versions, Promise!VersionsAssumption
<1> QED
  BY <1>1, FS_Subset DEF Promise!Usable

(* One more usable version is at most one more.                            *)
LEMMA OneMore ==
    ASSUME Promise!VersionsAssumption, NEW v, Promise!Usable' \subseteq Promise!Usable \cup {v}, Promise!Cardinality(Promise!Usable) < Limit
    PROVE  Promise!OverlapBounded'
<1>1. /\ IsFiniteSet(Promise!Usable \cup {v})
      /\ Cardinality(Promise!Usable \cup {v}) <= Cardinality(Promise!Usable) + 1
      /\ Cardinality(Promise!Usable) \in Nat
  <2>1. Cardinality(Promise!Usable) \in Nat
    BY UsableFinite, FS_CardinalityType
  <2>2. IsFiniteSet(Promise!Usable \cup {v})
    BY UsableFinite, FS_AddElement
  <2>3. \/ Cardinality(Promise!Usable \cup {v}) = Cardinality(Promise!Usable)
        \/ Cardinality(Promise!Usable \cup {v}) = Cardinality(Promise!Usable) + 1
    BY UsableFinite, FS_AddElement
  <2> QED
    BY <2>1, <2>2, <2>3
<1>2. Cardinality(Promise!Usable') <= Cardinality(Promise!Usable \cup {v})
  BY <1>1, FS_Subset
<1>3. Cardinality(Promise!Usable') \in Nat /\ Cardinality(Promise!Usable \cup {v}) \in Nat
  BY <1>1, FS_Subset, FS_CardinalityType
<1> QED
  BY <1>1, <1>2, <1>3, SameCount DEF Promise!OverlapBounded, Promise!VersionsAssumption

(* Losing usable versions keeps the limit.                                 *)
LEMMA Fewer ==
    ASSUME Promise!VersionsAssumption, Promise!OverlapBounded, Promise!Usable' \subseteq Promise!Usable
    PROVE  Promise!OverlapBounded'
<1>1. /\ Cardinality(Promise!Usable') <= Cardinality(Promise!Usable)
      /\ Cardinality(Promise!Usable') \in Nat
      /\ Cardinality(Promise!Usable) \in Nat
  BY UsableFinite, FS_Subset, FS_CardinalityType
<1> QED
  BY <1>1, SameCount DEF Promise!OverlapBounded, Promise!VersionsAssumption

(* Every step keeps the invariant.                                         *)
LEMMA AInvStep ==
    ASSUME Promise!VersionsAssumption
    PROVE  AInv /\ [Promise!ANext]_(Promise!avars) => AInv'
<1> SUFFICES ASSUME AInv, [Promise!ANext]_(Promise!avars)
             PROVE  AInv'
  OBVIOUS
<1> USE DEF AInv
<1>1. ASSUME NEW v \in Promise!Versions, Promise!Begin(v)
      PROVE  AInv'
  <2>1. Promise!ATypeOK'
    BY <1>1 DEF Promise!Begin, Promise!ATypeOK, Promise!VersionStates
  <2>2. Promise!NewestInProgress'
    BY <1>1 DEF Promise!Begin, Promise!ATypeOK, Promise!NewestInProgress, Promise!InProgress, Promise!Begun, Promise!Versions
  <2>3. Promise!Usable' \subseteq Promise!Usable
    BY <1>1 DEF Promise!Begin, Promise!ATypeOK, Promise!Usable
  <2> QED
    BY <2>1, <2>2, <2>3, Fewer
<1>2. ASSUME NEW v \in Promise!Versions, Promise!Complete(v)
      PROVE  AInv'
  <2>1. Promise!ATypeOK'
    BY <1>2 DEF Promise!Complete, Promise!ATypeOK, Promise!VersionStates
  <2>2. Promise!NewestInProgress'
    BY <1>2 DEF Promise!Complete, Promise!ATypeOK, Promise!NewestInProgress, Promise!InProgress, Promise!Begun
  <2>3. Promise!Usable' \subseteq Promise!Usable \cup {v}
    BY <1>2 DEF Promise!Complete, Promise!ATypeOK, Promise!Usable
  <2> QED
    BY <1>2, <2>1, <2>2, <2>3, OneMore DEF Promise!Complete
<1>3. ASSUME NEW v \in Promise!Versions, Promise!Abandon(v)
      PROVE  AInv'
  <2>1. Promise!ATypeOK'
    BY <1>3 DEF Promise!Abandon, Promise!ATypeOK, Promise!VersionStates
  <2>2. Promise!NewestInProgress'
    BY <1>3 DEF Promise!Abandon, Promise!ATypeOK, Promise!NewestInProgress, Promise!InProgress, Promise!Begun
  <2>3. Promise!Usable' \subseteq Promise!Usable
    BY <1>3 DEF Promise!Abandon, Promise!ATypeOK, Promise!Usable
  <2> QED
    BY <2>1, <2>2, <2>3, Fewer
<1>4. ASSUME NEW v \in Promise!Versions, Promise!Revoke(v)
      PROVE  AInv'
  <2>1. Promise!ATypeOK'
    BY <1>4 DEF Promise!Revoke, Promise!ATypeOK, Promise!VersionStates
  <2>2. Promise!NewestInProgress'
    BY <1>4 DEF Promise!Revoke, Promise!ATypeOK, Promise!NewestInProgress, Promise!InProgress, Promise!Begun
  <2>3. Promise!Usable' \subseteq Promise!Usable
    BY <1>4 DEF Promise!Revoke, Promise!ATypeOK, Promise!Usable
  <2> QED
    BY <2>1, <2>2, <2>3, Fewer
<1>5. ASSUME NEW v \in Promise!Versions, Promise!Expire(v)
      PROVE  AInv'
  <2>1. Promise!ATypeOK' /\ Promise!NewestInProgress'
    BY <1>5 DEF Promise!Expire, Promise!ATypeOK, Promise!NewestInProgress, Promise!InProgress, Promise!Begun
  <2>2. Promise!Usable' \subseteq Promise!Usable
    BY <1>5 DEF Promise!Expire, Promise!Usable
  <2> QED
    BY <2>1, <2>2, Fewer
<1>6. CASE Promise!Delete
  <2>1. Promise!ATypeOK' /\ Promise!NewestInProgress'
    BY <1>6 DEF Promise!Delete, Promise!ATypeOK, Promise!VersionStates, Promise!NewestInProgress, Promise!InProgress, Promise!Begun
  <2>2. Promise!Usable' \subseteq Promise!Usable
    BY <1>6 DEF Promise!Delete, Promise!Usable
  <2> QED
    BY <2>1, <2>2, Fewer
<1>7. CASE UNCHANGED Promise!avars
  <2>1. Promise!ATypeOK' /\ Promise!NewestInProgress'
    BY <1>7 DEF Promise!avars, Promise!ATypeOK, Promise!NewestInProgress, Promise!InProgress, Promise!Begun
  <2>2. Promise!Usable' \subseteq Promise!Usable
    BY <1>7 DEF Promise!avars, Promise!Usable
  <2> QED
    BY <2>1, <2>2, Fewer
<1> QED
  BY <1>1, <1>2, <1>3, <1>4, <1>5, <1>6, <1>7 DEF Promise!ANext

(* The invariant holds at first.                                           *)
LEMMA AInvInit ==
    ASSUME Promise!VersionsAssumption
    PROVE  Promise!AInit => AInv
<1> SUFFICES ASSUME Promise!AInit
             PROVE  AInv
  OBVIOUS
<1>1. Promise!ATypeOK /\ Promise!NewestInProgress
  BY DEF Promise!AInit, Promise!ATypeOK, Promise!VersionStates, Promise!NewestInProgress, Promise!InProgress, Promise!Begun
<1>2. Promise!Usable = {}
  BY DEF Promise!AInit, Promise!Usable
<1>3. Promise!OverlapBounded
  BY <1>2, FS_EmptySet, SameCount DEF Promise!OverlapBounded, Promise!VersionsAssumption
<1> QED
  BY <1>1, <1>3 DEF AInv

(* The inductive invariant: types, the version in progress, the overlap.   *)
THEOREM AInvCorrect ==
    ASSUME Promise!VersionsAssumption
    PROVE  Promise!ASpec => []AInv
  BY AInvInit, AInvStep, PTL DEF Promise!ASpec

(* The overlap limit of the trigger holds in every state: an old version   *)
(* and its replacement, never more than MaxActive of them.                 *)
THEOREM OverlapIsBounded ==
    ASSUME Promise!VersionsAssumption
    PROVE  Promise!ASpec => []Promise!OverlapBounded
<1>1. AInv => Promise!OverlapBounded
  BY DEF AInv
<1> QED
  BY <1>1, AInvCorrect, PTL

(* A version in progress is the newest, and so there is only one.          *)
THEOREM InProgressIsNewest ==
    ASSUME Promise!VersionsAssumption
    PROVE  Promise!ASpec => []Promise!NewestInProgress
<1>1. AInv => Promise!NewestInProgress
  BY DEF AInv
<1> QED
  BY <1>1, AInvCorrect, PTL
=============================================================================
