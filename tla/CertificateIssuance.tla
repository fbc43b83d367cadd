------------------------- MODULE CertificateIssuance -------------------------
(***************************************************************************)
(* One certificate of certhub, its versions and its issuance jobs, under   *)
(* the API requests, the issuance workers and the renewal workers of every *)
(* server replica.  An SQL statement is one atomic step; a transaction is  *)
(* one step when its first statement locks the certificate row, and two    *)
(* when the code reads before it writes (READ COMMITTED).  Time is the     *)
(* three facts the code compares it with: a version's window, a version's  *)
(* expiry and a lease's expiry.                                            *)
(***************************************************************************)
EXTENDS Naturals, FiniteSets

CONSTANTS
    MaxVersion,   \* bound: version numbers of the certificate
    Jobs,         \* bound: ids of job rows
    Workers,      \* issuance worker goroutines, of all replicas
    LockName,     \* the worker id each of them writes into locked_by
    Clients,      \* API requests that may be in StartLifecycle at once
    Renewers,     \* renewal workers, one per replica
    MaxAttempts,  \* attempts after which a retryable failure is final
    MaxTries,     \* bound: attempts, those added by lost leases included
    None          \* SQL null, where no number stands for it

ASSUME ConstantsAssumption ==
    /\ MaxVersion \in Nat
    /\ MaxAttempts \in Nat \ {0}
    /\ MaxTries \in Nat
    /\ None \notin Jobs

ASSUME LockNameAssumption == None \notin {LockName[w] : w \in Workers}

Versions == 1..MaxVersion
NullVersion == 0
MaxActiveValid == 2

IssuanceReasons == {"initial_issue", "renewal", "key_rotation", "reissue"}
LifecycleReasons == {"renewal", "key_rotation", "reissue"}
JobReasons == IssuanceReasons \cup {"revocation_retry", "dns_cleanup"}

VARIABLES
    certStatus,  \* certificates.status; "absent" before the row, "gone" after
    enabled,     \* certificates.enabled
    version,     \* the certificate_versions rows, by version number
    age,         \* where now is in the validity of a version
    job,         \* the certificate_issuance_jobs rows, by id
    worker,      \* the local state of each issuance worker
    lost,        \* the workers whose heartbeat has failed
    client,      \* StartLifecycle requests between their reads and writes
    renewer,     \* the local state of each renewal worker
    caRevoked    \* the versions whose certificate the CA has revoked

certVars == <<certStatus, enabled>>
vars == <<certVars, version, age, job, worker, lost, client, renewer, caRevoked>>

CertStatuses == {"absent", "pending", "validating_dns", "issuing", "ready",
                 "renewing", "rotating_key", "failed", "gone"}

NoVersion == [status |-> "none", reason |-> "none", acme |-> "none"]

VersionRows ==
    [status : {"none", "issuing", "valid", "failed", "revoked"},
     reason : IssuanceReasons \cup {"none"},
     acme   : {"none", "pending", "succeeded", "failed"}]

NoJob == [status |-> "none", reason |-> "dns_cleanup", ver |-> NullVersion,
          attempt |-> 0, owner |-> None, live |-> FALSE]

JobRows ==
    [status  : {"none", "pending", "running", "succeeded", "failed"},
     reason  : JobReasons,
     ver     : Versions \cup {NullVersion},
     attempt : Nat,
     owner   : {LockName[w] : w \in Workers} \cup {None},
     live    : BOOLEAN]

(* job, reason and ver are the claimed job as the worker read it; todo,    *)
(* cur and bad are the loop of completeRevocationRetry, and bad is also    *)
(* the retryability of the failure a worker in "fail" is about to record.  *)
Idle == [pc |-> "idle", job |-> None, reason |-> "dns_cleanup",
         ver |-> NullVersion, todo |-> {}, cur |-> NullVersion, bad |-> FALSE]

WorkingPCs == {"load", "prepare", "validating", "ordering", "store",
               "list", "revoke", "mark_ok", "mark_failed", "clean"}
HeldPCs == WorkingPCs \cup {"finish", "fail"}

WorkerStates ==
    [pc     : HeldPCs \cup {"idle", "enqueue"},
     job    : Jobs \cup {None},
     reason : JobReasons,
     ver    : Versions \cup {NullVersion},
     todo   : SUBSET Versions,
     cur    : Versions \cup {NullVersion},
     bad    : BOOLEAN]

IdleClient == [pc |-> "idle", reason |-> "renewal", ver |-> NullVersion]

ClientStates == [pc : {"idle", "create", "reuse"}, reason : LifecycleReasons,
                 ver : Versions \cup {NullVersion}]

IdleRenewer == [pc |-> "idle", ver |-> NullVersion]

RenewerStates == [pc : {"idle", "create", "enqueue"},
                  ver : Versions \cup {NullVersion}]

TypeOK ==
    /\ certStatus \in CertStatuses
    /\ enabled \in BOOLEAN
    /\ version \in [Versions -> VersionRows]
    /\ age \in [Versions -> {"fresh", "due", "expired"}]
    /\ job \in [Jobs -> JobRows]
    /\ worker \in [Workers -> WorkerStates]
    /\ lost \subseteq Workers
    /\ client \in [Clients -> ClientStates]
    /\ renewer \in [Renewers -> RenewerStates]
    /\ caRevoked \subseteq Versions

----------------------------------------------------------------------------
(* What the statements read.                                               *)

RowExists == certStatus \notin {"absent", "gone"}

Existing == {v \in Versions : version[v].status # "none"}
Issuing == {v \in Versions : version[v].status = "issuing"}
ActiveValid == {v \in Versions : version[v].status = "valid" /\ age[v] # "expired"}

HasMaterial == ActiveValid # {} /\ certStatus # "failed"

Newest(S) == {v \in S : \A u \in S : u <= v}

Active(j) == job[j].status \in {"pending", "running"}

(* The fence of every statement that ends a job.                           *)
Holds(w, j) ==
    /\ job[j].status = "running"
    /\ job[j].owner = LockName[w]
    /\ job[j].live

Fenced(w) == worker[w].job \in Jobs /\ Holds(w, worker[w].job)

----------------------------------------------------------------------------
(* Repository statements that write more than one row.                     *)

StatusForReason(reason) ==
    CASE reason = "renewal"      -> "renewing"
      [] reason = "key_rotation" -> "rotating_key"
      [] OTHER                   -> "issuing"

(* Plausible defects, named after what they forget, stand before the       *)
(* definition they would replace; no action uses them.                     *)
MayInsertDisabled == RowExists /\ Issuing = {}

MayInsert == RowExists /\ enabled /\ Issuing = {}

InsertVersion(reason, v) ==
    /\ Existing = 1..(v - 1)
    /\ version' = [version EXCEPT ![v] =
                      [status |-> "issuing", reason |-> reason, acme |-> "none"]]
    /\ certStatus' = StatusForReason(reason)

(* v is the version it returns: the one that is issuing, for whatever      *)
(* reason, or a new one.                                                   *)
CreateIssuingVersion(reason, v) ==
    \/ v \in Issuing /\ UNCHANGED <<version, certStatus>>
    \/ MayInsert /\ InsertVersion(reason, v)

(* The two partial unique indexes: a job with a version conflicts on the   *)
(* version alone, a job without one on its reason.                         *)
SameSlot(j, v, reason) ==
    Active(j) /\ job[j].ver = v /\ (v = NullVersion => job[j].reason = reason)

NewJob(v, reason) ==
    [status |-> "pending", reason |-> reason, ver |-> v, attempt |-> 1,
     owner |-> None, live |-> FALSE]

EnsureIssuanceJob(v, reason) ==
    \/ /\ \E j \in Jobs : SameSlot(j, v, reason)
       /\ UNCHANGED job
    \/ /\ ~ \E j \in Jobs : SameSlot(j, v, reason)
       /\ \E j \in Jobs :
            /\ job[j].status = "none"
            /\ job' = [job EXCEPT ![j] = NewJob(v, reason)]

----------------------------------------------------------------------------
(* API requests.                                                           *)

(* ensure, when the identity has no row yet.                               *)
EnsureNew ==
    /\ certStatus = "absent"
    /\ enabled' = TRUE
    /\ 1 \in Versions
    /\ version' = [version EXCEPT ![1] =
           [status |-> "issuing", reason |-> "initial_issue", acme |-> "none"]]
    /\ certStatus' = StatusForReason("initial_issue")
    /\ EnsureIssuanceJob(1, "initial_issue")
    /\ UNCHANGED <<age, worker, lost, client, renewer, caRevoked>>

EnsureExisting ==
    /\ RowExists
    /\ enabled
    /\ certStatus \notin {"failed", "ready"}
    /\ \E v \in Versions : /\ CreateIssuingVersion("initial_issue", v)
                           /\ EnsureIssuanceJob(v, "initial_issue")
    /\ UNCHANGED <<enabled, age, worker, lost, client, renewer, caRevoked>>

(* The reads of StartLifecycle.  A renewal that finds a renewal already in *)
(* progress only makes sure that it has a job.                             *)
LifecycleAllowed(reason) ==
    /\ RowExists
    /\ enabled
    /\ reason \in {"renewal", "key_rotation"} => HasMaterial
    /\ reason = "reissue" => ~HasMaterial /\ Newest(Existing) \cap Issuing = {}

RenewalDue == \A v \in Newest(ActiveValid) : age[v] = "due"

StartLifecycle(c, reason) ==
    /\ client[c].pc = "idle"
    /\ LifecycleAllowed(reason)
    /\ LET issuing == Newest(Existing) \cap Issuing
       IN  \/ /\ reason = "renewal" => issuing = {} /\ RenewalDue
              /\ client' = [client EXCEPT ![c] =
                   [pc |-> "create", reason |-> reason, ver |-> NullVersion]]
           \/ \E v \in issuing :
                /\ reason = "renewal" /\ version[v].reason = "renewal"
                /\ client' = [client EXCEPT ![c] =
                     [pc |-> "reuse", reason |-> reason, ver |-> v]]
    /\ UNCHANGED <<certVars, version, age, job, worker, lost, renewer, caRevoked>>

(* The writes of StartLifecycle and its commit.                            *)
FinishLifecycle(c) ==
    /\ client[c].pc # "idle"
    /\ \/ /\ client[c].pc = "create"
          /\ \E v \in Versions :
               /\ CreateIssuingVersion(client[c].reason, v)
               /\ version'[v].reason = client[c].reason
               /\ EnsureIssuanceJob(v, client[c].reason)
       \/ /\ client[c].pc = "reuse"
          /\ RowExists
          /\ EnsureIssuanceJob(client[c].ver, client[c].reason)
          /\ UNCHANGED <<version, certStatus>>
    /\ client' = [client EXCEPT ![c] = IdleClient]
    /\ UNCHANGED <<enabled, age, worker, lost, renewer, caRevoked>>

(* The transaction rolls back: a conflict, a disabled certificate, or the  *)
(* request or its server died.                                             *)
AbandonLifecycle(c) ==
    /\ client[c].pc # "idle"
    /\ client' = [client EXCEPT ![c] = IdleClient]
    /\ UNCHANGED <<certVars, version, age, job, worker, lost, renewer, caRevoked>>

UpdateCertificateEnabled ==
    /\ RowExists
    /\ enabled' = ~enabled
    /\ UNCHANGED <<certStatus, version, age, job, worker, lost, client, renewer,
                   caRevoked>>

(* The subquery that picks the parent's status runs on the snapshot of the *)
(* statement, in which v is still valid.                                   *)
StatusAfterRevoke == IF ActiveValid # {} THEN "ready" ELSE certStatus

RevokeCertificateVersion(v) ==
    /\ RowExists
    /\ \/ /\ version[v].status = "valid"
          /\ version' = [version EXCEPT ![v] =
                            [@ EXCEPT !.status = "revoked", !.acme = "pending"]]
          /\ certStatus' = StatusAfterRevoke
       \/ /\ version[v].status = "revoked"
          /\ UNCHANGED <<version, certStatus>>
    /\ EnsureIssuanceJob(v, "revocation_retry")
    /\ UNCHANGED <<enabled, age, worker, lost, client, renewer, caRevoked>>

(* The third blocker, challenge rows that are not clean, belongs to        *)
(* AcmeIssuance; here nothing refuses a deletion for it.                   *)
Deletable == ~ \E j \in Jobs : Active(j)

DeleteCertificate(force) ==
    /\ RowExists
    /\ Deletable
    /\ Issuing = {}
    /\ (\E v \in Versions : version[v].status = "valid") => force
    /\ certStatus' = "gone"
    /\ version' = [v \in Versions |-> NoVersion]
    /\ age' = [v \in Versions |-> "fresh"]
    /\ job' = [j \in Jobs |-> NoJob]
    /\ UNCHANGED <<enabled, worker, lost, client, renewer, caRevoked>>

----------------------------------------------------------------------------
(* Issuance workers.                                                       *)

Stay(w) == [worker EXCEPT ![w] = Idle]
GoTo(w, pc) == [worker EXCEPT ![w].pc = pc]
GoFail(w, retryable) ==
    [worker EXCEPT ![w] = [@ EXCEPT !.pc = "fail", !.bad = retryable]]

At(w, pc) == worker[w].pc = pc /\ w \notin lost

FirstPC(reason) ==
    CASE reason = "dns_cleanup"      -> "clean"
      [] reason = "revocation_retry" -> "list"
      [] OTHER                       -> "load"

ClaimablePendingOnly(j) == job[j].status = "pending"

Claimable(j) ==
    \/ job[j].status = "pending"
    \/ job[j].status = "running" /\ ~job[j].live

Claimed(row, w) ==
    [row EXCEPT !.status = "running",
                !.attempt = IF row.status = "running" THEN @ + 1 ELSE @,
                !.owner = LockName[w],
                !.live = TRUE]

ClaimingWorker(j) ==
    [Idle EXCEPT !.pc = FirstPC(job[j].reason), !.job = j,
                 !.reason = job[j].reason, !.ver = job[j].ver]

(* next_run_at only delays a job: which of the claimable ones comes first  *)
(* is left open.                                                           *)
ClaimNextIssuanceJob(w) ==
    /\ worker[w].pc = "idle"
    /\ \E j \in Jobs :
         /\ Claimable(j)
         /\ job' = [job EXCEPT ![j] = Claimed(job[j], w)]
         /\ worker' = [worker EXCEPT ![w] = ClaimingWorker(j)]
    /\ lost' = lost \ {w}
    /\ UNCHANGED <<certVars, version, age, client, renewer, caRevoked>>

(* What the worker does with the state in which it finds the version; a    *)
(* version that is gone cannot be loaded.                                  *)
AfterLoad(status) ==
    CASE status = "valid"   -> "finish"
      [] status = "issuing" -> "prepare"
      [] OTHER              -> "fail"

LoadVersion(w) ==
    /\ At(w, "load")
    /\ worker' = GoTo(w, AfterLoad(version[worker[w].ver].status))
    /\ UNCHANGED <<certVars, version, age, job, lost, client, renewer, caRevoked>>

(* Key and order are in the row, or the step fails for good.               *)
PrepareIssuingVersion(w) ==
    /\ At(w, "prepare")
    /\ worker' = IF worker[w].ver \in Issuing THEN GoTo(w, "validating")
                                              ELSE GoFail(w, FALSE)
    /\ UNCHANGED <<certVars, version, age, job, lost, client, renewer, caRevoked>>

StatusIsOpenWhenReady == RowExists /\ certStatus # "failed"

StatusIsOpen == RowExists /\ certStatus \notin {"ready", "failed"}

(* UpdateCertificateIssuanceStatus, before and after the challenges: no    *)
(* fence, and its outcome is ignored.                                      *)
UpdateCertificateIssuanceStatus(w) ==
    /\ \/ /\ At(w, "validating")
          /\ certStatus' = IF StatusIsOpen THEN "validating_dns" ELSE certStatus
          /\ worker' = GoTo(w, "ordering")
       \/ /\ At(w, "ordering")
          /\ certStatus' = IF StatusIsOpen THEN "issuing" ELSE certStatus
          /\ worker' = GoTo(w, "store")
    /\ UNCHANGED <<enabled, version, age, job, lost, client, renewer, caRevoked>>

MayStoreByAnyOwner(w) ==
    /\ version[worker[w].ver].status = "issuing"
    /\ job[worker[w].job].status = "running"
    /\ job[worker[w].job].live
    /\ job[worker[w].job].ver = worker[w].ver

MayStore(w) ==
    /\ version[worker[w].ver].status = "issuing"
    /\ Fenced(w)
    /\ job[worker[w].job].ver = worker[w].ver

OverlapReachedLate(v) == Cardinality(ActiveValid \ {v}) > MaxActiveValid

(* The worker counts before it stores and a trigger counts again.          *)
OverlapReached(v) == Cardinality(ActiveValid \ {v}) >= MaxActiveValid

(* A statement that the fence refuses is no error: the worker goes on as   *)
(* if it had stored the material.                                          *)
StoreMaterial(w) ==
    /\ At(w, "store")
    /\ LET v == worker[w].ver
       IN  IF OverlapReached(v) \/ version[v].status = "none"
           THEN worker' = GoFail(w, FALSE) /\ UNCHANGED <<version, age, certStatus>>
           ELSE /\ worker' = GoTo(w, "finish")
                /\ IF MayStore(w)
                   THEN /\ version' = [version EXCEPT ![v].status = "valid"]
                        /\ age' = [age EXCEPT ![v] = "fresh"]
                        /\ certStatus' = "ready"
                   ELSE UNCHANGED <<version, age, certStatus>>
    /\ UNCHANGED <<enabled, job, lost, client, renewer, caRevoked>>

(* Any step before the terminal write may fail, with a failure code that   *)
(* is or is not retryable.                                                 *)
StepFails(w, retryable) ==
    /\ \E pc \in {"load", "prepare", "ordering", "store", "list", "clean"} : At(w, pc)
    /\ worker' = GoFail(w, retryable)
    /\ UNCHANGED <<certVars, version, age, job, lost, client, renewer, caRevoked>>

CleanupPendingChallenges(w) ==
    /\ At(w, "clean")
    /\ worker' = GoTo(w, "finish")
    /\ UNCHANGED <<certVars, version, age, job, lost, client, renewer, caRevoked>>

RevocationsDueAnyStatus ==
    {v \in Versions : version[v].status \in {"valid", "revoked"}
                        /\ version[v].acme # "succeeded"}

(* completeRevocationRetry: every revoked version of the certificate that  *)
(* the list shows without a successful remote revocation.                  *)
RevocationsDue ==
    {v \in Versions : version[v].status = "revoked" /\ version[v].acme # "succeeded"}

ListRevoked(w) ==
    /\ At(w, "list")
    /\ worker' = IF ~RowExists THEN GoFail(w, FALSE)
                 ELSE [worker EXCEPT ![w] =
                         [@ EXCEPT !.pc = "revoke", !.todo = RevocationsDue]]
    /\ UNCHANGED <<certVars, version, age, job, lost, client, renewer, caRevoked>>

Answered(w, v, pc) == [worker EXCEPT ![w] = [@ EXCEPT !.pc = pc, !.cur = v]]

(* The CA answers, or the answer is lost with or without its effect.       *)
RevokeCertificate(w, v) ==
    /\ At(w, "revoke")
    /\ v \in worker[w].todo
    /\ \/ /\ caRevoked' = caRevoked \cup {v}
          /\ worker' = Answered(w, v, "mark_ok")
       \/ /\ caRevoked' \in {caRevoked, caRevoked \cup {v}}
          /\ worker' = Answered(w, v, "mark_failed")
    /\ UNCHANGED <<certVars, version, age, job, lost, client, renewer>>

(* No fence and no guard on the recorded status.                           *)
MarkOutcome(pc) == IF pc = "mark_ok" THEN "succeeded" ELSE "failed"

NextRevocation(row, failed) ==
    [row EXCEPT !.pc = "revoke", !.cur = NullVersion, !.todo = row.todo \ {row.cur},
                !.bad = row.bad \/ failed]

MarkACMERevocation(w) ==
    /\ At(w, "mark_ok") \/ At(w, "mark_failed")
    /\ LET v == worker[w].cur
           found == version[v].status # "none"
           failed == worker[w].pc = "mark_failed" \/ ~found
       IN  /\ version' = IF found
                         THEN [version EXCEPT ![v].acme = MarkOutcome(worker[w].pc)]
                         ELSE version
           /\ worker' = [worker EXCEPT ![w] = NextRevocation(worker[w], failed)]
    /\ UNCHANGED <<certVars, age, job, lost, client, renewer, caRevoked>>

RevocationsDone(w) ==
    /\ At(w, "revoke")
    /\ worker[w].todo = {}
    /\ worker' = GoTo(w, IF worker[w].bad THEN "fail" ELSE "finish")
    /\ UNCHANGED <<certVars, version, age, job, lost, client, renewer, caRevoked>>

MaySucceedUnfenced(w) ==
    worker[w].job \in Jobs /\ job[worker[w].job].status \in {"running", "succeeded"}

MaySucceed(w) ==
    Fenced(w) \/ (worker[w].job \in Jobs /\ job[worker[w].job].status = "succeeded")

Ended(row, status) == [row EXCEPT !.status = status, !.owner = None, !.live = FALSE]

SucceedIssuanceJob(w) ==
    /\ At(w, "finish")
    /\ IF MaySucceed(w)
       THEN /\ job' = [job EXCEPT ![worker[w].job] = Ended(job[worker[w].job], "succeeded")]
            /\ worker' = IF worker[w].reason \in IssuanceReasons
                         THEN GoTo(w, "enqueue") ELSE Stay(w)
       ELSE UNCHANGED job /\ worker' = Stay(w)
    /\ UNCHANGED <<certVars, version, age, lost, client, renewer, caRevoked>>

(* A failure of this statement is only recorded as an event.               *)
EnqueueCleanup(w) ==
    /\ worker[w].pc = "enqueue"
    /\ \/ RowExists /\ EnsureIssuanceJob(NullVersion, "dns_cleanup")
       \/ UNCHANGED job
    /\ worker' = Stay(w)
    /\ UNCHANGED <<certVars, version, age, lost, client, renewer, caRevoked>>

Retries(j, retryable) == retryable /\ job[j].attempt < MaxAttempts

(* The where clause of FailIssuanceJob: the lease, or any failed job.      *)
MayFail(w) ==
    Fenced(w) \/ (worker[w].job \in Jobs /\ job[worker[w].job].status = "failed")

SlotTaken(j) ==
    \E k \in Jobs \ {j} : SameSlot(k, job[j].ver, job[j].reason)

Retried(row) == [Ended(row, "pending") EXCEPT !.attempt = @ + 1]

RetryJob(j) == job' = [job EXCEPT ![j] = Retried(job[j])]

GiveUpJob(j) == job' = [job EXCEPT ![j] = Ended(job[j], "failed")]

FailVersionForgotten(v) == UNCHANGED <<version, certStatus>>

FailVersion(v) ==
    IF v \in Issuing
    THEN /\ version' = [version EXCEPT ![v].status = "failed"]
         /\ certStatus' = IF ActiveValid # {} THEN "ready" ELSE "failed"
    ELSE UNCHANGED <<version, certStatus>>

FailIssuanceJob(w) ==
    /\ At(w, "fail")
    /\ LET j == worker[w].job
       IN  \/ /\ MayFail(w)
              /\ Retries(j, worker[w].bad)
              /\ ~SlotTaken(j)
              /\ RetryJob(j)
              /\ UNCHANGED <<version, certStatus>>
           \/ /\ MayFail(w)
              /\ ~Retries(j, worker[w].bad)
              /\ GiveUpJob(j)
              /\ FailVersion(job[j].ver)
           \/ /\ ~MayFail(w) \/ (Retries(j, worker[w].bad) /\ SlotTaken(j))
              /\ UNCHANGED <<job, version, certStatus>>
    /\ worker' = Stay(w)
    /\ UNCHANGED <<enabled, age, lost, client, renewer, caRevoked>>

(* Faults before the bound: they may hit any attempt but the last ones.    *)
FaultsLeft(w) == ~Fenced(w) \/ job[worker[w].job].attempt < MaxTries

(* RenewIssuanceJobLease finds no row, or the statement itself fails.      *)
HeartbeatFails(w) ==
    /\ worker[w].pc \in HeldPCs
    /\ w \notin lost
    /\ FaultsLeft(w)
    /\ lost' = lost \cup {w}
    /\ UNCHANGED <<certVars, version, age, job, worker, client, renewer, caRevoked>>

(* The cancelled context stops the work; nothing more is written.          *)
StopAfterLostLease(w) ==
    /\ w \in lost
    /\ lost' = lost \ {w}
    /\ worker' = Stay(w)
    /\ UNCHANGED <<certVars, version, age, job, client, renewer, caRevoked>>

Crash(w) ==
    /\ worker[w].pc # "idle"
    /\ FaultsLeft(w)
    /\ worker' = Stay(w)
    /\ lost' = lost \ {w}
    /\ UNCHANGED <<certVars, version, age, job, client, renewer, caRevoked>>

(* The heartbeat did not come in time; a live worker notices later.        *)
LeaseExpires(j) ==
    /\ job[j].status = "running"
    /\ job[j].live
    /\ job[j].attempt < MaxTries
    /\ job' = [job EXCEPT ![j].live = FALSE]
    /\ UNCHANGED <<certVars, version, age, worker, lost, client, renewer, caRevoked>>

----------------------------------------------------------------------------
(* Renewal workers: list, create the version, enqueue its job, each in a   *)
(* statement of its own and no transaction around them.                    *)

RenewalCandidate ==
    /\ RowExists
    /\ enabled
    /\ \E v \in Newest(ActiveValid) : age[v] = "due"
    /\ ~ \E v \in Issuing : version[v].reason = "renewal"

ListRenewalCandidates(r) ==
    /\ renewer[r].pc = "idle"
    /\ RenewalCandidate
    /\ renewer' = [renewer EXCEPT ![r] = [pc |-> "create", ver |-> NullVersion]]
    /\ UNCHANGED <<certVars, version, age, job, worker, lost, client, caRevoked>>

(* A version that is being issued for another reason is left alone.        *)
CreateRenewal(r) ==
    /\ renewer[r].pc = "create"
    /\ \E v \in Versions :
         /\ CreateIssuingVersion("renewal", v)
         /\ renewer' = [renewer EXCEPT ![r] =
                          IF version'[v].reason = "renewal"
                          THEN [pc |-> "enqueue", ver |-> v] ELSE IdleRenewer]
    /\ UNCHANGED <<enabled, age, job, worker, lost, client, caRevoked>>

EnqueueRenewal(r) ==
    /\ renewer[r].pc = "enqueue"
    /\ RowExists
    /\ EnsureIssuanceJob(renewer[r].ver, "renewal")
    /\ renewer' = [renewer EXCEPT ![r] = IdleRenewer]
    /\ UNCHANGED <<certVars, version, age, worker, lost, client, caRevoked>>

(* A statement fails, or the process dies between two of them.             *)
RenewerStops(r) ==
    /\ renewer[r].pc # "idle"
    /\ renewer' = [renewer EXCEPT ![r] = IdleRenewer]
    /\ UNCHANGED <<certVars, version, age, job, worker, lost, client, caRevoked>>

----------------------------------------------------------------------------
(* Time, for versions that have material.                                  *)

TimePasses(v) ==
    /\ version[v].status \in {"valid", "revoked"}
    /\ \/ age[v] = "fresh" /\ age' = [age EXCEPT ![v] = "due"]
       \/ age[v] = "due"   /\ age' = [age EXCEPT ![v] = "expired"]
    /\ UNCHANGED <<certVars, version, job, worker, lost, client, renewer, caRevoked>>

----------------------------------------------------------------------------

Init ==
    /\ certStatus = "absent"
    /\ enabled = TRUE
    /\ version = [v \in Versions |-> NoVersion]
    /\ age = [v \in Versions |-> "fresh"]
    /\ job = [j \in Jobs |-> NoJob]
    /\ worker = [w \in Workers |-> Idle]
    /\ lost = {}
    /\ client = [c \in Clients |-> IdleClient]
    /\ renewer = [r \in Renewers |-> IdleRenewer]
    /\ caRevoked = {}

ApiStep ==
    \/ EnsureNew
    \/ EnsureExisting
    \/ UpdateCertificateEnabled
    \/ \E v \in Versions : RevokeCertificateVersion(v)
    \/ \E force \in BOOLEAN : DeleteCertificate(force)
    \/ \E c \in Clients :
         \/ \E reason \in LifecycleReasons : StartLifecycle(c, reason)
         \/ FinishLifecycle(c)
         \/ AbandonLifecycle(c)

(* What a worker does with the job it has claimed.                         *)
WorkStep(w) ==
    \/ LoadVersion(w)
    \/ PrepareIssuingVersion(w)
    \/ UpdateCertificateIssuanceStatus(w)
    \/ StoreMaterial(w)
    \/ \E retryable \in BOOLEAN : StepFails(w, retryable)
    \/ CleanupPendingChallenges(w)
    \/ ListRevoked(w)
    \/ \E v \in Versions : RevokeCertificate(w, v)
    \/ MarkACMERevocation(w)
    \/ RevocationsDone(w)
    \/ SucceedIssuanceJob(w)
    \/ EnqueueCleanup(w)
    \/ FailIssuanceJob(w)
    \/ StopAfterLostLease(w)

FaultStep ==
    \/ \E w \in Workers : HeartbeatFails(w) \/ Crash(w)
    \/ \E j \in Jobs : LeaseExpires(j)

RenewStep(r) ==
    \/ ListRenewalCandidates(r)
    \/ CreateRenewal(r)
    \/ EnqueueRenewal(r)
    \/ RenewerStops(r)

Next ==
    \/ ApiStep
    \/ \E w \in Workers : ClaimNextIssuanceJob(w) \/ WorkStep(w)
    \/ FaultStep
    \/ \E r \in Renewers : RenewStep(r)
    \/ \E v \in Versions : TimePasses(v)

Spec == Init /\ [][Next]_vars

(* A lease that nobody renews runs out.                                    *)
OrphanLeaseExpires(j) ==
    /\ \A w \in Workers : worker[w].job = j => worker[w].pc = "idle"
    /\ LeaseExpires(j)

(* Each worker goroutine loops for ever, and so does the clock.            *)
Fairness ==
    /\ \A w \in Workers : WF_vars(ClaimNextIssuanceJob(w)) /\ WF_vars(WorkStep(w))
    /\ \A j \in Jobs : WF_vars(OrphanLeaseExpires(j))
    /\ \A r \in Renewers : WF_vars(RenewStep(r))

FairSpec == Spec /\ Fairness

----------------------------------------------------------------------------
(* Properties.                                                             *)

(* A job that ended in success left a version that has been issued: the    *)
(* silent refusal of StoreMaterial never passes for an issuance.           *)
SucceededJobSettled ==
    \A j \in Jobs :
        job[j].status = "succeeded" /\ job[j].reason \in IssuanceReasons
            => version[job[j].ver].status \in {"valid", "revoked"}

(* A certificate reads as failed only when nothing can be served and       *)
(* nothing is on its way, and reads as in progress only when a version is: *)
(* late status writes of a worker without a lease do not leave it stuck.   *)
StatusTracksVersions ==
    /\ certStatus = "failed" => Issuing = {} /\ ActiveValid = {}
    /\ certStatus \in {"pending", "validating_dns", "issuing", "renewing", "rotating_key"}
            => Issuing # {}

(* A version being issued has an active job, or is a renewal whose worker  *)
(* has not enqueued one yet or stopped before it could: no retry, no crash *)
(* of an issuance worker and no lost lease leaves a version without a job. *)
EveryJobOf(v) == {j \in Jobs : job[j].ver = v /\ job[j].status # "none"}

IssuingBacked ==
    \A v \in Issuing :
        \/ \E j \in Jobs : Active(j) /\ job[j].ver = v
        \/ version[v].reason = "renewal" /\ EveryJobOf(v) = {}

(* What the rows of jobs and versions say of each other agrees, although   *)
(* each pair of statements that settles them may be cut by a crash or the  *)
(* end of a lease (repository.go:StoreMaterial, FailIssuanceJob).  The     *)
(* fences compare names, so this needs workers whose names LockName tells  *)
(* apart, or none that claims a job on which its namesake is still at work. *)
JobsAgree == SucceededJobSettled /\ IssuingBacked

(* A version leaves "issuing" only by the store or the failure of a worker *)
(* that passes the owner fence of a running job for that very version: no  *)
(* request and no worker that a take-over has fenced out settles it, not   *)
(* even while the new holder is at work.                                   *)
OnlyHolderSettles ==
    [][\A v \in Versions :
         version[v].status = "issuing" /\ version'[v].status # "issuing"
           => \E w \in Workers :
                /\ worker[w].pc \in {"store", "fail"}
                /\ worker'[w] # worker[w]
                /\ Fenced(w)
                /\ worker[w].ver = v
                /\ job[worker[w].job].ver = v]_vars

(* No version is begun while the certificate is disabled, even when the    *)
(* request or the renewal worker read it as enabled.                       *)
NoStartWhileDisabled ==
    [][\A v \in Versions :
         version[v].status = "none" /\ version'[v].status = "issuing" => enabled']_vars

(* The CA only ever revokes what was revoked locally, and a revocation is  *)
(* recorded as succeeded only after the CA has made it.                    *)
RemoteRevocationTruthful ==
    certStatus # "gone" =>
        \A v \in Versions :
            /\ v \in caRevoked => version[v].status = "revoked"
            /\ version[v].acme = "succeeded" => v \in caRevoked

(* Every job comes to an end: lost leases are taken over, and retries are  *)
(* counted.  The bound on faults stands for their not going on for ever.   *)
EveryJobEnds ==
    \A j \in Jobs : Active(j) ~> ~Active(j)

----------------------------------------------------------------------------
(* The promise of CertificateVersions, kept by the rows.                   *)

Abstract == INSTANCE CertificateVersions WITH
    MaxActive <- MaxActiveValid,
    state <- [v \in Versions |-> version[v].status],
    expired <- {v \in Versions : age[v] = "expired"},
    deleted <- certStatus = "gone"

KeepsVersions == Abstract!ASpec
=============================================================================
