---------------------------- MODULE AcmeIssuance ----------------------------
(***************************************************************************)
(* The inside of one issuance: the private key, the ACME order and its     *)
(* DNS-01 challenges, worked on by the worker that claimed the job, by the *)
(* workers that lost it and do not know yet, and by the dns_cleanup jobs   *)
(* of every certificate.  CertificateIssuance has all of this as single    *)
(* steps; here a call to the CA, a call to a DNS provider and a statement  *)
(* are each a step.  The CA and the DNS are external.                      *)
(***************************************************************************)
EXTENDS Naturals

CONSTANTS
    Workers,      \* issuance worker goroutines, each with an id of its own
    Cleaners,     \* workers that run dns_cleanup jobs
    Names,        \* the names of the certificate
    Orders,       \* bound: orders the CA can make
    Keys,         \* bound: private keys that can be generated
    MaxAttempts,  \* attempts after which a retryable failure is final
    MaxTries,     \* bound: attempts, those added by lost leases included
    Faults,       \* the kinds of faults that may happen
    None          \* SQL null

(* expiry: a lease runs out under a worker that is at work; stop: a worker *)
(* stops; list: the rows to clean up cannot be read; mark: a clean-up is   *)
(* not recorded.                                                           *)
FaultKinds == {"expiry", "stop", "list", "mark"}

ASSUME AcmeAssumption ==
    /\ MaxAttempts \in Nat /\ MaxTries \in Nat /\ Faults \subseteq FaultKinds
    /\ Workers \cap Cleaners = {}
    /\ None \notin Workers \cup Orders \cup Keys

(* A challenge is the TXT value that the CA expects for a name of an       *)
(* order.  Its rows are told apart by the worker that inserted them: the   *)
(* encrypted value of each is unique, so that no insert ever conflicts.    *)
Challenges == Orders \X Names
Rows == Orders \X Names \X Workers
ChallengeOf(r) == <<r[1], r[2]>>

VARIABLES
    job,       \* the certificate_issuance_jobs row
    ver,       \* the certificate_versions row
    row,       \* the dns_challenge_records rows
    actor,     \* the local state of each worker and cleaner
    usedKeys,  \* the private keys generated so far
    order,     \* the CA: its orders
    authz,     \* the CA: the authorization of each name of each order
    txt        \* the DNS: the challenges whose TXT value is published

local == <<actor, usedKeys>>
external == <<order, authz, txt>>
vars == <<job, ver, row, local, external>>

RowStatuses == {"none", "pending", "presented", "cleanup_pending",
                "cleanup_failed", "cleaned"}

(* todo: rows left in a stage or in a clean-up; rows: rows of the attempt; *)
(* names: authorizations left to fetch; cur: the row between a call and    *)
(* its record; gone: whether a clean-up call removed the value; retry:     *)
(* whether the failure to be recorded is retryable; then: where a clean-up *)
(* returns to.                                                             *)
Idle == [pc |-> "idle", key |-> None, order |-> None, names |-> {}, rows |-> {},
         todo |-> {}, cur |-> None, gone |-> FALSE, retry |-> FALSE, then |-> "idle"]

CallPCs == {"order", "prepare", "ensure", "record", "present", "mark_presented",
            "propagate", "accept", "mark_accepted", "wait", "finalize", "fetch", "store"}
CleanupPCs == {"list", "cleaning", "mark_cleaned", "list_failed"}
PCs == {"off", "idle", "load"} \cup CallPCs \cup CleanupPCs \cup {"fail", "finish"}

ActorStates ==
    [pc : PCs, key : Keys \cup {None}, order : Orders \cup {None},
     names : SUBSET Names, rows : SUBSET Rows, todo : SUBSET Rows,
     cur : Rows \cup {None}, gone : BOOLEAN, retry : BOOLEAN,
     then : {"idle", "list_failed", "fail"}]

TypeOK ==
    /\ job \in [status : {"pending", "running", "succeeded", "failed"},
                attempt : Nat, owner : Workers \cup {None}, live : BOOLEAN]
    /\ ver \in [status : {"issuing", "valid", "failed"},
                key : Keys \cup {None}, order : Orders \cup {None}]
    /\ row \in [Rows -> RowStatuses]
    /\ actor \in [Workers \cup Cleaners -> ActorStates]
    /\ usedKeys \subseteq Keys
    /\ order \in [Orders -> [status : {"none", "pending", "ready", "valid", "invalid"},
                             csr : Keys \cup {None}]]
    /\ authz \in [Challenges -> {"pending", "processing", "valid", "invalid"}]
    /\ txt \subseteq Challenges

----------------------------------------------------------------------------
(* Local steps.                                                            *)

Become(a, state) == actor' = [actor EXCEPT ![a] = state]
At(a, pc) == actor[a].pc = pc
GoTo(a, pc) == Become(a, [actor[a] EXCEPT !.pc = pc])
GoFail(w, retryable) == Become(w, [actor[w] EXCEPT !.pc = "list", !.retry = retryable])

Fenced(w) == job.status = "running" /\ job.owner = w /\ job.live

----------------------------------------------------------------------------
(* The job, as in CertificateIssuance.                                     *)

Claimable == job.status = "pending" \/ (job.status = "running" /\ ~job.live)

ClaimNextIssuanceJob(w) ==
    /\ At(w, "idle")
    /\ Claimable
    /\ job' = [status |-> "running", owner |-> w, live |-> TRUE,
               attempt |-> IF job.status = "running" THEN job.attempt + 1 ELSE job.attempt]
    /\ Become(w, [Idle EXCEPT !.pc = "load"])
    /\ UNCHANGED <<ver, row, usedKeys, external>>

(* The lease runs out while its worker is slow, or after it has stopped.   *)
LeaseExpires(fault) ==
    /\ job.status = "running" /\ job.live
    /\ fault = IF At(job.owner, "idle") THEN "stop" ELSE "expiry"
    /\ job.attempt < MaxTries
    /\ job' = [job EXCEPT !.live = FALSE]
    /\ UNCHANGED <<ver, row, local, external>>

(* The process dies, or the heartbeat finds the lease gone and cancels the *)
(* work: nothing more is written, the record of a clean-up call included.  *)
Stops(a, fault) ==
    /\ fault = IF At(a, "mark_cleaned") THEN "mark" ELSE "stop"
    /\ actor[a].pc \notin {"off", "idle"}
    /\ Fenced(a) => job.attempt < MaxTries
    /\ Become(a, Idle)
    /\ UNCHANGED <<job, ver, row, usedKeys, external>>

(* Any call or statement of an attempt may fail.  All but these fail with  *)
(* a code that is not retried.                                             *)
RetryablePCs == {"order", "ensure", "present", "propagate", "accept", "wait",
                 "finalize", "fetch"}

StepFails(w, retryable) ==
    /\ actor[w].pc \in CallPCs
    /\ retryable => actor[w].pc \in RetryablePCs
    /\ GoFail(w, retryable)
    /\ UNCHANGED <<job, ver, row, usedKeys, external>>

----------------------------------------------------------------------------
(* Key and order.                                                          *)

(* The key of the row, or a fresh one; the order of the row, if any.       *)
LoadVersion(w) ==
    /\ At(w, "load")
    /\ CASE ver.status = "valid"  -> GoTo(w, "finish") /\ UNCHANGED usedKeys
         [] ver.status = "failed" -> GoFail(w, FALSE) /\ UNCHANGED usedKeys
         [] ver.status = "issuing" ->
              \E k \in IF ver.key = None THEN Keys \ usedKeys ELSE {ver.key} :
                /\ usedKeys' = usedKeys \cup {k}
                /\ Become(w, [actor[w] EXCEPT !.pc = "order", !.key = k,
                                              !.order = ver.order])
    /\ UNCHANGED <<job, ver, row, external>>

(* A name the account has shown to control may need no new validation.     *)
Validated(n) == \E o \in Orders : authz[<<o, n>>] = "valid"

CreateOrder(w) ==
    /\ At(w, "order") /\ actor[w].order = None
    /\ \E o \in Orders, reused \in SUBSET {n \in Names : Validated(n)} :
         /\ order[o].status = "none"
         /\ order' = [order EXCEPT ![o] =
                        [status |-> IF reused = Names THEN "ready" ELSE "pending",
                         csr |-> None]]
         /\ authz' = [c \in Challenges |->
                        IF c[1] = o /\ c[2] \in reused THEN "valid" ELSE authz[c]]
         /\ Become(w, [actor[w] EXCEPT !.pc = "prepare", !.order = o])
    /\ UNCHANGED <<job, ver, row, usedKeys, txt>>

FetchOrder(w) ==
    /\ At(w, "order") /\ actor[w].order # None
    /\ GoTo(w, "prepare")
    /\ UNCHANGED <<job, ver, row, usedKeys, external>>

Coalesce(old, new) == IF old = None THEN new ELSE old

(* A slip, for the run to find: the newest order wins over the one recorded *)
PreparedWithNewOrder(k, o) == [ver EXCEPT !.key = Coalesce(ver.key, k), !.order = o]

(* No fence.  Whatever the row now holds, the worker goes on with the key  *)
(* and the order it came with.                                             *)
Prepared(k, o) ==
    [ver EXCEPT !.key = Coalesce(ver.key, k), !.order = Coalesce(ver.order, o)]

PrepareIssuingVersion(w) ==
    /\ At(w, "prepare")
    /\ IF ver.status = "issuing"
       THEN /\ ver' = Prepared(actor[w].key, actor[w].order)
            /\ Become(w, [actor[w] EXCEPT !.pc = "ensure", !.names = Names])
       ELSE GoFail(w, FALSE) /\ UNCHANGED ver
    /\ UNCHANGED <<job, row, usedKeys, external>>

----------------------------------------------------------------------------
(* Challenges: rows, TXT values, acceptance.                               *)

(* A slip: a row that a clean-up has removed counts as published.          *)
NeedsPresentOnce(status) == status \in {"pending", "cleanup_failed"}

NeedsPresent(status) == status \notin {"presented", "cleanup_pending"}

RowsOf(c) == {r \in Rows : ChallengeOf(r) = c /\ row[r] # "none"}

(* The status of a row is read here, and used when it is presented.        *)
WithRow(a, n, r, status) ==
    [a EXCEPT !.pc = "ensure", !.cur = None, !.names = a.names \ {n},
              !.rows = a.rows \cup {r},
              !.todo = IF NeedsPresent(status) THEN a.todo \cup {r} ELSE a.todo]

FetchAuthorization(w, n) ==
    /\ At(w, "ensure") /\ n \in actor[w].names
    /\ LET c == <<actor[w].order, n>>
       IN  CASE authz[c] = "valid" ->
                  Become(w, [actor[w] EXCEPT !.names = actor[w].names \ {n}])
             [] authz[c] # "valid" /\ RowsOf(c) # {} ->
                  \E r \in RowsOf(c) : Become(w, WithRow(actor[w], n, r, row[r]))
             [] OTHER ->
                  Become(w, [actor[w] EXCEPT !.pc = "record", !.cur = <<c[1], n, w>>])
    /\ UNCHANGED <<job, ver, row, usedKeys, external>>

(* A slip: the row is left to the step that marks it presented.            *)
RecordDNSChallengeLater(w) ==
    /\ At(w, "record")
    /\ Become(w, WithRow(actor[w], actor[w].cur[2], actor[w].cur, "pending"))
    /\ UNCHANGED <<job, ver, row, usedKeys, external>>

RecordDNSChallenge(w) ==
    /\ At(w, "record")
    /\ row' = [row EXCEPT ![actor[w].cur] = "pending"]
    /\ Become(w, WithRow(actor[w], actor[w].cur[2], actor[w].cur, "pending"))
    /\ UNCHANGED <<job, ver, usedKeys, external>>

(* One stage after the other; an order whose names are all validated has   *)
(* nothing to do in any of them.                                           *)
StageAfter(pc) ==
    CASE pc = "ensure"    -> "present"
      [] pc = "present"   -> "propagate"
      [] pc = "propagate" -> "accept"
      [] pc = "accept"    -> "wait"

StageDone(a) == IF a.pc = "ensure" THEN a.names = {} ELSE a.todo = {}

NextStage(w) ==
    /\ actor[w].pc \in {"ensure", "present", "propagate", "accept"}
    /\ StageDone(actor[w])
    /\ Become(w, [actor[w] EXCEPT
                    !.pc = StageAfter(actor[w].pc),
                    !.todo = CASE At(w, "ensure") -> actor[w].todo
                               [] At(w, "accept") -> {}
                               [] OTHER           -> actor[w].rows])
    /\ UNCHANGED <<job, ver, row, usedKeys, external>>

(* The provider publishes the value; its answer may be lost.               *)
PresentDNSChallenge(w, r) ==
    /\ At(w, "present") /\ r \in actor[w].todo
    /\ txt' = txt \cup {ChallengeOf(r)}
    /\ \/ Become(w, [actor[w] EXCEPT !.pc = "mark_presented", !.cur = r])
       \/ GoFail(w, TRUE)
    /\ UNCHANGED <<job, ver, row, usedKeys, order, authz>>

AfterMark(a, pc) ==
    [a EXCEPT !.pc = pc, !.cur = None, !.todo = a.todo \ {a.cur}]

PresentedFrom == {"pending", "cleaned", "cleanup_failed"}

MarkDNSChallengePresented(w) ==
    /\ At(w, "mark_presented")
    /\ row' = [row EXCEPT ![actor[w].cur] = IF @ \in PresentedFrom THEN "presented" ELSE @]
    /\ Become(w, AfterMark(actor[w], "present"))
    /\ UNCHANGED <<job, ver, usedKeys, external>>

(* The value is seen once; the timeout is a failure of the step.           *)
WaitForPropagation(w, r) ==
    /\ At(w, "propagate") /\ r \in actor[w].todo
    /\ ChallengeOf(r) \in txt
    /\ Become(w, [actor[w] EXCEPT !.todo = actor[w].todo \ {r}])
    /\ UNCHANGED <<job, ver, row, usedKeys, external>>

(* Accepting a challenge a second time changes nothing.                    *)
AcceptChallenge(w, r) ==
    /\ At(w, "accept") /\ r \in actor[w].todo
    /\ authz' = [authz EXCEPT ![ChallengeOf(r)] = IF @ = "pending" THEN "processing" ELSE @]
    /\ \/ Become(w, [actor[w] EXCEPT !.pc = "mark_accepted", !.cur = r])
       \/ GoFail(w, TRUE)
    /\ UNCHANGED <<job, ver, row, usedKeys, order, txt>>

MarkAccepted(w) ==
    /\ At(w, "mark_accepted")
    /\ row' = [row EXCEPT ![actor[w].cur] = "cleanup_pending"]
    /\ Become(w, AfterMark(actor[w], "accept"))
    /\ UNCHANGED <<job, ver, usedKeys, external>>

----------------------------------------------------------------------------
(* The certificate.                                                        *)

WaitOrder(w) ==
    /\ At(w, "wait")
    /\ CASE order[actor[w].order].status = "ready"   -> GoTo(w, "finalize")
         [] order[actor[w].order].status = "valid"   -> GoTo(w, "fetch")
         [] order[actor[w].order].status = "invalid" -> GoFail(w, FALSE)
         [] OTHER                                    -> FALSE
    /\ UNCHANGED <<job, ver, row, usedKeys, external>>

(* The CA signs the key of the request; its answer may be lost.  An order  *)
(* that another worker has finalized is not ready any more.                *)
FinalizeOrder(w) ==
    /\ At(w, "finalize")
    /\ LET o == actor[w].order
       IN  IF order[o].status = "ready"
           THEN /\ order' = [order EXCEPT ![o] = [status |-> "valid", csr |-> actor[w].key]]
                /\ GoTo(w, "store") \/ GoFail(w, TRUE)
           ELSE GoFail(w, TRUE) /\ UNCHANGED order
    /\ UNCHANGED <<job, ver, row, usedKeys, authz, txt>>

FetchCertificate(w) ==
    /\ At(w, "fetch")
    /\ GoTo(w, "store")
    /\ UNCHANGED <<job, ver, row, usedKeys, external>>

(* Without the lease nothing is stored, and that is no error.              *)
StoreMaterial(w) ==
    /\ At(w, "store")
    /\ ver' = IF ver.status = "issuing" /\ Fenced(w)
              THEN [status |-> "valid", key |-> actor[w].key, order |-> actor[w].order]
              ELSE ver
    /\ GoTo(w, "finish")
    /\ UNCHANGED <<job, row, usedKeys, external>>

SucceedIssuanceJob(w) ==
    /\ At(w, "finish")
    /\ job' = IF Fenced(w)
              THEN [job EXCEPT !.status = "succeeded", !.owner = None, !.live = FALSE]
              ELSE job
    /\ Become(w, Idle)
    /\ UNCHANGED <<ver, row, usedKeys, external>>

MayFail(w) == Fenced(w) \/ job.status = "failed"

Retried(w) == actor[w].retry /\ job.attempt < MaxAttempts

FailIssuanceJob(w) ==
    /\ At(w, "fail")
    /\ CASE MayFail(w) /\ Retried(w) ->
              /\ job' = [status |-> "pending", owner |-> None, live |-> FALSE,
                         attempt |-> job.attempt + 1]
              /\ UNCHANGED ver
         [] MayFail(w) /\ ~Retried(w) ->
              /\ job' = [job EXCEPT !.status = "failed", !.owner = None, !.live = FALSE]
              /\ ver' = IF ver.status = "issuing" THEN [ver EXCEPT !.status = "failed"] ELSE ver
         [] OTHER -> UNCHANGED <<job, ver>>
    /\ Become(w, Idle)
    /\ UNCHANGED <<row, usedKeys, external>>

----------------------------------------------------------------------------
(* Clean-up: of the rows of the job after a failure, of the rows of every  *)
(* job (here: of this one) by dns_cleanup.  The list is a snapshot.        *)

RowsIn(statuses) == {r \in Rows : row[r] \in statuses}

Listed(a, statuses, then) ==
    Become(a, [actor[a] EXCEPT !.pc = "cleaning", !.todo = RowsIn(statuses), !.then = then])

(* A slip: only the rows that dns_cleanup would list.                      *)
RemovableQueued == {"cleanup_pending", "cleanup_failed"}

Removable == RowStatuses \ {"none", "cleaned"}

ListRecordedChallenges(w) ==
    /\ At(w, "list")
    /\ Listed(w, Removable, "fail")
    /\ UNCHANGED <<job, ver, row, usedKeys, external>>

(* The rows cannot be read: nothing is cleaned up, and that is dropped.    *)
ListFails(w) ==
    /\ At(w, "list")
    /\ GoTo(w, "fail")
    /\ UNCHANGED <<job, ver, row, usedKeys, external>>

ListCleanupPending(c) ==
    /\ At(c, "idle")
    /\ Listed(c, {"cleanup_pending"}, "list_failed")
    /\ UNCHANGED <<job, ver, row, usedKeys, external>>

ListCleanupFailed(c) ==
    /\ At(c, "list_failed")
    /\ Listed(c, {"cleanup_failed"}, "idle")
    /\ UNCHANGED <<job, ver, row, usedKeys, external>>

(* The call may fail with or without having removed the value.             *)
CleanupDNSChallenge(a, r) ==
    /\ At(a, "cleaning") /\ r \in actor[a].todo
    /\ \E removed, answered \in BOOLEAN :
         /\ txt' = IF removed THEN txt \ {ChallengeOf(r)} ELSE txt
         /\ Become(a, [actor[a] EXCEPT !.pc = "mark_cleaned", !.cur = r,
                                       !.gone = removed /\ answered])
    /\ UNCHANGED <<job, ver, row, usedKeys, order, authz>>

(* No look at the status of the row.                                       *)
MarkDNSChallengeCleanup(a) ==
    /\ At(a, "mark_cleaned")
    /\ row' = [row EXCEPT ![actor[a].cur] =
                  IF actor[a].gone THEN "cleaned" ELSE "cleanup_failed"]
    /\ Become(a, AfterMark(actor[a], "cleaning"))
    /\ UNCHANGED <<job, ver, usedKeys, external>>

(* The statement fails, and that is dropped: the row says what it said.    *)
MarkFails(a) ==
    /\ At(a, "mark_cleaned")
    /\ Become(a, AfterMark(actor[a], "cleaning"))
    /\ UNCHANGED <<job, ver, row, usedKeys, external>>

CleaningDone(a) ==
    /\ At(a, "cleaning") /\ actor[a].todo = {}
    /\ GoTo(a, actor[a].then)
    /\ UNCHANGED <<job, ver, row, usedKeys, external>>

----------------------------------------------------------------------------
(* The CA looks each accepted challenge up once.                           *)

ValidateChallenge(o, n) ==
    /\ authz[<<o, n>>] = "processing" /\ order[o].status = "pending"
    /\ \E outcome \in {"valid", "invalid"} :
         /\ outcome = "valid" => <<o, n>> \in txt
         /\ authz' = [authz EXCEPT ![<<o, n>>] = outcome]
         /\ order' = [order EXCEPT ![o].status =
                        CASE outcome = "invalid" -> "invalid"
                          [] \A m \in Names \ {n} : authz[<<o, m>>] = "valid" -> "ready"
                          [] OTHER -> "pending"]
    /\ UNCHANGED <<job, ver, row, local, txt>>

----------------------------------------------------------------------------
Init ==
    /\ job = [status |-> "pending", attempt |-> 1, owner |-> None, live |-> FALSE]
    /\ ver = [status |-> "issuing", key |-> None, order |-> None]
    /\ row = [r \in Rows |-> "none"]
    /\ \E pc \in {"idle", "off"} :     \* off: no dns_cleanup job comes up
          actor = [a \in Workers \cup Cleaners |->
                     IF a \in Cleaners THEN [Idle EXCEPT !.pc = pc] ELSE Idle]
    /\ usedKeys = {}
    /\ order = [o \in Orders |-> [status |-> "none", csr |-> None]]
    /\ authz = [c \in Challenges |-> "pending"]
    /\ txt = {}

WorkerStep(w) ==
    \/ ClaimNextIssuanceJob(w)
    \/ StepFails(w, TRUE) \/ StepFails(w, FALSE)
    \/ LoadVersion(w)
    \/ CreateOrder(w) \/ FetchOrder(w)
    \/ PrepareIssuingVersion(w)
    \/ \E n \in Names : FetchAuthorization(w, n)
    \/ RecordDNSChallenge(w)
    \/ NextStage(w)
    \/ \E r \in Rows : PresentDNSChallenge(w, r)
    \/ MarkDNSChallengePresented(w)
    \/ \E r \in Rows : WaitForPropagation(w, r)
    \/ \E r \in Rows : AcceptChallenge(w, r)
    \/ MarkAccepted(w)
    \/ WaitOrder(w)
    \/ FinalizeOrder(w)
    \/ FetchCertificate(w)
    \/ StoreMaterial(w)
    \/ SucceedIssuanceJob(w)
    \/ ListRecordedChallenges(w)
    \/ FailIssuanceJob(w)

CleanupStep(a) ==
    \/ \E r \in Rows : CleanupDNSChallenge(a, r)
    \/ MarkDNSChallengeCleanup(a)
    \/ CleaningDone(a)

Work ==
    \/ \E w \in Workers : WorkerStep(w)
    \/ \E c \in Cleaners : ListCleanupPending(c) \/ ListCleanupFailed(c)
    \/ \E a \in Workers \cup Cleaners : CleanupStep(a)
    \/ \E o \in Orders, n \in Names : ValidateChallenge(o, n)

Fault(fault) ==
    \/ LeaseExpires(fault)
    \/ \E a \in Workers \cup Cleaners : Stops(a, fault)
    \/ fault = "list" /\ \E w \in Workers : ListFails(w)
    \/ fault = "mark" /\ \E a \in Workers \cup Cleaners : MarkFails(a)

Next == Work \/ \E fault \in Faults : Fault(fault)

Spec == Init /\ [][Next]_vars

----------------------------------------------------------------------------
(* Properties.                                                             *)

(* The order that a version names has been finalized with the key that the *)
(* version holds, or not at all - whichever of the workers that retried    *)
(* the job generated, ordered, prepared, finalized and stored.             *)
MaterialMatchesKey ==
    ver.order # None =>
        /\ order[ver.order].csr \in {None, ver.key}
        /\ ver.status = "valid" => order[ver.order].csr = ver.key

(* No TXT value is published before a row exists for it, so that whoever   *)
(* dies, the database names every value that may be in the DNS.            *)
TXTRecorded == \A c \in txt : RowsOf(c) # {}

(* A worker waits for propagation, and the CA for its validation, with the *)
(* value published.                                                        *)
PublishedUntilValidated ==
    \A w \in Workers :
        actor[w].pc \in {"propagate", "accept", "mark_accepted", "wait"} /\ Fenced(w)
            => \A r \in actor[w].rows :
                   ChallengeOf(r) \in txt \/ authz[ChallengeOf(r)] \in {"valid", "invalid"}
=============================================================================
