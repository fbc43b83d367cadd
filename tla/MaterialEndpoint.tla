-------------------------- MODULE MaterialEndpoint --------------------------
(* The rows of one certificate of an application, as issuance leaves them,  *)
(* and the requests of /v1/sync/certificates that ensure it and read its    *)
(* material.  A request runs as separate statements without a transaction   *)
(* (Service.MaterialForCriteria), so the rows may change between them.      *)
EXTENDS Integers

CONSTANTS Readers,      \* who sends requests, one at a time each
          MaxVersions,  \* bound on the versions ever created
          MaxFaults     \* bound on crashes, failing steps and lost answers

ASSUME EndpointAssumption == MaxVersions \in Nat /\ MaxFaults \in Nat

VARIABLES certificate,  \* "none", "open" or "failed"
          versions,     \* status of each version, "none" before it exists
          requests,     \* the request each reader has under way
          keyReads,     \* the versions named by private_key_read events
          faults
endpointVars == <<certificate, versions, requests, keyReads>>

Versions == 1..MaxVersions
WithStatus(s) == {v \in Versions : versions[v] = s}
Latest(S) == IF S = {} THEN 0 ELSE CHOOSE v \in S : \A w \in S : w <= v

(* GetLatestValidMaterial: 0 when there is no row.                          *)
GetLatestValidMaterial ==
    IF certificate = "open" THEN Latest(WithStatus("valid")) ELSE 0

Idle == [pc |-> "idle", kind |-> "none", etag |-> 0, checking |-> FALSE,
         status |-> "none", version |-> 0, answer |-> "none"]

EndpointInit ==
    /\ certificate = "none"
    /\ versions = [v \in Versions |-> "none"]
    /\ requests = [r \in Readers |-> Idle]
    /\ keyReads = {}
    /\ faults = 0

Fault == faults < MaxFaults /\ faults' = faults + 1

------------------------------------------------------------------------------
(* What issuance, time and administrators do to the rows.                   *)
Rows == <<certificate, versions>>
Fresh == Latest(Versions \ WithStatus("none")) + 1
CanBegin == WithStatus("issuing") = {} /\ Fresh \in Versions
BeginVersion ==
    /\ CanBegin
    /\ versions' = [versions EXCEPT ![Fresh] = "issuing"]
    /\ certificate' = "open"

RenewVersion == certificate # "none" /\ BeginVersion

IssueVersion == \E v \in WithStatus("issuing") :
    versions' = [versions EXCEPT ![v] = "valid"] /\ UNCHANGED certificate

FailIssuance == \E v \in WithStatus("issuing") :
    /\ versions' = [versions EXCEPT ![v] = "failed"]
    /\ certificate' = IF WithStatus("valid") # {} THEN "open" ELSE "failed"

(* What was issued first expires first.                                     *)
ExpireVersion == \E v \in WithStatus("valid") :
    /\ \A w \in WithStatus("valid") : v <= w
    /\ versions' = [versions EXCEPT ![v] = "ended"]
    /\ UNCHANGED certificate

RevokeVersion == \E v \in WithStatus("valid") :
    versions' = [versions EXCEPT ![v] = "ended"] /\ UNCHANGED certificate

(* The versions of a deleted certificate keep their numbers here, so that   *)
(* no later version is taken for one of them.                               *)
DeleteRows ==
    /\ certificate # "none"
    /\ WithStatus("issuing") = {}
    /\ certificate' = "none"
    /\ versions' = [v \in Versions |->
                      IF versions[v] = "none" THEN "none" ELSE "ended"]

(* An administrator cannot revoke or delete the certificate of the server.  *)
IssuanceStep ==
    /\ RenewVersion \/ IssueVersion \/ FailIssuance \/ ExpireVersion
    /\ UNCHANGED <<requests, keyReads, faults>>
RowStep ==
    \/ IssuanceStep
    \/ /\ RevokeVersion \/ DeleteRows
       /\ UNCHANGED <<requests, keyReads, faults>>

------------------------------------------------------------------------------
(* The statements of one request for material, or of one that ensures the   *)
(* certificate.                                                             *)
Request(kind, etag) ==
    [Idle EXCEPT !.pc = IF kind = "ensure" THEN "ensure" ELSE "find",
                 !.kind = kind, !.etag = etag, !.checking = etag # 0]

Ask(r, kind, etag) ==
    requests' = [requests EXCEPT ![r] = Request(kind, etag)]
Done(r) == requests' = [requests EXCEPT ![r] = Idle]

At(r, pc) == requests[r].pc = pc
Goes(r, pc) == requests' = [requests EXCEPT ![r].pc = pc]
Answered(r, answer) ==
    requests' = [requests EXCEPT ![r] =
        [@ EXCEPT !.pc = "answered", !.answer = answer,
                  !.status = "none", !.checking = FALSE]]

FindCertificate(r) ==
    /\ At(r, "find")
    /\ IF certificate = "none" THEN Answered(r, "not_found")
       ELSE requests' = [requests EXCEPT ![r] =
                [@ EXCEPT !.pc = "latest", !.status = certificate]]
    /\ UNCHANGED <<Rows, keyReads>>

(* The first pass compares the entity tag, the second reads the material.   *)
ReadLatest(r) ==
    /\ At(r, "latest")
    /\ LET v == GetLatestValidMaterial
       IN  IF v = 0 THEN Goes(r, "state")
           ELSE IF v = requests[r].etag THEN Answered(r, "unchanged")
           ELSE IF requests[r].checking
           THEN requests' = [requests EXCEPT ![r] =
                    [@ EXCEPT !.pc = "find", !.checking = FALSE]]
           ELSE requests' = [requests EXCEPT ![r] =
                    [@ EXCEPT !.pc = "audit", !.version = v]]
    /\ UNCHANGED <<Rows, keyReads>>

(* materialStateError lists the newest version after the fact.              *)
StateAnswer(status, newest) ==
    IF status = "failed" THEN "issuance_failed"
    ELSE CASE newest = "issuing" -> "not_ready"
           [] newest = "failed"  -> "issuance_failed"
           [] OTHER              -> "no_active_version"

NewestStatus ==
    LET created == Versions \ WithStatus("none")
    IN  IF created = {} THEN "none" ELSE versions[Latest(created)]

MaterialStateError(r) ==
    /\ At(r, "state")
    /\ Answered(r, StateAnswer(requests[r].status, NewestStatus))
    /\ UNCHANGED <<Rows, keyReads>>

(* Mutant: the event names the version that is newest when it is written.   *)
AuditedVersionNewest(r) == GetLatestValidMaterial
AuditedVersion(r) == requests[r].version

AuditPrivateKeyRead(r) ==
    /\ At(r, "audit")
    /\ keyReads' = keyReads \cup {AuditedVersion(r)}
    /\ Answered(r, "material")
    /\ UNCHANGED <<Rows>>

(* EnsureForApplicationToken: a certificate that is ready or failed is left *)
(* alone; at the bound of the versions nothing more can be created.         *)
EnsureCertificate(r) ==
    /\ At(r, "ensure")
    /\ \/ /\ WithStatus("valid") = {}
          /\ certificate # "failed"
          /\ BeginVersion
          /\ Answered(r, "accepted")
       \/ /\ certificate # "none"
          /\ UNCHANGED Rows
          /\ Answered(r, "accepted")
       \/ /\ certificate = "none" /\ ~CanBegin
          /\ UNCHANGED Rows
          /\ Answered(r, "request_failed")
    /\ UNCHANGED <<keyReads>>

(* A timeout, a broken connection or an unavailable server: the request may *)
(* have had its effect.  The client sends it again, or gives up.            *)
AnswerLost(r) ==
    /\ requests[r].pc # "idle"
    /\ requests[r].answer # "request_failed"
    /\ Fault
    /\ \/ Ask(r, requests[r].kind, requests[r].etag)
       \/ Answered(r, "request_failed")
    /\ UNCHANGED <<Rows, keyReads>>

ServeStep(r) ==
    \/ FindCertificate(r) \/ ReadLatest(r) \/ MaterialStateError(r)
    \/ AuditPrivateKeyRead(r) \/ EnsureCertificate(r)

RequestStep(r) == (ServeStep(r) /\ UNCHANGED faults) \/ AnswerLost(r)
=============================================================================
