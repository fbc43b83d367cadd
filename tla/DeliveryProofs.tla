--------------------------- MODULE DeliveryProofs ---------------------------
(* Proofs about Delivery, for any number of versions, processes, readers,   *)
(* resources and faults.                                                    *)
EXTENDS Delivery, WellFoundedInduction, TLAPS

(* What the theorems of this module rest on: rows and requests.             *)
Statuses == {"none", "issuing", "valid", "failed", "ended"}
RequestPCs == {"idle", "find", "latest", "state", "audit", "ensure", "answered"}
Answers == {"none", "not_found", "unchanged", "material", "accepted", "not_ready",
            "issuance_failed", "no_active_version", "request_failed"}
RequestRows == [pc: RequestPCs, kind: {"none", "material", "ensure"}, etag: Nat,
                checking: BOOLEAN, status: {"none", "open", "failed"},
                version: {0} \cup Versions, answer: Answers]

RowsInv ==
    /\ certificate \in {"none", "open", "failed"}
    /\ versions \in [Versions -> Statuses]
    /\ faults \in 0..MaxFaults

(* The version of a request is audited before its material is handed out.   *)
RequestsInv ==
    /\ requests \in [Readers -> RequestRows]
    /\ keyReads \subseteq Versions
    /\ \A r \in Readers :
          /\ requests[r].pc # "answered" => requests[r].answer = "none"
          /\ requests[r].pc = "audit" => requests[r].version \in Versions
          /\ requests[r].answer = "material" => requests[r].version \in keyReads

------------------------------------------------------------------------------
(* The directory: whatever a power cut leaves is a release that had been    *)
(* synced before the symlink named it.                                      *)
Durable(r) == Whole(r) /\ r.entries /\ r.name

DiskInv ==
    /\ current \in onDisk
    /\ \A r \in onDisk \ {Absent} :
          /\ r \in Releases /\ r.mat \in Versions /\ Durable(r)
          /\ deployment = "cli" => r.mat \in keyReads
          /\ deployment = "server" => versions[r.mat] \in {"valid", "ended"}

(* How far a release is at a step of its publication.                       *)
Prepared(r, pc) ==
    /\ r \in Releases /\ r.mat \in Versions
    /\ IF pc = "write" THEN r.files < FileCount ELSE r.files = FileCount
    /\ pc \in {"write", "sync", "rename"} \/ r.place = "releases"
    /\ pc \in {"write", "sync"} \/ r.entries
    /\ pc \in {"write", "sync", "rename", "syncname"} \/ r.name

RunRows == [pc: {"stopped", "request", "again", "lock", "unlock"} \cup PublishingPCs,
            created: BOOLEAN, mat: {0} \cup Versions, release: Releases \cup {Absent}]

CliInv ==
    /\ run \in [Processes -> RunRows]
    /\ lock \in Processes \cup {Absent}
    /\ deployment # "cli" => run = [p \in Processes |-> Stopped]
    /\ \A p \in Processes :
          /\ run[p].pc = "lock" => run[p].mat \in keyReads
          /\ run[p].pc \in PublishingPCs \cup {"unlock"} =>
                /\ lock = p
                /\ Prepared(run[p].release, run[p].pc)
                /\ run[p].release.mat \in keyReads
          /\ run[p].pc \in {"syncdir", "unlock"} => current = run[p].release

------------------------------------------------------------------------------
(* The server: versions are issued one after the other, each for the name   *)
(* that is wanted, and what has ended was issued before what is valid.      *)
IssuedInOrder ==
    /\ DOMAIN hostOf = Versions
    /\ \A v \in Versions : versions[v] \in {"issuing", "valid"} => hostOf[v] = wanted
    /\ \A v, w \in Versions :
          /\ versions[v] = "issuing" /\ versions[w] # "none" => w <= v
          /\ versions[v] = "ended" /\ versions[w] \in {"issuing", "valid"} => v < w

SwitchingPCs == {"write", "sync", "rename", "syncname", "switch"}
SyncRows == [pc: {"down", "idle", "latest", "syncdir", "reload", "audit"} \cup SwitchingPCs,
             release: Releases \cup {Absent}]
LoadRows == [pc: {"idle", "key info", "cert", "key", "store"},
             certInfo: Nat, keyInfo: Nat, cert: Nat, key: Nat]
PairRows == [mat: {0} \cup Versions, certInfo: Nat, keyInfo: Nat]

(* A version that the running server may serve.                             *)
ForName(v) ==
    v \in Versions /\ versions[v] \in {"valid", "ended"} /\ hostOf[v] = hostname

(* Files of a running server only get newer, so what is read later is as new*)
(* as what was read before.                                                 *)
LoadedInOrder ==
    /\ cached.certInfo <= cached.mat /\ cached.mat <= Published
    /\ \A t \in Threads : loads[t].pc # "idle" =>
          /\ current # Absent
          /\ loads[t].certInfo <= Published
          /\ loads[t].pc \in {"key", "store"} =>
                /\ loads[t].certInfo <= loads[t].cert
                /\ loads[t].cert <= Published
                /\ ForName(loads[t].cert)

Publishing ==
    /\ SyncAt("latest") => wanted = hostname
    /\ sync.pc \in SwitchingPCs \cup {"syncdir"} =>
          Prepared(sync.release, sync.pc) /\ ForName(sync.release.mat)
    /\ sync.pc \in SwitchingPCs => Published < sync.release.mat

RunnerInv ==
    /\ sync \in SyncRows /\ loads \in [Threads -> LoadRows] /\ cached \in PairRows
    /\ deployment # "server" => SyncAt("down")
    /\ deployment = "server" => IssuedInOrder
    /\ SyncAt("down") => cached = NoPair /\ \A t \in Threads : loads[t].pc = "idle"
    /\ ~SyncAt("down") =>
          /\ current # Absent => ForName(Published)
          /\ cached.mat # 0 => ForName(cached.mat)
          /\ LoadedInOrder
          /\ Publishing

------------------------------------------------------------------------------
(* The operator: what a resource was listed with, and what it holds.        *)
ResourceRows == [life: {"absent", "live", "deleting", "gone"}, finalizer: BOOLEAN,
                 ready: BOOLEAN]
Items == [r: Resources, life: {"absent", "live", "deleting", "gone"}, finalizer: BOOLEAN,
          ready: BOOLEAN]
Secrets == [owner: Resources \cup {User}, refs: BOOLEAN, mat: {0} \cup Versions]
HoldingPCs == {"read", "migrate", "answer", "reread", "put"}
PassPCs == HoldingPCs \cup
    {"idle", "next", "finalizer", "status", "read for deletion", "reread for deletion",
     "delete", "confirm", "detach", "release"}
PassRows == [pc: PassPCs, todo: SUBSET Items, it: Items \cup {None},
             seen: Secrets \cup {None}, mat: {0} \cup Versions, ready: BOOLEAN]

(* A resource is reconciled once in a pass, and its finalizer is released   *)
(* by nobody but the operator.                                              *)
ListedInv ==
    /\ resources \in [Resources -> ResourceRows] /\ op \in PassRows
    /\ secret \in Secrets \cup {None}
    /\ op.pc \notin {"idle", "next"} => op.it \in Items
    /\ \A i \in op.todo :
          /\ i.finalizer => resources[i.r].finalizer
          /\ op.pc \notin {"idle", "next"} => i.r # op.it.r
          /\ \A j \in op.todo : i.r = j.r => i = j
    /\ op.pc \in HoldingPCs => resources[Me].finalizer

OwnedInv ==
    /\ ReferencedOwnersAreHeld
    /\ secret # None /\ secret.refs => secret.owner \in Resources
    /\ op.pc \in {"migrate", "delete", "detach"} => op.seen # None /\ Owned(op.seen)
    /\ op.pc = "put" => op.seen = None \/ Owned(op.seen)
    /\ op.pc = "release" => ~(secret # None /\ Owned(secret) /\ secret.refs)
    /\ op.pc \in {"reread", "put"} => op.mat \in keyReads
    /\ secret # None /\ secret.owner # User /\ secret.mat # 0 => secret.mat \in keyReads

(* The inductive invariant of the composition.                              *)
DeliveredInv ==
    /\ RowsInv /\ RequestsInv /\ DiskInv /\ CliInv /\ RunnerInv /\ ListedInv /\ OwnedInv

------------------------------------------------------------------------------
(* Rows of the certificate.                                                 *)

LEMMA LatestIsMaximal ==
    ASSUME NEW S \in SUBSET Versions
    PROVE  /\ S = {} => Latest(S) = 0
           /\ S # {} => Latest(S) \in S /\ \A w \in S : w <= Latest(S)
<1>1. ASSUME S # {}
      PROVE  \E v \in S : \A w \in S : w <= v
  <2> DEFINE Below == {MaxVersions - v : v \in S}
  <2>1. Below \subseteq Nat /\ Below # {}
    <3>1. \A v \in S : MaxVersions - v \in Nat
      BY EndpointAssumption DEF Versions
    <3> QED
      BY <1>1, <3>1
  <2>2. PICK d \in Below : \A e \in Below : ~(<<e, d>> \in OpToRel(<, Nat))
    BY <2>1, WFMin, NatLessThanWellFounded
  <2>3. ASSUME NEW e \in Below
        PROVE  d <= e
    <3>1. d \in Nat /\ e \in Nat
      BY <2>1
    <3>2. e < d => <<e, d>> \in OpToRel(<, Nat)
      BY <3>1 DEF OpToRel
    <3>3. ~(e < d)
      BY <2>2, <3>2, Zenon
    <3> HIDE DEF Below
    <3> QED
      BY <3>1, <3>3
  <2>4. PICK v \in S : d = MaxVersions - v
    OBVIOUS
  <2>5. ASSUME NEW w \in S
        PROVE  w <= v
    <3>1. d <= MaxVersions - w
      BY <2>3
    <3> QED
      BY <2>4, <3>1, EndpointAssumption DEF Versions
  <2> QED
    BY <2>5
<1> QED
  BY <1>1 DEF Latest

(* The next version comes after everything that was created.                *)
LEMMA FreshIsNext ==
    ASSUME RowsInv
    PROVE  /\ Fresh \in Nat /\ Fresh # 0
           /\ \A v \in Versions : versions[v] # "none" => v < Fresh
           /\ Fresh \in Versions => versions[Fresh] = "none"
<1> DEFINE Existing == Versions \ WithStatus("none")
<1>1. Existing \in SUBSET Versions
  OBVIOUS
<1>2. /\ Existing = {} => Latest(Existing) = 0
      /\ Existing # {} => Latest(Existing) \in Existing /\ \A w \in Existing : w <= Latest(Existing)
  BY <1>1, LatestIsMaximal
<1>3. Fresh = Latest(Existing) + 1
  BY DEF Fresh
<1>4. \A v \in Versions : versions[v] # "none" <=> v \in Existing
  BY DEF WithStatus
<1>5. Latest(Existing) \in Nat /\ \A w \in Existing : w <= Latest(Existing)
  BY <1>1, <1>2 DEF Versions
<1>6. \A v \in Versions : v \in Nat
  BY DEF Versions
<1> HIDE DEF Existing
<1> QED
  BY <1>3, <1>4, <1>5, <1>6

(* A version that begins is alone in being issued, and the newest.          *)
LEMMA BeginningVersion ==
    ASSUME RowsInv, BeginVersion
    PROVE  /\ RowsInv
           /\ \E f \in Versions :
                 /\ versions' = [versions EXCEPT ![f] = "issuing"] /\ versions[f] = "none"
                 /\ \A v \in Versions : versions[v] # "none" => v < f /\ versions[v] # "issuing"
           /\ certificate' \in {"none", "open", "failed"} /\ versions' \in [Versions -> Statuses]
<1>1. Fresh \in Versions /\ \A v \in Versions : versions[v] # "issuing"
  BY DEF BeginVersion, CanBegin, WithStatus
<1>2. versions' = [versions EXCEPT ![Fresh] = "issuing"] /\ certificate' = "open"
  BY DEF BeginVersion
<1>3. versions[Fresh] = "none" /\ \A v \in Versions : versions[v] # "none" => v < Fresh
  BY <1>1, FreshIsNext
<1> HIDE DEF Fresh
<1>4. versions' \in [Versions -> Statuses]
  BY <1>1, <1>2 DEF RowsInv, Statuses
<1> QED
  BY <1>1, <1>2, <1>3, <1>4

(* What time, issuance and administrators do keeps the rows well formed.    *)
LEMMA RowsChangeHolds ==
    ASSUME RowsInv, RowStep
    PROVE  RowsInv' /\ UNCHANGED <<requests, keyReads, faults>>
<1>1. UNCHANGED <<requests, keyReads, faults>>
  BY DEF RowStep, IssuanceStep
<1>2. CASE RenewVersion
  BY <1>1, <1>2, BeginningVersion DEF RenewVersion, RowsInv
<1>3. CASE IssueVersion \/ ExpireVersion \/ RevokeVersion
  BY <1>1, <1>3 DEF IssueVersion, ExpireVersion, RevokeVersion, RowsInv, Statuses, WithStatus
<1>4. CASE FailIssuance
  BY <1>1, <1>4 DEF FailIssuance, RowsInv, Statuses, WithStatus
<1>5. CASE DeleteRows
  BY <1>1, <1>5 DEF DeleteRows, RowsInv, Statuses
<1> QED
  BY <1>1, <1>2, <1>3, <1>4, <1>5 DEF RowStep, IssuanceStep

(* Issuance keeps versions in order, and what was issued stays so, for its  *)
(* name.                                                                    *)
IssuedStays ==
    \A v \in Versions : versions[v] \in {"valid", "ended"} =>
        versions'[v] \in {"valid", "ended"} /\ hostOf'[v] = hostOf[v]

LEMMA BeginningInOrder ==
    ASSUME RowsInv, IssuedInOrder, BeginVersion, NamesVersions, UNCHANGED wanted
    PROVE  IssuedInOrder' /\ IssuedStays
<1>1. /\ DOMAIN hostOf' = Versions
      /\ \A v \in Versions : hostOf'[v] =
            IF versions[v] = "none" /\ versions'[v] # "none" THEN wanted ELSE hostOf[v]
  BY DEF NamesVersions
<1>2. PICK f \in Versions :
         /\ versions' = [versions EXCEPT ![f] = "issuing"] /\ versions[f] = "none"
         /\ \A v \in Versions : versions[v] # "none" => v < f /\ versions[v] # "issuing"
  BY BeginningVersion
<1>3. \A v \in Versions : v \in Int
  BY DEF Versions
<1> QED
  BY <1>1, <1>2, <1>3 DEF RowsInv, Statuses, IssuedInOrder, IssuedStays

LEMMA IssuanceInOrder ==
    ASSUME RowsInv, IssuedInOrder, IssuanceStep, NamesVersions, UNCHANGED wanted
    PROVE  IssuedInOrder' /\ IssuedStays
<1> USE DEF RowsInv, Statuses
<1>1. /\ DOMAIN hostOf' = Versions
      /\ \A v \in Versions : hostOf'[v] =
            IF versions[v] = "none" /\ versions'[v] # "none" THEN wanted ELSE hostOf[v]
  BY DEF NamesVersions
<1>2. \A v \in Versions : v \in Int
  BY DEF Versions
<1>3. CASE RenewVersion
  BY <1>3, BeginningInOrder DEF RenewVersion
<1>4. CASE IssueVersion \/ FailIssuance
  <2>1. PICK i \in Versions :
           /\ versions[i] = "issuing"
           /\ \E s \in {"valid", "failed"} : versions' = [versions EXCEPT ![i] = s]
    BY <1>4 DEF IssueVersion, FailIssuance, WithStatus
  <2> QED
    BY <1>1, <1>2, <2>1 DEF IssuedInOrder, IssuedStays
<1>5. CASE ExpireVersion
  <2>1. PICK e \in Versions :
           /\ versions[e] = "valid" /\ versions' = [versions EXCEPT ![e] = "ended"]
           /\ \A w \in Versions : versions[w] = "valid" => e <= w
    BY <1>5 DEF ExpireVersion, WithStatus
  <2>2. \A w \in Versions : versions[w] = "issuing" => e < w
    BY <1>2, <2>1 DEF IssuedInOrder
  <2> QED
    BY <1>1, <1>2, <2>1, <2>2 DEF IssuedInOrder, IssuedStays
<1> QED
  BY <1>3, <1>4, <1>5 DEF IssuanceStep

(* A round of the reconciliation leaves the row to the configured name.     *)
LEMMA ReconciledInOrder ==
    ASSUME RowsInv, IssuedInOrder, ReconcileSame \/ ReconcileNew, NamesVersions,
           UNCHANGED faults
    PROVE  RowsInv' /\ IssuedInOrder' /\ IssuedStays /\ wanted' = hostname
<1>1. /\ DOMAIN hostOf' = Versions
      /\ \A v \in Versions : hostOf'[v] =
            IF versions[v] = "none" /\ versions'[v] # "none" THEN wanted' ELSE hostOf[v]
  BY DEF NamesVersions
<1>2. \A v \in Versions : v \in Int
  BY DEF Versions
<1>3. CASE ReconcileSame
  <2>1. wanted' = wanted /\ wanted = hostname
    BY <1>3 DEF ReconcileSame
  <2>2. CASE BeginVersion
    BY <2>1, <2>2, BeginningVersion, BeginningInOrder DEF RowsInv
  <2>3. CASE UNCHANGED Rows
    BY <1>1, <2>1, <2>3 DEF RowsInv, IssuedInOrder, IssuedStays, Rows
  <2> QED
    BY <1>3, <2>1, <2>2, <2>3 DEF ReconcileSame
<1>4. CASE ReconcileNew
  <2>1. /\ versions' = [v \in Versions |-> CASE v = Fresh -> "issuing"
                                           [] v < Fresh -> "ended" [] v > Fresh -> "none"]
        /\ certificate' = "open" /\ wanted' = hostname
    BY <1>4 DEF ReconcileNew
  <2>2. Fresh \in Nat /\ \A v \in Versions : versions[v] # "none" => v < Fresh
    BY FreshIsNext
  <2> HIDE DEF Fresh
  <2>3. \A v \in Versions :
           /\ v = Fresh => versions'[v] = "issuing"
           /\ v < Fresh => versions'[v] = "ended"
           /\ v > Fresh => versions'[v] = "none"
    BY <1>2, <2>1, <2>2
  <2>4. \A v \in Versions : v = Fresh \/ v < Fresh \/ v > Fresh
    BY <1>2, <2>2
  <2>5. RowsInv'
    BY <2>1, <2>3, <2>4 DEF RowsInv, Statuses
  <2>6. IssuedStays
    BY <1>1, <2>2, <2>3 DEF IssuedStays
  <2>7. IssuedInOrder'
    BY <1>1, <1>2, <2>2, <2>3, <2>4 DEF IssuedInOrder
  <2> QED
    BY <2>1, <2>5, <2>6, <2>7
<1> QED
  BY <1>3, <1>4

------------------------------------------------------------------------------
(* Requests.                                                                *)

LEMMA RequestWritten ==
    ASSUME RequestsInv, NEW r \in Readers, NEW q \in RequestRows,
           requests' = [requests EXCEPT ![r] = q],
           keyReads' \subseteq Versions, keyReads \subseteq keyReads',
           q.pc = "audit" => q.version \in Versions, q.pc # "answered" => q.answer = "none",
           q.answer = "material" => q.version \in keyReads'
    PROVE  RequestsInv'
  BY DEF RequestsInv

LEMMA AskingHolds ==
    ASSUME RequestsInv, NEW r \in Readers, NEW kind \in {"material", "ensure"}, NEW etag \in Nat,
           Ask(r, kind, etag), UNCHANGED keyReads
    PROVE  RequestsInv'
<1>1. /\ Request(kind, etag) \in RequestRows
      /\ Request(kind, etag).pc # "audit" /\ Request(kind, etag).answer = "none"
  BY DEF Request, Idle, RequestRows, RequestPCs, Answers
<1> QED
  BY <1>1, RequestWritten DEF Ask, RequestsInv

LEMMA DoneHolds ==
    ASSUME RequestsInv, NEW r \in Readers, Done(r), UNCHANGED keyReads
    PROVE  RequestsInv'
<1>1. Idle \in RequestRows /\ Idle.pc # "audit" /\ Idle.answer = "none"
  BY DEF Idle, RequestRows, RequestPCs, Answers
<1> QED
  BY <1>1, RequestWritten DEF Done, RequestsInv

LEMMA AnsweringHolds ==
    ASSUME RequestsInv, NEW r \in Readers, NEW answer \in Answers, Answered(r, answer),
           keyReads' \subseteq Versions, keyReads \subseteq keyReads',
           answer = "material" => requests[r].version \in keyReads'
    PROVE  RequestsInv'
<1> DEFINE q == [requests[r] EXCEPT !.pc = "answered", !.answer = answer,
                                    !.status = "none", !.checking = FALSE]
<1>1. requests[r] \in RequestRows
  BY DEF RequestsInv
<1>2. q \in RequestRows /\ q.pc = "answered" /\ q.answer = answer /\ q.version = requests[r].version
  BY <1>1 DEF RequestRows, RequestPCs
<1>3. requests' = [requests EXCEPT ![r] = q]
  BY DEF Answered
<1> HIDE DEF q
<1> QED
  BY <1>2, <1>3, RequestWritten

LEMMA RequestHolds ==
    ASSUME RowsInv, RequestsInv, NEW r \in Readers, RequestStep(r)
    PROVE  RowsInv' /\ RequestsInv' /\ keyReads \subseteq keyReads'
<1> DEFINE old == requests[r]
<1>1. requests[r] \in RequestRows /\ keyReads \subseteq Versions
  BY DEF RequestsInv
<1>2. CASE FindCertificate(r) /\ UNCHANGED faults
  <2>1. RowsInv' /\ UNCHANGED keyReads
    BY <1>2 DEF FindCertificate, RowsInv, Rows
  <2>2. CASE Answered(r, "not_found")
    BY <1>1, <2>1, <2>2, AnsweringHolds DEF Answers
  <2>3. CASE requests' = [requests EXCEPT ![r] = [@ EXCEPT !.pc = "latest", !.status = certificate]]
    <3> DEFINE q == [old EXCEPT !.pc = "latest", !.status = certificate]
    <3>1. q \in RequestRows /\ q.pc = "latest" /\ q.answer = old.answer
      BY <1>1 DEF RequestRows, RequestPCs, RowsInv
    <3>2. requests' = [requests EXCEPT ![r] = q]
      BY <2>3
    <3>3. old.answer = "none"
      BY <1>2 DEF FindCertificate, At, RequestsInv
    <3> HIDE DEF q
    <3> QED
      BY <1>1, <2>1, <3>1, <3>2, <3>3, RequestWritten
  <2> QED
    BY <1>2, <2>2, <2>3 DEF FindCertificate
<1>3. CASE ReadLatest(r) /\ UNCHANGED faults
  <2> DEFINE v == GetLatestValidMaterial
  <2>1. RowsInv' /\ UNCHANGED keyReads
    BY <1>3 DEF ReadLatest, RowsInv, Rows
  <2>2. v # 0 => v \in Versions
    BY LatestIsMaximal DEF GetLatestValidMaterial, WithStatus
  <2> HIDE DEF v
  <2>3. CASE Answered(r, "unchanged")
    BY <1>1, <2>1, <2>3, AnsweringHolds DEF Answers
  <2>4. ASSUME NEW q, requests' = [requests EXCEPT ![r] = q],
               \/ q = [old EXCEPT !.pc = "state"]
               \/ q = [old EXCEPT !.pc = "find", !.checking = FALSE]
               \/ q = [old EXCEPT !.pc = "audit", !.version = v] /\ v # 0
        PROVE  RequestsInv'
    <3>1. /\ q \in RequestRows /\ q.answer = old.answer
          /\ q.pc = "audit" => q.version \in Versions
      BY <1>1, <2>2, <2>4 DEF RequestRows, RequestPCs
    <3>2. old.answer = "none"
      BY <1>3 DEF ReadLatest, At, RequestsInv
    <3> QED
      BY <1>1, <2>1, <2>4, <3>1, <3>2, RequestWritten
  <2>5. \/ Answered(r, "unchanged")
        \/ \E q : /\ requests' = [requests EXCEPT ![r] = q]
                  /\ \/ q = [old EXCEPT !.pc = "state"]
                     \/ q = [old EXCEPT !.pc = "find", !.checking = FALSE]
                     \/ q = [old EXCEPT !.pc = "audit", !.version = v] /\ v # 0
    BY <1>3 DEF ReadLatest, Goes, v
  <2> QED
    BY <2>1, <1>3, <2>3, <2>4, <2>5 DEF ReadLatest
<1>4. CASE MaterialStateError(r) /\ UNCHANGED faults
  <2>1. StateAnswer(requests[r].status, NewestStatus) \in
            {"issuance_failed", "not_ready", "no_active_version"}
    BY DEF StateAnswer
  <2> QED
    BY <1>1, <1>4, <2>1, AnsweringHolds DEF MaterialStateError, RowsInv, Rows, Answers
<1>5. CASE AuditPrivateKeyRead(r) /\ UNCHANGED faults
  <2>1. requests[r].version \in Versions
    BY <1>5 DEF AuditPrivateKeyRead, At, RequestsInv
  <2> QED
    BY <1>1, <1>5, <2>1, AnsweringHolds DEF AuditPrivateKeyRead, AuditedVersion, RowsInv, Rows, Answers
<1>6. CASE EnsureCertificate(r) /\ UNCHANGED faults
  <2>1. RowsInv'
    BY <1>6, BeginningVersion DEF EnsureCertificate, RowsInv, Rows
  <2>2. UNCHANGED keyReads /\ \E a \in {"accepted", "request_failed"} : Answered(r, a)
    BY <1>6 DEF EnsureCertificate
  <2> QED
    BY <1>1, <2>1, <2>2, AnsweringHolds DEF Answers
<1>7. CASE AnswerLost(r)
  <2>1. RowsInv' /\ UNCHANGED keyReads
    BY <1>7, EndpointAssumption DEF AnswerLost, RowsInv, Rows, Fault
  <2>2. CASE Answered(r, "request_failed")
    BY <1>1, <2>1, <2>2, AnsweringHolds DEF Answers
  <2>3. CASE Ask(r, old.kind, old.etag)
    <3>1. requests' = [requests EXCEPT ![r] = Request(old.kind, old.etag)]
      BY <2>3 DEF Ask
    <3>2. /\ Request(old.kind, old.etag) \in RequestRows
          /\ Request(old.kind, old.etag).pc # "audit"
          /\ Request(old.kind, old.etag).answer = "none"
      BY <1>1 DEF Request, Idle, RequestRows, RequestPCs, Answers
    <3> QED
      BY <1>1, <2>1, <3>1, <3>2, RequestWritten
  <2> QED
    BY <1>7, <2>1, <2>2, <2>3 DEF AnswerLost
<1> QED
  BY <1>2, <1>3, <1>4, <1>5, <1>6, <1>7 DEF RequestStep, ServeStep

------------------------------------------------------------------------------
(* The directory.                                                           *)

(* A release that was synced before the switch survives a power cut.        *)
LEMMA DurableSurvives ==
    ASSUME NEW r \in Releases, Durable(r)
    PROVE  Survivors(r) = {r}
<1>1. r # Absent /\ r.entries /\ r.name
  BY AbsentAssumption DEF Durable
<1>2. Survivors(r) = {[r EXCEPT !.files = f, !.place = p] : f \in {r.files}, p \in {r.place}}
  BY <1>1 DEF Survivors
<1>3. [r EXCEPT !.files = r.files, !.place = r.place] = r
  BY DEF Releases
<1> QED
  BY <1>2, <1>3

LEMMA PowerCutChooses ==
    ASSUME DiskInv, PowerCut
    PROVE  current' \in onDisk /\ onDisk' = {current'}
<1>1. PICK r \in onDisk : \E s \in Survivors(r) : current' = s /\ onDisk' = {s}
  BY DEF PowerCut
<1>2. CASE r = Absent
  BY <1>1, <1>2 DEF Survivors
<1>3. CASE r # Absent
  <2>1. Survivors(r) = {r}
    BY <1>3, DurableSurvives DEF DiskInv
  <2> QED
    BY <1>1, <2>1
<1> QED
  BY <1>2, <1>3

(* Nothing is put on disk, and nothing that was issued is taken back.       *)
LEMMA DiskKept ==
    ASSUME DiskInv, current' \in onDisk', onDisk' \subseteq onDisk, UNCHANGED deployment,
           keyReads \subseteq keyReads', deployment = "server" => IssuedStays
    PROVE  DiskInv'
  BY DEF DiskInv, IssuedStays, Durable, Whole

(* How a release gets ready to be current.                                  *)
LEMMA ReleasesGetReady ==
    /\ \A m \in Versions : Prepared(Staged(m), "write") /\ Staged(m).mat = m
    /\ \A r : Prepared(r, "write") =>
          LET s == FileAdded(r)
          IN  Prepared(s, IF s.files = FileCount THEN "sync" ELSE "write") /\ s.mat = r.mat
    /\ \A r : Prepared(r, "sync") =>
          Prepared(EntriesSynced(r), "rename") /\ EntriesSynced(r).mat = r.mat
    /\ \A r : Prepared(r, "rename") => Prepared(Renamed(r), "syncname") /\ Renamed(r).mat = r.mat
    /\ \A r : Prepared(r, "syncname") => Prepared(NameSynced(r), "switch") /\ NameSynced(r).mat = r.mat
    /\ \A r : Prepared(r, "switch") => Durable(r) /\ Prepared(r, "syncdir")
    /\ \A r : Prepared(r, "syncdir") => Prepared(r, "unlock")
<1> USE DEF Prepared, Releases, FileCount
<1>1. \A m \in Versions : Prepared(Staged(m), "write") /\ Staged(m).mat = m
  BY DEF Staged, Versions
<1>2. \A r : Prepared(r, "write") =>
         LET s == FileAdded(r)
         IN  Prepared(s, IF s.files = FileCount THEN "sync" ELSE "write") /\ s.mat = r.mat
  BY DEF FileAdded
<1>3. \A r : Prepared(r, "sync") =>
         Prepared(EntriesSynced(r), "rename") /\ EntriesSynced(r).mat = r.mat
  BY DEF EntriesSynced
<1>4. \A r : Prepared(r, "rename") => Prepared(Renamed(r), "syncname") /\ Renamed(r).mat = r.mat
  BY DEF Renamed
<1>5. \A r : Prepared(r, "syncname") => Prepared(NameSynced(r), "switch") /\ NameSynced(r).mat = r.mat
  BY DEF NameSynced
<1>6. \A r : Prepared(r, "switch") => Durable(r) /\ Prepared(r, "syncdir")
  BY DEF Durable, Whole
<1>7. \A r : Prepared(r, "syncdir") => Prepared(r, "unlock")
  OBVIOUS
<1> QED
  BY <1>1, <1>2, <1>3, <1>4, <1>5, <1>6, <1>7

(* A release that is ready becomes current.                                 *)
LEMMA SwitchHolds ==
    ASSUME DiskInv, NEW r, Prepared(r, "switch"), SwitchCurrent(r),
           UNCHANGED <<deployment, keyReads, versions>>,
           deployment = "cli" => r.mat \in keyReads,
           deployment = "server" => versions[r.mat] \in {"valid", "ended"}
    PROVE  DiskInv'
<1>1. Durable(r) /\ r \in Releases /\ r.mat \in Versions
  BY ReleasesGetReady DEF Prepared
<1>2. current' = r /\ onDisk' = onDisk \cup {r}
  BY DEF SwitchCurrent
<1> QED
  BY <1>1, <1>2 DEF DiskInv, Durable, Whole

------------------------------------------------------------------------------
(* The CLI.                                                                 *)

(* A step of one process: the lock keeps every other one out of what it     *)
(* does to the directory.                                                   *)
LEMMA RunWritten ==
    ASSUME CliInv, NEW p \in Processes, NEW q \in RunRows, deployment = "cli",
           UNCHANGED deployment, run' = [run EXCEPT ![p] = q], keyReads \subseteq keyReads',
           lock' \in Processes \cup {Absent}, lock' = lock \/ lock \in {p, Absent},
           current' = current \/ lock = p,
           q.pc = "lock" => q.mat \in keyReads',
           q.pc \in PublishingPCs \cup {"unlock"} =>
               lock' = p /\ Prepared(q.release, q.pc) /\ q.release.mat \in keyReads',
           q.pc \in {"syncdir", "unlock"} => current' = q.release
    PROVE  CliInv'
<1> USE DEF CliInv
<1>1. run' \in [Processes -> RunRows]
  OBVIOUS
<1>2. \A s \in Processes : run'[s] = IF s = p THEN q ELSE run[s]
  OBVIOUS
<1>3. ASSUME NEW s \in Processes, s # p
      PROVE  /\ run'[s].pc = "lock" => run'[s].mat \in keyReads'
             /\ run'[s].pc \in PublishingPCs \cup {"unlock"} =>
                   /\ lock' = s /\ Prepared(run'[s].release, run'[s].pc)
                   /\ run'[s].release.mat \in keyReads'
             /\ run'[s].pc \in {"syncdir", "unlock"} => current' = run'[s].release
  <2>1. run'[s] = run[s]
    BY <1>2, <1>3
  <2>2. run[s].pc \in PublishingPCs \cup {"unlock"} => lock = s
    OBVIOUS
  <2>3. lock = s => lock' = s /\ current' = current
    BY <1>3, DeliveryAssumption
  <2> QED
    BY <2>1, <2>2, <2>3 DEF PublishingPCs
<1> QED
  BY <1>1, <1>2, <1>3

(* A process that exits, for whatever reason, leaves the directory free.    *)
LEMMA ExitHolds ==
    ASSUME CliInv, NEW p \in Processes, deployment = "cli", Exits(p),
           lock' = IF lock = p THEN Absent ELSE lock,
           UNCHANGED <<deployment, current, keyReads>>
    PROVE  CliInv'
<1>1. Stopped \in RunRows /\ Stopped.pc = "stopped"
  BY DEF Stopped, RunRows
<1> QED
  BY <1>1, RunWritten DEF Exits, CliInv, PublishingPCs

LEMMA PublishingHolds ==
    ASSUME DiskInv, CliInv, keyReads \subseteq Versions, deployment = "cli",
           UNCHANGED deployment, NEW p \in Processes, PublishStep(p)
    PROVE  DiskInv' /\ CliInv' /\ UNCHANGED <<endpointVars, faults>>
<1> DEFINE old == run[p]
<1>1. old \in RunRows /\ lock \in Processes \cup {Absent} /\ old.release \in Releases \cup {Absent}
  BY DEF CliInv, RunRows
<1>2. UNCHANGED <<endpointVars, faults>> /\ UNCHANGED keyReads
  BY DEF PublishStep, LockOutDir, WriteReleaseFile, SyncStaging, RenameRelease, SyncReleases,
         SwitchLink, SyncOutDir, Unlock, endpointVars
<1>3. /\ old.pc = "lock" => old.mat \in keyReads /\ old.mat \in Versions
      /\ old.pc \in PublishingPCs \cup {"unlock"} =>
            lock = p /\ Prepared(old.release, old.pc) /\ old.release.mat \in keyReads
      /\ old.pc \in {"syncdir", "unlock"} => current = old.release
  BY DEF CliInv
<1>4. UNCHANGED versions
  BY <1>2 DEF endpointVars
<1>5. ASSUME NEW r \in Releases, NEW pc \in PublishingPCs \cup {"unlock"},
             WithRelease(p, r, pc), lock' = p, lock \in {p, Absent}, Prepared(r, pc),
             r.mat \in keyReads, current' = current \/ lock = p,
             pc \in {"syncdir", "unlock"} => current' = r
      PROVE  CliInv'
  <2> DEFINE q == [old EXCEPT !.release = r, !.pc = pc]
  <2>1. q \in RunRows /\ q.pc = pc /\ q.release = r
    BY <1>1 DEF RunRows
  <2>2. run' = [run EXCEPT ![p] = q]
    BY <1>5 DEF WithRelease
  <2>3. pc # "lock"
    BY DEF PublishingPCs
  <2> HIDE DEF q
  <2> QED
    BY <1>1, <1>2, <1>5, <2>1, <2>2, <2>3, RunWritten
<1>6. \A pc : Goto(p, pc) => WithRelease(p, old.release, pc)
  <2> TAKE pc
  <2>1. [old EXCEPT !.release = old.release, !.pc = pc] = [old EXCEPT !.pc = pc]
    BY <1>1 DEF RunRows
  <2> QED
    BY <2>1 DEF Goto, WithRelease
<1>7. CASE LockOutDir(p)
  <2>1. old.mat \in keyReads /\ old.mat \in Versions
    BY <1>3, <1>7 DEF LockOutDir, RunAt
  <2>2. Prepared(Staged(old.mat), "write") /\ Staged(old.mat).mat = old.mat
    BY <2>1, ReleasesGetReady
  <2>3. DiskInv'
    BY <1>2, <1>7, DiskKept DEF LockOutDir, directoryVars, DiskInv
  <2> QED
    BY <1>2, <1>5, <1>7, <2>1, <2>2, <2>3
    DEF LockOutDir, LockFree, PublishingPCs, directoryVars, Prepared
<1>8. CASE WriteReleaseFile(p)
  <2>1. Prepared(old.release, "write") /\ lock = p /\ old.release.mat \in keyReads
    BY <1>3, <1>8 DEF WriteReleaseFile, RunAt, PublishingPCs
  <2>2. /\ Prepared(FileAdded(old.release),
                    IF FileAdded(old.release).files = FileCount THEN "sync" ELSE "write")
        /\ FileAdded(old.release).mat = old.release.mat
    BY <2>1, ReleasesGetReady
  <2>3. DiskInv'
    BY <1>2, <1>8, DiskKept DEF WriteReleaseFile, directoryVars, DiskInv
  <2> QED
    BY <1>2, <1>5, <1>8, <2>1, <2>2, <2>3
    DEF WriteReleaseFile, PublishingPCs, directoryVars, Prepared
<1>9. CASE SyncStaging(p) \/ RenameRelease(p) \/ SyncReleases(p)
  <2>1. lock = p /\ old.release.mat \in keyReads /\ Prepared(old.release, old.pc)
    BY <1>3, <1>9 DEF SyncStaging, RenameRelease, SyncReleases, RunAt, PublishingPCs
  <2>2. \E r, pc : /\ pc \in {"rename", "syncname", "switch"} /\ WithRelease(p, r, pc)
                   /\ Prepared(r, pc) /\ r.mat = old.release.mat
    BY <1>9, <2>1, ReleasesGetReady DEF SyncStaging, RenameRelease, SyncReleases, RunAt
  <2>3. DiskInv'
    BY <1>2, <1>9, DiskKept DEF SyncStaging, RenameRelease, SyncReleases, directoryVars, DiskInv
  <2>4. UNCHANGED <<current, lock>>
    BY <1>9 DEF SyncStaging, RenameRelease, SyncReleases, directoryVars
  <2> QED
    BY <1>2, <1>5, <2>1, <2>2, <2>3, <2>4 DEF PublishingPCs, Prepared
<1>10. CASE SwitchLink(p)
  <2>1. Prepared(old.release, "switch") /\ lock = p /\ old.release.mat \in keyReads
    BY <1>3, <1>10 DEF SwitchLink, RunAt, PublishingPCs
  <2>2. Prepared(old.release, "syncdir") /\ current' = old.release
    BY <1>10, <2>1, ReleasesGetReady DEF SwitchLink, SwitchCurrent
  <2>3. DiskInv'
    BY <1>2, <1>4, <1>10, <2>1, SwitchHolds DEF SwitchLink
  <2> QED
    BY <1>2, <1>5, <1>6, <1>10, <2>1, <2>2, <2>3 DEF SwitchLink, PublishingPCs, Prepared
<1>11. CASE SyncOutDir(p)
  <2>1. Prepared(old.release, "syncdir") /\ lock = p /\ old.release.mat \in keyReads
        /\ current = old.release
    BY <1>3, <1>11 DEF SyncOutDir, RunAt, PublishingPCs
  <2>2. Prepared(old.release, "unlock")
    BY <2>1, ReleasesGetReady
  <2>3. DiskInv'
    BY <1>2, <1>11, DiskKept DEF SyncOutDir, SyncDirectory, DiskInv
  <2> QED
    BY <1>2, <1>5, <1>6, <1>11, <2>1, <2>2, <2>3 DEF SyncOutDir, SyncDirectory, Prepared
<1>12. CASE Unlock(p)
  <2>1. lock = p
    BY <1>3, <1>12 DEF Unlock, RunAt
  <2>2. DiskInv'
    BY <1>2, <1>12, DiskKept DEF Unlock, directoryVars, DiskInv
  <2> QED
    BY <1>2, <1>12, <2>1, <2>2, ExitHolds DEF Unlock, directoryVars
<1> QED
  BY <1>2, <1>7, <1>8, <1>9, <1>10, <1>11, <1>12 DEF PublishStep

(* Starting, asking and taking answers: material that a process takes was   *)
(* audited for it.                                                          *)
LEMMA AskingProcessHolds ==
    ASSUME RequestsInv, DiskInv, CliInv, deployment = "cli", UNCHANGED deployment,
           NEW p \in Processes, StartSync(p) \/ AskAgain(p) \/ TakeAnswer(p)
    PROVE  RequestsInv' /\ DiskInv' /\ CliInv' /\ UNCHANGED <<Rows, faults>>
<1> DEFINE old == run[p]
<1>1. /\ p \in Readers /\ old \in RunRows /\ lock \in Processes \cup {Absent}
      /\ requests[p] \in RequestRows /\ keyReads \subseteq Versions
  BY DeliveryAssumption DEF CliInv, RequestsInv
<1>2. UNCHANGED <<Rows, keyReads, directoryVars, lock, faults>>
  BY DEF StartSync, AskAgain, TakeAnswer
<1>3. DiskInv'
  BY <1>2, DiskKept DEF directoryVars, DiskInv
<1>4. Published \in Nat
  BY DEF Published, DiskInv, Releases
<1>5. ASSUME NEW q \in RunRows, run' = [run EXCEPT ![p] = q],
             q.pc \notin PublishingPCs \cup {"unlock"}, q.pc = "lock" => q.mat \in keyReads
      PROVE  CliInv'
  <2>1. q.pc \notin {"syncdir", "unlock"}
    BY <1>5 DEF PublishingPCs
  <2> QED
    BY <1>1, <1>2, <1>5, <2>1, RunWritten DEF directoryVars
<1>6. ASSUME NEW pc \in {"request", "again"}, NEW b \in BOOLEAN,
             run' = [run EXCEPT ![p] = [old EXCEPT !.pc = pc, !.created = b]]
      PROVE  CliInv'
  <2> DEFINE q == [old EXCEPT !.pc = pc, !.created = b]
  <2>1. q \in RunRows /\ q.pc = pc
    BY <1>1 DEF RunRows
  <2> HIDE DEF q
  <2> QED
    BY <1>5, <1>6, <2>1 DEF PublishingPCs, q
<1>7. ASSUME NEW pc \in {"request", "again"}, Goto(p, pc)
      PROVE  CliInv'
  <2>1. [old EXCEPT !.pc = pc, !.created = old.created] = [old EXCEPT !.pc = pc]
        /\ old.created \in BOOLEAN
    BY <1>1 DEF RunRows
  <2> QED
    BY <1>6, <1>7, <2>1 DEF Goto
<1>8. ASSUME Exits(p)
      PROVE  CliInv'
  <2>1. Stopped \in RunRows /\ Stopped.pc = "stopped"
    BY DEF Stopped, RunRows
  <2> QED
    BY <1>5, <1>8, <2>1 DEF Exits, PublishingPCs
<1>9. CASE StartSync(p) \/ AskAgain(p)
  BY <1>1, <1>2, <1>3, <1>4, <1>7, <1>9, AskingHolds DEF StartSync, AskAgain
<1>10. CASE TakeAnswer(p)
  <2>1. CASE GetsMaterial(p)
    <3> DEFINE q == [Stopped EXCEPT !.pc = "lock", !.mat = requests[p].version]
    <3>1. requests[p].version \in keyReads
      BY <1>1, <2>1 DEF GetsMaterial, RequestsInv
    <3>2. q \in RunRows /\ q.pc = "lock" /\ q.mat = requests[p].version
      BY <1>1, <3>1 DEF Stopped, RunRows
    <3>3. run' = [run EXCEPT ![p] = q] /\ Done(p)
      BY <2>1 DEF GetsMaterial
    <3> HIDE DEF q
    <3> QED
      BY <1>1, <1>2, <1>3, <1>5, <3>1, <3>2, <3>3, DoneHolds DEF PublishingPCs
  <2>2. CASE Unchanged(p) \/ Refused(p) \/ NotReady(p)
    <3>1. Done(p) /\ (Exits(p) \/ Goto(p, "again"))
      BY <2>2 DEF Unchanged, Refused, NotReady
    <3> QED
      BY <1>1, <1>2, <1>3, <1>7, <1>8, <3>1, DoneHolds
  <2>3. CASE NotFound(p)
    <3>1. \/ Exits(p) /\ Done(p)
          \/ Goto(p, "request") /\ Ask(p, "ensure", 0)
      BY <2>3 DEF NotFound
    <3> QED
      BY <1>1, <1>2, <1>3, <1>7, <1>8, <3>1, DoneHolds, AskingHolds
  <2>4. CASE Created(p)
    <3>1. CliInv'
      BY <1>6, <1>8, <2>4 DEF Created
    <3> QED
      BY <1>1, <1>2, <1>3, <2>4, <3>1, DoneHolds DEF Created
  <2> QED
    BY <1>10, <2>1, <2>2, <2>3, <2>4 DEF TakeAnswer
<1> QED
  BY <1>9, <1>10

(* Failing steps, crashes and power cuts.                                   *)
LEMMA CliTroubleHolds ==
    ASSUME RowsInv, RequestsInv, DiskInv, CliInv, deployment = "cli", UNCHANGED deployment,
           Trouble
    PROVE  RowsInv' /\ RequestsInv' /\ DiskInv' /\ CliInv' /\ UNCHANGED keyReads
<1>1. RowsInv' /\ UNCHANGED keyReads
  BY EndpointAssumption
  DEF RowsInv, Trouble, CliPowerCut, FilesystemFails, CliCrash, Fault, Rows, endpointVars
<1>2. ASSUME NEW p \in Processes, FilesystemFails(p)
      PROVE  RequestsInv' /\ DiskInv' /\ CliInv'
  <2>1. UNCHANGED <<requests, keyReads, current, onDisk>>
    BY <1>2 DEF FilesystemFails, endpointVars, directoryVars
  <2> QED
    BY <1>2, <2>1, DiskKept, ExitHolds
    DEF FilesystemFails, Released, RequestsInv, DiskInv
<1>3. ASSUME NEW p \in Processes, CliCrash(p)
      PROVE  RequestsInv' /\ DiskInv' /\ CliInv'
  <2>1. UNCHANGED <<keyReads, current, onDisk>> /\ Exits(p)
    BY <1>3 DEF CliCrash, directoryVars, Exits
  <2>2. p \in Readers
    BY DeliveryAssumption
  <2> QED
    BY <1>3, <2>1, <2>2, DiskKept, ExitHolds, DoneHolds DEF CliCrash, Released, DiskInv
<1>4. CASE CliPowerCut
  <2>1. current' \in onDisk /\ onDisk' = {current'}
    BY <1>4, PowerCutChooses DEF CliPowerCut
  <2>2. DiskInv'
    BY <1>1, <2>1, DiskKept
  <2>3. CliInv'
    <3>1. Stopped \in RunRows /\ Stopped.pc = "stopped"
      BY DEF Stopped, RunRows
    <3> QED
      BY <1>4, <3>1 DEF CliPowerCut, CliInv, PublishingPCs
  <2>4. RequestsInv'
    <3>1. Idle \in RequestRows /\ Idle.pc = "idle" /\ Idle.answer = "none"
      BY DEF Idle, RequestRows, RequestPCs, Answers
    <3> QED
      BY <1>4, <3>1 DEF CliPowerCut, RequestsInv
  <2> QED
    BY <1>1, <2>2, <2>3, <2>4
<1> QED
  BY <1>1, <1>2, <1>3, <1>4 DEF Trouble

------------------------------------------------------------------------------
(* The server.                                                              *)

LEMMA PublishedVersion ==
    ASSUME DiskInv
    PROVE  /\ current = Absent => Published = 0
           /\ current # Absent => Published = current.mat /\ Published \in Versions
           /\ Published \in Nat
  BY DEF DiskInv, Published, Versions

(* What may be served stays so.                                             *)
LEMMA NamesStay ==
    ASSUME IssuedStays, UNCHANGED hostname
    PROVE  \A v : ForName(v) => ForName(v)'
  BY DEF IssuedStays, ForName

(* A step that leaves the files, the pair in memory and the loads alone.    *)
LEMMA RunnerKept ==
    ASSUME RunnerInv, ~SyncAt("down"), deployment = "server", UNCHANGED deployment,
           IssuedInOrder', IssuedStays, UNCHANGED <<hostname, loads, cached, current>>,
           sync' \in SyncRows, sync'.pc # "down", Publishing'
    PROVE  RunnerInv'
<1>1. \A v : ForName(v) => ForName(v)'
  BY NamesStay
<1>2. UNCHANGED Published
  BY DEF Published
<1>3. LoadedInOrder'
  <2>1. LoadedInOrder
    BY DEF RunnerInv
  <2>2. \A t \in Threads : ForName(loads[t].cert) => ForName(loads[t].cert)'
    BY <1>1 DEF ForName
  <2> QED
    BY <1>2, <2>1, <2>2 DEF LoadedInOrder
<1>4. current' # Absent => ForName(Published)'
  BY <1>1, <1>2 DEF RunnerInv, ForName
<1>5. cached'.mat # 0 => ForName(cached.mat)'
  BY <1>1 DEF RunnerInv, ForName
<1> QED
  BY <1>3, <1>4, <1>5 DEF RunnerInv, SyncAt

(* Issuance goes on beside the server, running or not.                      *)
LEMMA ServerRowsHold ==
    ASSUME RowsInv, RequestsInv, DiskInv, RunnerInv, deployment = "server", UNCHANGED deployment,
           ServerRowStep
    PROVE  RowsInv' /\ RequestsInv' /\ DiskInv' /\ RunnerInv' /\ UNCHANGED keyReads
<1>1. IssuedInOrder' /\ IssuedStays
  BY IssuanceInOrder DEF ServerRowStep, RunnerInv
<1>2. RowsInv' /\ UNCHANGED <<requests, keyReads>>
  BY RowsChangeHolds DEF ServerRowStep, RowStep
<1>3. UNCHANGED <<wanted, hostname, sync, loads, cached, current, onDisk>>
  BY DEF ServerRowStep, directoryVars
<1>4. DiskInv'
  BY <1>1, <1>2, <1>3, DiskKept DEF DiskInv
<1>5. RequestsInv'
  BY <1>2 DEF RequestsInv
<1>6. CASE SyncAt("down")
  BY <1>1, <1>2, <1>3, <1>4, <1>5, <1>6 DEF RunnerInv, SyncAt
<1>7. CASE ~SyncAt("down")
  <2>1. Publishing'
    <3>1. ForName(sync.release.mat) => ForName(sync.release.mat)'
      BY <1>1, <1>3, NamesStay DEF ForName
    <3>2. Publishing /\ UNCHANGED Published
      BY <1>3, <1>7 DEF RunnerInv, Published
    <3> QED
      BY <1>3, <3>1, <3>2 DEF Publishing, SyncAt
  <2>2. sync' \in SyncRows /\ sync'.pc # "down"
    BY <1>3, <1>7 DEF RunnerInv, SyncAt
  <2> QED
    BY <1>1, <1>2, <1>3, <1>4, <1>5, <1>7, <2>1, <2>2, RunnerKept
<1> QED
  BY <1>6, <1>7

(* A server starts only with files it may serve.                            *)
LEMMA StartHolds ==
    ASSUME DiskInv, RunnerInv, deployment = "server", UNCHANGED deployment, StartServer
    PROVE  DiskInv' /\ RunnerInv' /\ UNCHANGED <<endpointVars, faults>>
<1>1. /\ UNCHANGED <<endpointVars, faults, hostname, hostOf, wanted, loads, current, onDisk>>
      /\ UNCHANGED <<versions, keyReads>>
      /\ cached' = [mat |-> Published, certInfo |-> Published, keyInfo |-> Published]
      /\ sync' = [sync EXCEPT !.pc = "idle"]
      /\ current # Absent => Usable(Published)
  BY DEF StartServer, SyncGoes, directoryVars, endpointVars
<1>2. IssuedStays
  BY <1>1 DEF IssuedStays
<1>3. DiskInv'
  BY <1>1, <1>2, DiskKept DEF DiskInv
<1>4. /\ current = Absent => Published = 0
      /\ current # Absent => Published = current.mat /\ Published \in Versions
      /\ Published \in Nat /\ UNCHANGED Published
  BY <1>1, PublishedVersion DEF Published
<1>5. current # Absent => ForName(Published)
  BY <1>1, <1>4 DEF DiskInv, ForName, Usable
<1>6. (current # Absent => ForName(Published))'
  BY <1>1, <1>4, <1>5 DEF ForName
<1>7. sync' \in SyncRows /\ sync'.pc = "idle"
  BY <1>1 DEF RunnerInv, SyncRows
<1>8. LoadedInOrder'
  <2>1. \A t \in Threads : loads[t].pc = "idle"
    BY DEF StartServer, RunnerInv
  <2> QED
    BY <1>1, <1>4, <2>1 DEF LoadedInOrder
<1>9. Publishing'
  BY <1>7 DEF Publishing, SyncAt, SwitchingPCs
<1>10. IssuedInOrder'
  BY <1>1 DEF RunnerInv, IssuedInOrder
<1>11. cached' \in PairRows /\ (cached.mat # 0 => ForName(cached.mat))'
  <2>1. cached'.mat = Published /\ cached' \in PairRows
    BY <1>1, <1>4 DEF PairRows
  <2> QED
    BY <1>1, <1>4, <1>5, <2>1 DEF ForName
<1> QED
  BY <1>1, <1>3, <1>6, <1>7, <1>8, <1>9, <1>10, <1>11 DEF RunnerInv, SyncAt

(* Crashes, power cuts, another configuration and failing rounds.           *)
LEMMA ServerTroubleHolds ==
    ASSUME RowsInv, RequestsInv, DiskInv, RunnerInv, deployment = "server",
           UNCHANGED deployment, ServerTrouble
    PROVE  RowsInv' /\ RequestsInv' /\ DiskInv' /\ RunnerInv' /\ UNCHANGED keyReads
<1>1. /\ UNCHANGED <<hostOf, wanted, certificate, versions, requests, keyReads>> /\ Fault
      /\ IssuedStays
  BY DEF ServerTrouble, ServerCrash, ServerPowerCut, Reconfigure, SyncFails, endpointVars, IssuedStays
<1>2. RowsInv' /\ RequestsInv'
  BY <1>1, EndpointAssumption DEF RowsInv, RequestsInv, Fault
<1>3. IssuedInOrder'
  BY <1>1 DEF RunnerInv, IssuedInOrder
<1>4. CASE ServerCrash \/ ServerPowerCut
  <2>1. current' \in onDisk' /\ onDisk' \subseteq onDisk
    BY <1>4, PowerCutChooses DEF ServerCrash, ServerPowerCut, directoryVars, DiskInv
  <2>2. DiskInv'
    BY <1>1, <2>1, DiskKept
  <2>3. Killed
    BY <1>4 DEF ServerCrash, ServerPowerCut
  <2>4. /\ sync' \in SyncRows /\ sync'.pc = "down"
        /\ loads' \in [Threads -> LoadRows] /\ \A t \in Threads : loads'[t].pc = "idle"
        /\ cached' = NoPair /\ NoPair \in PairRows
    BY <2>3 DEF Killed, Resting, SyncRows, NoLoad, LoadRows, NoPair, PairRows
  <2> QED
    BY <1>1, <1>2, <1>3, <2>2, <2>4 DEF RunnerInv, SyncAt
<1>5. CASE Reconfigure
  <2>1. DiskInv'
    BY <1>1, <1>5, DiskKept DEF Reconfigure, directoryVars, DiskInv
  <2> QED
    BY <1>1, <1>2, <1>3, <1>5, <2>1 DEF Reconfigure, RunnerInv, SyncAt
<1>6. CASE SyncFails
  <2>1. DiskInv'
    BY <1>1, <1>6, DiskKept DEF SyncFails, directoryVars, DiskInv
  <2>2. sync' \in SyncRows /\ sync'.pc = "idle"
    BY <1>6 DEF SyncFails, Resting, SyncRows
  <2>3. Publishing'
    BY <2>2 DEF Publishing, SyncAt, SwitchingPCs
  <2>4. ~SyncAt("down") /\ UNCHANGED <<hostname, loads, cached, current>>
    BY <1>6 DEF SyncFails, SyncAt, directoryVars
  <2> QED
    BY <1>1, <1>2, <1>3, <2>1, <2>2, <2>3, <2>4, RunnerKept
<1> QED
  BY <1>4, <1>5, <1>6 DEF ServerTrouble

(* A round of the goroutine: it publishes issued material of the configured *)
(* name, newer than what is there.                                          *)
LEMMA ReconcileHolds ==
    ASSUME RowsInv, RequestsInv, DiskInv, RunnerInv, deployment = "server",
           UNCHANGED deployment, ReconcileDesired
    PROVE  RowsInv' /\ RequestsInv' /\ DiskInv' /\ RunnerInv' /\ UNCHANGED keyReads
<1>1. /\ UNCHANGED <<requests, keyReads, faults, current, onDisk, hostname, loads, cached>>
      /\ SyncAt("idle") /\ sync' = [sync EXCEPT !.pc = "latest"]
  BY DEF ReconcileDesired, SyncGoes, directoryVars
<1>2. RowsInv' /\ IssuedInOrder' /\ IssuedStays /\ wanted' = hostname
  BY <1>1, ReconciledInOrder DEF ReconcileDesired, RunnerInv
<1>3. DiskInv' /\ RequestsInv'
  BY <1>1, <1>2, DiskKept DEF DiskInv, RequestsInv
<1>4. sync' \in SyncRows /\ sync'.pc = "latest"
  BY <1>1 DEF RunnerInv, SyncRows
<1>5. Publishing'
  BY <1>1, <1>2, <1>4 DEF Publishing, SyncAt, SwitchingPCs
<1> QED
  BY <1>1, <1>2, <1>3, <1>4, <1>5, RunnerKept DEF SyncAt

LEMMA LatestHolds ==
    ASSUME RowsInv, DiskInv, RunnerInv, deployment = "server", UNCHANGED deployment, LatestMaterial
    PROVE  DiskInv' /\ RunnerInv' /\ UNCHANGED <<endpointVars, faults>>
<1> DEFINE v == GetLatestValidMaterial
<1>1. /\ UNCHANGED <<endpointVars, faults>>
      /\ UNCHANGED <<hostname, hostOf, wanted, loads, cached, current, onDisk, versions, keyReads>>
      /\ SyncAt("latest") /\ IssuedStays
  BY DEF LatestMaterial, endpointVars, directoryVars, IssuedStays
<1>2. DiskInv'
  BY <1>1, DiskKept DEF DiskInv
<1>3. IssuedInOrder /\ IssuedInOrder'
  BY <1>1 DEF RunnerInv, IssuedInOrder
<1>4. /\ sync' = Resting("idle") \/ sync' = [pc |-> "write", release |-> Staged(v)]
      /\ v \in {0, Published} => sync' = Resting("idle")
  BY DEF LatestMaterial, Selected
<1>5. \A w \in Versions : w \in Int
  BY DEF Versions
<1>6. v # 0 => /\ v \in Versions /\ versions[v] = "valid"
               /\ \A w \in Versions : versions[w] = "valid" => w <= v
  BY LatestIsMaximal DEF GetLatestValidMaterial, WithStatus
<1> HIDE DEF v
<1>7. CASE sync' = Resting("idle")
  <2>1. sync' \in SyncRows /\ sync'.pc = "idle"
    BY <1>7 DEF Resting, SyncRows
  <2>2. Publishing'
    BY <2>1 DEF Publishing, SyncAt, SwitchingPCs
  <2> QED
    BY <1>1, <1>2, <1>3, <2>1, <2>2, RunnerKept DEF SyncAt
<1>8. CASE v \notin {0, Published} /\ sync' = [pc |-> "write", release |-> Staged(v)]
  <2>1. wanted = hostname /\ (current # Absent => ForName(Published))
    BY <1>1 DEF RunnerInv, Publishing, SyncAt
  <2>2. ForName(v)
    BY <1>3, <1>6, <1>8, <2>1 DEF ForName, IssuedInOrder
  <2>3. Published < v
    <3>1. CASE current = Absent
      BY <1>6, <1>8, <3>1, PublishedVersion DEF Versions
    <3>2. CASE current # Absent /\ versions[Published] = "valid"
      <4>1. Published \in Versions
        BY <3>2, PublishedVersion
      <4> QED
        BY <1>5, <1>6, <1>8, <3>2, <4>1
    <3>3. CASE current # Absent /\ versions[Published] = "ended"
      BY <1>3, <1>6, <1>8, <3>3, PublishedVersion DEF IssuedInOrder
    <3> QED
      BY <2>1, <3>1, <3>2, <3>3 DEF ForName
  <2>4. Prepared(Staged(v), "write") /\ Staged(v).mat = v /\ Staged(v) \in Releases
    BY <1>6, <1>8, ReleasesGetReady DEF Prepared
  <2>5. sync' \in SyncRows /\ sync'.pc = "write" /\ sync'.release = Staged(v)
    BY <1>8, <2>4 DEF SyncRows, SwitchingPCs
  <2>6. Publishing'
    BY <1>1, <2>2, <2>3, <2>4, <2>5 DEF Publishing, SyncAt, SwitchingPCs, Published, ForName
  <2> QED
    BY <1>1, <1>2, <1>3, <2>5, <2>6, RunnerKept DEF SyncAt
<1> QED
  BY <1>1, <1>4, <1>7, <1>8

LEMMA ServerPublishHolds ==
    ASSUME DiskInv, RunnerInv, deployment = "server", UNCHANGED deployment, Publish
    PROVE  DiskInv' /\ RunnerInv' /\ UNCHANGED <<endpointVars, faults>>
<1>1. /\ UNCHANGED <<endpointVars, faults>>
      /\ UNCHANGED <<hostname, hostOf, wanted, loads, cached, versions, keyReads>>
      /\ IssuedStays /\ sync.pc \in SwitchingPCs \cup {"syncdir"} /\ ~SyncAt("down")
  BY DEF Publish, PublishFile, FsyncStaging, RenameStaging, FsyncReleases, SwitchSymlink,
         FsyncOutput, endpointVars, IssuedStays, SyncAt, SwitchingPCs
<1>2. IssuedInOrder'
  BY <1>1 DEF RunnerInv, IssuedInOrder
<1>3. /\ Prepared(sync.release, sync.pc) /\ ForName(sync.release.mat)
      /\ sync.pc \in SwitchingPCs => Published < sync.release.mat
      /\ sync \in SyncRows
  BY <1>1 DEF RunnerInv, Publishing
<1>4. CASE PublishFile \/ FsyncStaging \/ RenameStaging \/ FsyncReleases
  <2>1. sync.pc \in {"write", "sync", "rename", "syncname"} /\ UNCHANGED directoryVars
    BY <1>4 DEF PublishFile, FsyncStaging, RenameStaging, FsyncReleases, SyncAt
  <2>2. \E r : \E pc \in {"write", "sync", "rename", "syncname", "switch"} :
           Working(r, pc) /\ Prepared(r, pc) /\ r.mat = sync.release.mat
    BY <1>3, <1>4, ReleasesGetReady
    DEF PublishFile, FsyncStaging, RenameStaging, FsyncReleases, SyncAt
  <2>3. sync' \in SyncRows /\ sync'.pc \in SwitchingPCs /\ Prepared(sync'.release, sync'.pc)
        /\ sync'.release.mat = sync.release.mat
    BY <2>2 DEF Working, SyncRows, SwitchingPCs, Prepared
  <2>4. UNCHANGED <<current, onDisk>>
    BY <2>1 DEF directoryVars
  <2>5. Publishing'
    <3>1. Published < sync.release.mat /\ UNCHANGED Published
      BY <1>3, <2>1, <2>4 DEF SwitchingPCs, Published
    <3> QED
      BY <1>1, <1>3, <2>3, <3>1 DEF Publishing, SyncAt, SwitchingPCs, ForName
  <2>6. DiskInv'
    BY <1>1, <2>4, DiskKept DEF DiskInv
  <2>7. sync'.pc # "down"
    BY <2>3 DEF SwitchingPCs
  <2> QED
    BY <1>1, <1>2, <2>3, <2>4, <2>5, <2>6, <2>7, RunnerKept
<1>5. CASE SwitchSymlink
  <2>1. /\ Prepared(sync.release, "switch") /\ Published < sync.release.mat
        /\ SwitchCurrent(sync.release) /\ sync' = [sync EXCEPT !.pc = "syncdir"]
    BY <1>3, <1>5 DEF SwitchSymlink, SyncAt, SyncGoes, SwitchingPCs
  <2>2. DiskInv'
    BY <1>1, <1>3, <2>1, SwitchHolds DEF ForName
  <2>3. sync' \in SyncRows /\ sync'.pc = "syncdir" /\ sync'.release = sync.release
    BY <1>3, <2>1 DEF SyncRows
  <2>4. /\ current' # Absent /\ Published' = sync.release.mat /\ Published \in Nat
        /\ Published' \in Nat /\ Prepared(sync.release, "syncdir")
    <3>1. sync.release \in Releases /\ sync.release.mat \in Versions
      BY <2>1 DEF Prepared
    <3>2. current' = sync.release
      BY <2>1 DEF SwitchCurrent
    <3> QED
      BY <2>1, <3>1, <3>2, AbsentAssumption, PublishedVersion, ReleasesGetReady
      DEF Published, Versions
  <2>5. LoadedInOrder'
    <3>1. LoadedInOrder /\ loads \in [Threads -> LoadRows] /\ cached \in PairRows
      BY <1>1 DEF RunnerInv
    <3>2. \A t \in Threads : loads[t] \in LoadRows
      BY <3>1
    <3>3. cached.mat \in Nat
      BY <3>1 DEF PairRows, Versions
    <3>4. \A n \in Nat : n <= Published => n <= Published'
      BY <2>1, <2>4
    <3>5. \A t \in Threads : loads[t].certInfo \in Nat /\ loads[t].cert \in Nat
      BY <3>2 DEF LoadRows
    <3> QED
      BY <1>1, <2>4, <3>1, <3>3, <3>4, <3>5 DEF LoadedInOrder, ForName
  <2>6. Publishing'
    BY <1>1, <1>3, <2>3, <2>4 DEF Publishing, SyncAt, SwitchingPCs, ForName
  <2>7. (cached.mat # 0 => ForName(cached.mat))' /\ ForName(Published)'
    BY <1>1, <1>3, <2>4 DEF RunnerInv, ForName
  <2> QED
    BY <1>1, <1>2, <2>2, <2>3, <2>5, <2>6, <2>7 DEF RunnerInv, SyncAt
<1>6. CASE FsyncOutput
  <2>1. UNCHANGED current /\ onDisk' = {current} /\ sync' = [sync EXCEPT !.pc = "reload"]
    BY <1>6 DEF FsyncOutput, SyncDirectory, SyncGoes
  <2>2. DiskInv'
    BY <1>1, <2>1, DiskKept DEF DiskInv
  <2>3. sync' \in SyncRows /\ sync'.pc = "reload"
    BY <1>3, <2>1 DEF SyncRows
  <2>4. Publishing'
    BY <2>3 DEF Publishing, SyncAt, SwitchingPCs
  <2> QED
    BY <1>1, <1>2, <2>1, <2>2, <2>3, <2>4, RunnerKept
<1> QED
  BY <1>1, <1>4, <1>5, <1>6 DEF Publish

LEMMA SyncedAuditHolds ==
    ASSUME DiskInv, RunnerInv, deployment = "server", UNCHANGED deployment, AppendSyncedAudit
    PROVE  DiskInv' /\ RunnerInv' /\ UNCHANGED <<endpointVars, faults>>
<1>1. /\ UNCHANGED <<endpointVars, faults>>
      /\ UNCHANGED <<hostname, hostOf, wanted, loads, cached, current, onDisk, versions, keyReads>>
      /\ ~SyncAt("down") /\ IssuedStays /\ sync' = Resting("idle")
  BY DEF AppendSyncedAudit, endpointVars, directoryVars, IssuedStays, SyncAt
<1>2. DiskInv' /\ IssuedInOrder'
  BY <1>1, DiskKept DEF DiskInv, RunnerInv, IssuedInOrder
<1>3. sync' \in SyncRows /\ sync'.pc = "idle"
  BY <1>1 DEF Resting, SyncRows
<1>4. Publishing'
  BY <1>3 DEF Publishing, SyncAt, SwitchingPCs
<1> QED
  BY <1>1, <1>2, <1>3, <1>4, RunnerKept

(* What a handshake or the goroutine reads later is as new as what it read  *)
(* before.                                                                  *)
LEMMA ReloadHolds ==
    ASSUME DiskInv, RunnerInv, deployment = "server", UNCHANGED deployment,
           NEW t \in Threads, ReloadIfChanged(t)
    PROVE  DiskInv' /\ RunnerInv' /\ UNCHANGED <<endpointVars, faults>>
<1> DEFINE old == loads[t]
<1>1. /\ UNCHANGED <<endpointVars, faults>>
      /\ UNCHANGED <<hostname, hostOf, wanted, current, onDisk, versions, keyReads>>
      /\ IssuedStays
  BY DEF ReloadIfChanged, endpointVars, directoryVars, IssuedStays
<1>2. DiskInv' /\ IssuedInOrder'
  BY <1>1, DiskKept DEF DiskInv, RunnerInv, IssuedInOrder
<1>3. ~SyncAt("down")
  BY DEF ReloadIfChanged, StatCertificate, StatKey, ReadCertificate, ReadKey, StorePair,
         LoadAt, SyncAt, RunnerInv
<1>4. /\ LoadedInOrder /\ Publishing /\ (current # Absent => ForName(Published))
      /\ cached.mat # 0 => ForName(cached.mat)
      /\ sync \in SyncRows /\ loads \in [Threads -> LoadRows] /\ cached \in PairRows
  BY <1>3 DEF RunnerInv
<1>5. Published \in Nat /\ UNCHANGED Published
  BY <1>1, PublishedVersion DEF Published
<1>6. old \in LoadRows
  BY <1>4
<1>7. \A v : ForName(v)' <=> ForName(v)
  BY <1>1 DEF ForName
<1>8. ASSUME NEW l \in LoadRows, Loading(t, l),
             sync' = sync \/ (sync' \in SyncRows /\ sync'.pc \in {"audit", "idle"}),
             l.pc # "idle" => /\ current # Absent /\ l.certInfo <= Published
                              /\ l.pc \in {"key", "store"} =>
                                    /\ l.certInfo <= l.cert /\ l.cert <= Published
                                    /\ ForName(l.cert),
             cached' \in PairRows, cached'.certInfo <= cached'.mat, cached'.mat <= Published,
             cached'.mat # 0 => ForName(cached'.mat)
      PROVE  RunnerInv'
  <2>1. loads' \in [Threads -> LoadRows] /\ \A s \in Threads : loads'[s] = IF s = t THEN l ELSE loads[s]
    BY <1>4, <1>8 DEF Loading
  <2>2. LoadedInOrder'
    BY <1>1, <1>4, <1>5, <1>7, <1>8, <2>1 DEF LoadedInOrder, ForName
  <2>3. Publishing'
    <3>1. CASE sync' = sync
      BY <1>1, <1>4, <1>5, <3>1 DEF Publishing, SyncAt, ForName
    <3>2. CASE sync'.pc \in {"audit", "idle"}
      BY <3>2 DEF Publishing, SyncAt, SwitchingPCs
    <3> QED
      BY <1>8, <3>1, <3>2
  <2>4. (current # Absent => ForName(Published))' /\ (cached.mat # 0 => ForName(cached.mat))'
    BY <1>1, <1>4, <1>5, <1>8 DEF ForName
  <2>5. sync' \in SyncRows /\ sync'.pc # "down"
    BY <1>3, <1>4, <1>8 DEF SyncAt
  <2> QED
    BY <1>2, <1>8, <2>1, <2>2, <2>3, <2>4, <2>5 DEF RunnerInv, SyncAt
<1>9. cached.certInfo <= cached.mat /\ cached.mat <= Published
  BY <1>4 DEF LoadedInOrder
<1>10. old.pc # "idle" =>
         /\ current # Absent /\ old.certInfo <= Published
         /\ old.pc \in {"key", "store"} =>
               old.certInfo <= old.cert /\ old.cert <= Published /\ ForName(old.cert)
  BY <1>4 DEF LoadedInOrder
<1>11. NoLoad \in LoadRows /\ NoLoad.pc = "idle"
  BY DEF NoLoad, LoadRows
<1>12. \A ok \in BOOLEAN : LoadEnds(t, ok) =>
         /\ Loading(t, NoLoad)
         /\ sync' = sync \/ (sync' \in SyncRows /\ sync'.pc \in {"audit", "idle"})
  <2>1. [sync EXCEPT !.pc = "audit"] \in SyncRows /\ [sync EXCEPT !.pc = "audit"].pc = "audit"
    BY <1>4 DEF SyncRows
  <2>2. Resting("idle") \in SyncRows /\ Resting("idle").pc = "idle"
    BY DEF Resting, SyncRows
  <2> QED
    BY <2>1, <2>2 DEF LoadEnds
<1>13. CASE StatCertificate(t)
  <2> DEFINE l == [NoLoad EXCEPT !.pc = "key info", !.certInfo = Published]
  <2>1. l \in LoadRows /\ l.pc = "key info" /\ l.certInfo <= Published
    <3>1. Published <= Published /\ Published \in Nat
      BY PublishedVersion
    <3>2. l \in LoadRows /\ l.pc = "key info" /\ l.certInfo = Published
      BY <3>1 DEF NoLoad, LoadRows
    <3> HIDE DEF l
    <3> QED
      BY <3>1, <3>2
  <2>2. Loading(t, l) /\ UNCHANGED <<sync, cached>> /\ current # Absent
    BY <1>13 DEF StatCertificate
  <2> HIDE DEF l
  <2> QED
    BY <1>1, <1>2, <1>4, <1>8, <1>9, <2>1, <2>2
<1>14. CASE StatKey(t)
  <2>1. UNCHANGED cached
    BY <1>14 DEF StatKey
  <2>2. CASE LoadEnds(t, TRUE)
    BY <1>1, <1>2, <1>4, <1>8, <1>9, <1>11, <1>12, <2>1, <2>2
  <2>3. CASE Loading(t, [loads[t] EXCEPT !.pc = "cert", !.keyInfo = Published]) /\ UNCHANGED sync
    <3> DEFINE l == [loads[t] EXCEPT !.pc = "cert", !.keyInfo = Published]
    <3>1. l \in LoadRows /\ l.pc = "cert" /\ l.certInfo = old.certInfo
      BY <1>5, <1>6 DEF LoadRows
    <3>2. old.pc = "key info"
      BY <1>14 DEF StatKey, LoadAt
    <3>3. Loading(t, l) /\ UNCHANGED sync
      BY <2>3
    <3> HIDE DEF l
    <3> QED
      BY <1>1, <1>2, <1>4, <1>8, <1>9, <1>10, <2>1, <3>1, <3>2, <3>3
  <2> QED
    BY <1>14, <2>2, <2>3 DEF StatKey
<1>15. CASE ReadCertificate(t)
  <2> DEFINE l == [loads[t] EXCEPT !.pc = "key", !.cert = Published]
  <2>1. l \in LoadRows /\ l.pc = "key" /\ l.certInfo = old.certInfo /\ l.cert = Published
    BY <1>5, <1>6 DEF LoadRows
  <2>2. Loading(t, l) /\ UNCHANGED <<sync, cached>> /\ old.pc = "cert"
    BY <1>15 DEF ReadCertificate, LoadAt
  <2> HIDE DEF l
  <2> QED
    BY <1>1, <1>2, <1>4, <1>5, <1>8, <1>9, <1>10, <2>1, <2>2
<1>16. CASE ReadKey(t)
  <2> DEFINE l == [loads[t] EXCEPT !.pc = "store", !.key = Published]
  <2>1. l \in LoadRows /\ l.pc = "store" /\ l.certInfo = old.certInfo /\ l.cert = old.cert
    BY <1>5, <1>6 DEF LoadRows
  <2>2. Loading(t, l) /\ UNCHANGED <<sync, cached>> /\ old.pc = "key"
    BY <1>16 DEF ReadKey, LoadAt
  <2> HIDE DEF l
  <2> QED
    BY <1>1, <1>2, <1>4, <1>8, <1>9, <1>10, <2>1, <2>2
<1>17. CASE StorePair(t)
  <2>1. old.pc = "store"
    BY <1>17 DEF StorePair, LoadAt
  <2>2. CASE cached' = StoredPair(old) /\ LoadEnds(t, TRUE)
    <3>1. cached' \in PairRows /\ cached'.mat = old.cert /\ cached'.certInfo = old.certInfo
      BY <1>6, <1>10, <2>1, <2>2 DEF StoredPair, PairRows, LoadRows, ForName
    <3> QED
      BY <1>1, <1>2, <1>8, <1>10, <1>11, <1>12, <2>1, <2>2, <3>1
  <2>3. CASE UNCHANGED cached /\ LoadEnds(t, FALSE)
    BY <1>1, <1>2, <1>4, <1>8, <1>9, <1>11, <1>12, <2>3
  <2> QED
    BY <1>17, <2>2, <2>3 DEF StorePair
<1> QED
  BY <1>13, <1>14, <1>15, <1>16, <1>17 DEF ReloadIfChanged

------------------------------------------------------------------------------
(* The operator.                                                            *)

(* A step of a pass that goes on with the same resource, or drops it.       *)
FinalizersStay ==
    /\ resources' \in [Resources -> ResourceRows]
    /\ \A c \in Resources : resources'[c].finalizer = resources[c].finalizer

LEMMA PassGoesOn ==
    ASSUME ListedInv, OwnedInv, NEW o \in PassRows, op' = o, FinalizersStay,
           secret' \in Secrets \cup {None}, keyReads \subseteq keyReads', o.todo \subseteq op.todo,
           o.pc \notin {"idle", "next"} => op.pc \notin {"idle", "next"} /\ o.it = op.it,
           o.pc \in HoldingPCs => op.pc \in HoldingPCs,
           secret' # secret /\ secret' # None =>
               /\ secret'.refs =>
                     secret'.owner \in Resources /\ resources[secret'.owner].finalizer
               /\ secret'.owner # User /\ secret'.mat # 0 => secret'.mat \in keyReads',
           o.pc \in {"migrate", "delete", "detach"} => o.seen # None /\ o.seen.owner = o.it.r,
           o.pc = "put" => o.seen = None \/ o.seen.owner = o.it.r,
           o.pc = "release" => ~(secret' # None /\ secret'.owner = o.it.r /\ secret'.refs),
           o.pc \in {"reread", "put"} => o.mat \in keyReads'
    PROVE  ListedInv' /\ OwnedInv'
<1>1. ListedInv'
  <2>1. o.pc \notin {"idle", "next"} => o.it \in Items
    BY DEF ListedInv
  <2>2. o.pc \in HoldingPCs => resources[o.it.r].finalizer
    BY DEF ListedInv, HoldingPCs, Me
  <2>3. o.todo \in SUBSET Items /\ \A i \in o.todo : i.r \in Resources
    BY DEF PassRows, Items
  <2>4. o.pc \notin {"idle", "next"} => o.it.r \in Resources
    BY <2>1 DEF Items
  <2> QED
    BY <2>1, <2>2, <2>3, <2>4 DEF ListedInv, Me, FinalizersStay, HoldingPCs
<1>2. OwnedInv'
  BY DEF OwnedInv, ReferencedOwnersAreHeld, Owned, Me, FinalizersStay
<1> QED
  BY <1>1, <1>2

LEMMA SkipHolds ==
    ASSUME ListedInv, OwnedInv, Skip, FinalizersStay, UNCHANGED secret,
           keyReads \subseteq keyReads'
    PROVE  ListedInv' /\ OwnedInv'
<1> DEFINE o == [Waiting EXCEPT !.pc = "next", !.todo = op.todo]
<1>1. op \in PassRows /\ secret \in Secrets \cup {None}
  BY DEF ListedInv
<1>2. o \in PassRows /\ o.pc = "next" /\ o.todo = op.todo
  BY <1>1 DEF Waiting, PassRows, PassPCs
<1>3. op' = o
  BY DEF Skip
<1> HIDE DEF o
<1> QED
  BY <1>1, <1>2, <1>3, PassGoesOn DEF HoldingPCs

(* The Secret may have been written, for a resource that is held.           *)
LEMMA ShowHolds ==
    ASSUME ListedInv, OwnedInv, NEW b \in BOOLEAN, Show(b), op.pc \notin {"idle", "next"},
           UNCHANGED resources, keyReads \subseteq keyReads',
           secret' \in Secrets \cup {None},
           secret' # secret /\ secret' # None =>
               /\ secret'.refs =>
                     secret'.owner \in Resources /\ resources[secret'.owner].finalizer
               /\ secret'.owner # User /\ secret'.mat # 0 => secret'.mat \in keyReads'
    PROVE  ListedInv' /\ OwnedInv'
<1> DEFINE o == [Waiting EXCEPT !.pc = "status", !.todo = op.todo, !.it = op.it, !.ready = b]
<1>1. op \in PassRows
  BY DEF ListedInv
<1>2. o \in PassRows /\ o.pc = "status" /\ o.todo = op.todo /\ o.it = op.it
  BY <1>1 DEF Waiting, PassRows, PassPCs
<1>3. op' = o /\ FinalizersStay
  BY DEF Show, FinalizersStay, ListedInv
<1> HIDE DEF o
<1> QED
  BY <1>2, <1>3, PassGoesOn DEF HoldingPCs

LEMMA StopHolds ==
    ASSUME ListedInv, OwnedInv, op' = Waiting, UNCHANGED <<resources, secret>>,
           keyReads \subseteq keyReads'
    PROVE  ListedInv' /\ OwnedInv'
<1>1. Waiting \in PassRows /\ Waiting.pc = "idle" /\ Waiting.todo = {}
  BY DEF Waiting, PassRows, PassPCs
<1>2. secret \in Secrets \cup {None} /\ FinalizersStay
  BY DEF ListedInv, FinalizersStay
<1> QED
  BY <1>1, <1>2, PassGoesOn DEF HoldingPCs

(* Every resource is listed once, as it is.                                 *)
LEMMA ListHolds ==
    ASSUME ListedInv, OwnedInv, ListCertificates, UNCHANGED keyReads
    PROVE  ListedInv' /\ OwnedInv'
<1> DEFINE L == {Fresher(c) : c \in {d \in Resources : resources[d].life \in {"live", "deleting"}}}
           o == [Waiting EXCEPT !.pc = "next", !.todo = L]
<1>1. /\ resources \in [Resources -> ResourceRows] /\ secret \in Secrets \cup {None}
      /\ UNCHANGED <<resources, secret>> /\ op' = o
  BY DEF ListCertificates, ListedInv
<1>2. \A c \in Resources : /\ Fresher(c) \in Items /\ Fresher(c).r = c
                           /\ Fresher(c).finalizer = resources[c].finalizer
  BY <1>1 DEF Fresher, Items, ResourceRows
<1>3. L \in SUBSET Items /\ \A i \in L : /\ i.finalizer => resources[i.r].finalizer
                                        /\ \A j \in L : i.r = j.r => i = j
  BY <1>2
<1> HIDE DEF L
<1>4. o \in PassRows /\ o.pc = "next" /\ o.todo = L
  BY <1>3 DEF Waiting, PassRows, PassPCs
<1> HIDE DEF o
<1>5. ListedInv'
  BY <1>1, <1>3, <1>4 DEF ListedInv, HoldingPCs
<1>6. OwnedInv'
  BY <1>1, <1>4 DEF OwnedInv, ReferencedOwnersAreHeld
<1> QED
  BY <1>5, <1>6

LEMMA ReconcileNextHolds ==
    ASSUME ListedInv, OwnedInv, ReconcileNext, UNCHANGED keyReads
    PROVE  ListedInv' /\ OwnedInv'
<1>1. UNCHANGED <<resources, secret>> /\ op.pc = "next" /\ op \in PassRows
  BY DEF ReconcileNext, ListedInv, OpAt
<1>2. CASE op' = Waiting
  BY <1>1, <1>2, StopHolds
<1>3. ASSUME NEW it \in op.todo, NEW pc \in {"read for deletion", "read", "finalizer"},
             pc = "read" => it.finalizer,
             op' = [op EXCEPT !.todo = @ \ {it}, !.it = it, !.pc = pc]
      PROVE  ListedInv' /\ OwnedInv'
  <2> DEFINE o == [op EXCEPT !.todo = @ \ {it}, !.it = it, !.pc = pc]
  <2>1. it \in Items
    BY <1>1 DEF PassRows
  <2>2. o \in PassRows /\ o.pc = pc /\ o.it = it /\ o.todo = op.todo \ {it}
    BY <1>1, <2>1 DEF PassRows, PassPCs, HoldingPCs
  <2>3. op' = o
    BY <1>3
  <2> HIDE DEF o
  <2>4. ListedInv'
    BY <1>1, <1>3, <2>1, <2>2, <2>3 DEF ListedInv, HoldingPCs, Me
  <2>5. OwnedInv'
    BY <1>1, <2>2, <2>3 DEF OwnedInv, ReferencedOwnersAreHeld
  <2> QED
    BY <2>4, <2>5
<1>4. \/ op' = Waiting
      \/ \E it \in op.todo : \E pc \in {"read for deletion", "read", "finalizer"} :
            /\ pc = "read" => it.finalizer
            /\ op' = [op EXCEPT !.todo = @ \ {it}, !.it = it, !.pc = pc]
  BY DEF ReconcileNext
<1> QED
  BY <1>2, <1>3, <1>4

LEMMA AddFinalizerHolds ==
    ASSUME ListedInv, OwnedInv, AddFinalizer, UNCHANGED keyReads
    PROVE  ListedInv' /\ OwnedInv'
<1>1. /\ UNCHANGED secret /\ op.pc = "finalizer" /\ op \in PassRows /\ op.it \in Items
      /\ resources \in [Resources -> ResourceRows]
  BY DEF AddFinalizer, ListedInv, OpAt
<1>2. CASE Skip /\ UNCHANGED resources
  BY <1>1, <1>2, SkipHolds DEF FinalizersStay
<1>3. CASE /\ op' = [op EXCEPT !.pc = "read", !.it.finalizer = TRUE]
           /\ resources' = [resources EXCEPT ![Me].finalizer = TRUE]
  <2> DEFINE it == [op.it EXCEPT !.finalizer = TRUE]
             o == [op EXCEPT !.pc = "read", !.it = it]
  <2>1. it \in Items /\ it.r = op.it.r /\ op.it.r \in Resources
    BY <1>1 DEF Items
  <2> HIDE DEF it
  <2>2. o \in PassRows /\ o.pc = "read" /\ o.it = it /\ o.todo = op.todo
    BY <1>1, <2>1 DEF PassRows, PassPCs, HoldingPCs
  <2>3. op' = o
    BY <1>1, <1>3 DEF it, PassRows
  <2> HIDE DEF o
  <2>4. /\ resources' \in [Resources -> ResourceRows] /\ resources'[op.it.r].finalizer
        /\ \A c \in Resources : resources[c].finalizer => resources'[c].finalizer
    BY <1>1, <1>3, <2>1 DEF Me, ResourceRows
  <2>5. \A i \in op.todo : i.r \in Resources
    BY <1>1 DEF PassRows, Items
  <2>6. ListedInv'
    BY <1>1, <2>1, <2>2, <2>3, <2>4, <2>5 DEF ListedInv, HoldingPCs, Me
  <2>7. OwnedInv'
    BY <1>1, <2>2, <2>3, <2>4 DEF OwnedInv, ReferencedOwnersAreHeld
  <2> QED
    BY <2>6, <2>7
<1> QED
  BY <1>2, <1>3 DEF AddFinalizer

(* The requests of the operator, and what it does with the answers.         *)
LEMMA AskForHolds ==
    ASSUME RequestsInv, ListedInv, OwnedInv, NEW kind \in {"material", "ensure"},
           NEW etag \in Nat, AskFor(kind, etag), UNCHANGED <<resources, keyReads>>,
           op.pc \in HoldingPCs, secret' \in Secrets \cup {None},
           secret' # secret /\ secret' # None =>
               /\ secret'.refs =>
                     secret'.owner \in Resources /\ resources[secret'.owner].finalizer
               /\ secret'.owner # User /\ secret'.mat # 0 => secret'.mat \in keyReads'
    PROVE  RequestsInv' /\ ListedInv' /\ OwnedInv'
<1> DEFINE o == [op EXCEPT !.pc = "answer", !.seen = None]
<1>1. op \in PassRows /\ Operator \in Readers /\ op.pc \notin {"idle", "next"}
  BY DeliveryAssumption DEF ListedInv, HoldingPCs
<1>2. o \in PassRows /\ o.pc = "answer" /\ o.todo = op.todo /\ o.it = op.it
  BY <1>1 DEF PassRows, PassPCs, HoldingPCs
<1>3. op' = o /\ FinalizersStay
  BY DEF AskFor, FinalizersStay, ListedInv
<1> HIDE DEF o
<1>4. ListedInv' /\ OwnedInv'
  BY <1>1, <1>2, <1>3, PassGoesOn
<1> QED
  BY <1>1, <1>4, AskingHolds DEF AskFor

(* What the operator looks at, it has read: the Secret of its resource.     *)
LEMMA SecretIsTyped ==
    ASSUME ListedInv
    PROVE  secret # None => /\ secret \in Secrets /\ secret.mat \in Nat
                            /\ secret.refs \in BOOLEAN
  BY DEF ListedInv, Secrets, Versions

LEMMA ReadSecretHolds ==
    ASSUME RequestsInv, ListedInv, OwnedInv, ReadSecret \/ AddOwnerReference, UNCHANGED keyReads
    PROVE  RequestsInv' /\ ListedInv' /\ OwnedInv'
<1>1. /\ UNCHANGED resources /\ op \in PassRows /\ secret \in Secrets \cup {None}
      /\ op.pc \in {"read", "migrate"} /\ op.pc \in HoldingPCs /\ op.pc \notin {"idle", "next"}
  BY DEF ReadSecret, AddOwnerReference, ListedInv, OpAt, HoldingPCs
<1>2. secret # None => secret \in Secrets /\ secret.mat \in Nat
  BY SecretIsTyped
<1>3. UNCHANGED requests => RequestsInv'
  BY DEF RequestsInv
<1>4. CASE ReadSecret
  <2>1. UNCHANGED secret
    BY <1>4 DEF ReadSecret
  <2>2. CASE AskFor("material", 0)
    BY <1>1, <2>1, <2>2, AskForHolds
  <2>3. CASE secret # None /\ AskFor("material", secret.mat)
    BY <1>1, <1>2, <2>1, <2>3, AskForHolds
  <2>4. CASE Show(FALSE) /\ UNCHANGED requests
    BY <1>1, <1>3, <2>1, <2>4, ShowHolds
  <2>5. CASE /\ secret # None /\ Owned(secret)
             /\ op' = [op EXCEPT !.pc = "migrate", !.seen = secret] /\ UNCHANGED requests
    <3> DEFINE o == [op EXCEPT !.pc = "migrate", !.seen = secret]
    <3>1. o \in PassRows /\ o.pc = "migrate" /\ o.todo = op.todo /\ o.it = op.it /\ o.seen = secret
      BY <1>1 DEF PassRows, PassPCs, HoldingPCs
    <3>2. op' = o /\ secret.owner = op.it.r /\ FinalizersStay
      BY <1>1, <2>5 DEF Owned, Me, FinalizersStay, ListedInv
    <3> HIDE DEF o
    <3> QED
      BY <1>1, <1>3, <2>1, <2>5, <3>1, <3>2, PassGoesOn
  <2> QED
    BY <1>4, <2>2, <2>3, <2>4, <2>5 DEF ReadSecret
<1>5. CASE AddOwnerReference
  <2>1. CASE Show(FALSE) /\ UNCHANGED <<secret, requests>>
    BY <1>1, <1>3, <2>1, ShowHolds
  <2>2. CASE SecretUnmodified /\ secret' = [secret EXCEPT !.refs = TRUE] /\ AskFor("material", secret.mat)
    <3>1. /\ secret # None /\ secret.owner = op.it.r /\ op.it \in Items
          /\ resources[op.it.r].finalizer
      BY <1>1, <1>5, <2>2
      DEF AddOwnerReference, OpAt, SecretUnmodified, OwnedInv, ListedInv, Owned, Me
    <3>2. /\ secret' \in Secrets /\ secret'.owner = secret.owner /\ secret'.mat = secret.mat
          /\ secret.owner \in Resources
      BY <1>2, <2>2, <3>1 DEF Secrets, Items
    <3>3. secret.owner # User /\ secret.mat # 0 => secret.mat \in keyReads
      BY <3>1 DEF OwnedInv
    <3>4. AskFor("material", secret.mat) /\ secret.mat \in Nat
      BY <1>2, <2>2, <3>1
    <3>5. secret'.refs => secret'.owner \in Resources /\ resources[secret'.owner].finalizer
      BY <3>1, <3>2
    <3>6. secret'.owner # User /\ secret'.mat # 0 => secret'.mat \in keyReads'
      BY <3>2, <3>3
    <3> QED
      BY <1>1, <3>2, <3>4, <3>5, <3>6, AskForHolds
  <2> QED
    BY <1>5, <2>1, <2>2 DEF AddOwnerReference
<1> QED
  BY <1>4, <1>5

LEMMA ReceiveHolds ==
    ASSUME RequestsInv, ListedInv, OwnedInv,
           ReceiveMaterial \/ ReceiveNotFound \/ ReceiveOther, UNCHANGED keyReads
    PROVE  RequestsInv' /\ ListedInv' /\ OwnedInv'
<1>1. /\ UNCHANGED <<resources, secret>> /\ op \in PassRows /\ secret \in Secrets \cup {None}
      /\ op.pc = "answer" /\ op.pc \in HoldingPCs /\ op.pc \notin {"idle", "next"}
      /\ Operator \in Readers
  BY DeliveryAssumption
  DEF ReceiveMaterial, ReceiveNotFound, ReceiveOther, TakeAnswerOf, ListedInv, OpAt, HoldingPCs
<1>2. CASE ReceiveMaterial
  <2> DEFINE o == [op EXCEPT !.pc = "reread", !.mat = requests[Operator].version]
  <2>1. requests[Operator].version \in keyReads /\ keyReads \subseteq Versions
    BY <1>1, <1>2 DEF ReceiveMaterial, TakeAnswerOf, RequestsInv
  <2>2. /\ o \in PassRows /\ o.pc = "reread" /\ o.todo = op.todo /\ o.it = op.it
        /\ o.mat = requests[Operator].version
    BY <1>1, <2>1 DEF PassRows, PassPCs, HoldingPCs
  <2>3. op' = o /\ Done(Operator) /\ FinalizersStay
    BY <1>1, <1>2 DEF ReceiveMaterial, FinalizersStay, ListedInv
  <2> HIDE DEF o
  <2>4. ListedInv' /\ OwnedInv'
    BY <1>1, <2>1, <2>2, <2>3, PassGoesOn
  <2> QED
    BY <1>1, <2>3, <2>4, DoneHolds
<1>3. CASE ReceiveNotFound
  BY <1>1, <1>3, AskForHolds DEF ReceiveNotFound
<1>4. CASE ReceiveOther
  <2>1. Done(Operator) /\ \E b \in BOOLEAN : Show(b)
    BY <1>4 DEF ReceiveOther
  <2> QED
    BY <1>1, <2>1, ShowHolds, DoneHolds
<1> QED
  BY <1>2, <1>3, <1>4

(* CreateOrUpdateSecret writes over nothing, or over what the resource owns.*)
LEMMA PutHolds ==
    ASSUME RequestsInv, ListedInv, OwnedInv, RereadSecret \/ PutSecret, UNCHANGED keyReads
    PROVE  RequestsInv' /\ ListedInv' /\ OwnedInv'
<1>1. /\ UNCHANGED <<resources, requests>> /\ op \in PassRows /\ secret \in Secrets \cup {None}
      /\ op.pc \in {"reread", "put"} /\ op.pc \in HoldingPCs /\ op.pc \notin {"idle", "next"}
  BY DEF RereadSecret, PutSecret, ListedInv, OpAt, HoldingPCs
<1>2. RequestsInv'
  BY <1>1 DEF RequestsInv
<1>3. op.mat \in keyReads
  BY <1>1 DEF OwnedInv
<1>4. CASE RereadSecret
  <2>1. UNCHANGED secret
    BY <1>4 DEF RereadSecret
  <2>2. CASE Show(FALSE)
    BY <1>1, <1>2, <2>1, <2>2, ShowHolds
  <2>3. CASE (secret = None \/ Owned(secret)) /\ op' = [op EXCEPT !.pc = "put", !.seen = secret]
    <3> DEFINE o == [op EXCEPT !.pc = "put", !.seen = secret]
    <3>1. /\ o \in PassRows /\ o.pc = "put" /\ o.todo = op.todo /\ o.it = op.it
          /\ o.seen = secret /\ o.mat = op.mat
      BY <1>1 DEF PassRows, PassPCs, HoldingPCs
    <3>2. op' = o /\ (secret = None \/ secret.owner = op.it.r) /\ FinalizersStay
      BY <1>1, <2>3 DEF Owned, Me, FinalizersStay, ListedInv
    <3> HIDE DEF o
    <3> QED
      BY <1>1, <1>2, <1>3, <2>1, <3>1, <3>2, PassGoesOn
  <2> QED
    BY <1>4, <2>2, <2>3 DEF RereadSecret
<1>5. CASE PutSecret
  <2>1. CASE Show(FALSE) /\ UNCHANGED secret
    BY <1>1, <1>2, <2>1, ShowHolds
  <2>2. CASE secret' = [owner |-> Me, refs |-> TRUE, mat |-> op.mat] /\ Show(TRUE)
    <3>1. op.it \in Items /\ Me \in Resources /\ resources[Me].finalizer
      BY <1>1 DEF ListedInv, Me, Items
    <3>2. secret' \in Secrets /\ secret'.owner = Me /\ secret'.mat = op.mat
      BY <1>1, <2>2, <3>1 DEF Secrets, PassRows
    <3> QED
      BY <1>1, <1>2, <1>3, <2>2, <3>1, <3>2, ShowHolds
  <2> QED
    BY <1>5, <2>1, <2>2 DEF PutSecret
<1> QED
  BY <1>4, <1>5

(* reconcileDelete up to the release: what it detaches and deletes is its   *)
(* own, and by then nothing refers to the resource.                         *)
LEMMA DeletionHolds ==
    ASSUME RequestsInv, ListedInv, OwnedInv,
           \/ ReadForDeletion \/ RereadForDeletion \/ DeleteSecret \/ ConfirmDeletion
           \/ DetachSecret,
           UNCHANGED keyReads
    PROVE  RequestsInv' /\ ListedInv' /\ OwnedInv'
<1>1. /\ UNCHANGED <<resources, requests>> /\ op \in PassRows /\ secret \in Secrets \cup {None}
      /\ op.pc \notin {"idle", "next"} /\ FinalizersStay
  BY DEF ReadForDeletion, RereadForDeletion, DeleteSecret, ConfirmDeletion, DetachSecret,
         ListedInv, OpAt, FinalizersStay
<1>2. RequestsInv'
  BY <1>1 DEF RequestsInv
<1>3. ASSUME NEW pc \in {"release", "confirm", "detach", "delete", "reread for deletion"},
             NEW s \in Secrets \cup {None},
             op' = [op EXCEPT !.pc = pc, !.seen = s],
             secret' = secret \/ secret' = None \/ (secret' \in Secrets /\ ~secret'.refs /\
                 (secret'.owner # User /\ secret'.mat # 0 => secret'.mat \in keyReads)),
             pc \in {"delete", "detach"} => s # None /\ Owned(s),
             pc = "release" => secret' = None \/ ~secret'.refs
      PROVE  ListedInv' /\ OwnedInv'
  <2> DEFINE o == [op EXCEPT !.pc = pc, !.seen = s]
  <2>1. o \in PassRows /\ o.pc = pc /\ o.todo = op.todo /\ o.it = op.it /\ o.seen = s
    BY <1>1 DEF PassRows, PassPCs
  <2>2. op' = o /\ (pc \in {"delete", "detach"} => s.owner = op.it.r)
    BY <1>3 DEF Owned, Me
  <2>3. pc \notin HoldingPCs /\ pc \notin {"migrate", "put", "reread"}
    BY DEF HoldingPCs
  <2> HIDE DEF o
  <2>4. /\ o.pc \notin HoldingPCs
        /\ o.pc \in {"migrate", "delete", "detach"} => o.seen # None /\ o.seen.owner = o.it.r
        /\ o.pc # "put" /\ o.pc \notin {"reread", "put"}
        /\ o.pc = "release" => ~(secret' # None /\ secret'.owner = o.it.r /\ secret'.refs)
    BY <1>3, <2>1, <2>2, <2>3
  <2>5. /\ secret' \in Secrets \cup {None}
        /\ secret' # secret /\ secret' # None =>
              /\ ~secret'.refs
              /\ secret'.owner # User /\ secret'.mat # 0 => secret'.mat \in keyReads
    BY <1>1, <1>3
  <2> QED
    BY <1>1, <2>1, <2>2, <2>4, <2>5, PassGoesOn
<1>4. ASSUME NEW pc, OpGoes(pc)
      PROVE  op' = [op EXCEPT !.pc = pc, !.seen = op.seen] /\ op.seen \in Secrets \cup {None}
  BY <1>1, <1>4 DEF OpGoes, PassRows
<1>5. CASE ReadForDeletion
  <2>1. UNCHANGED secret
    BY <1>5 DEF ReadForDeletion
  <2>2. CASE secret = None /\ OpGoes("release")
    BY <1>2, <1>3, <1>4, <2>1, <2>2
  <2>3. CASE Skip
    BY <1>1, <1>2, <2>1, <2>3, SkipHolds
  <2>4. CASE /\ secret # None /\ Owned(secret)
             /\ op' = [op EXCEPT !.seen = secret,
                          !.pc = IF Me \notin Retaining THEN "reread for deletion"
                                 ELSE IF secret.refs THEN "detach" ELSE "release"]
    <3>1. \E pc \in {"release", "detach", "reread for deletion"} :
             /\ op' = [op EXCEPT !.pc = pc, !.seen = secret]
             /\ pc = "release" => ~secret.refs
      BY <1>1, <2>4 DEF PassRows
    <3> QED
      BY <1>1, <1>2, <1>3, <2>1, <2>4, <3>1
  <2> QED
    BY <1>5, <2>2, <2>3, <2>4 DEF ReadForDeletion
<1>6. CASE RereadForDeletion
  <2>1. UNCHANGED secret
    BY <1>6 DEF RereadForDeletion
  <2>2. CASE secret = None /\ OpGoes("release")
    BY <1>2, <1>3, <1>4, <2>1, <2>2
  <2>3. CASE Show(FALSE)
    BY <1>1, <1>2, <2>1, <2>3, ShowHolds
  <2>4. CASE secret # None /\ Owned(secret) /\ op' = [op EXCEPT !.pc = "delete", !.seen = secret]
    BY <1>1, <1>2, <1>3, <2>1, <2>4
  <2> QED
    BY <1>6, <2>2, <2>3, <2>4 DEF RereadForDeletion
<1>7. CASE DeleteSecret
  <2>1. CASE secret' = None /\ OpGoes("confirm")
    BY <1>2, <1>3, <1>4, <2>1
  <2>2. CASE Show(FALSE) /\ UNCHANGED secret
    BY <1>1, <1>2, <2>2, ShowHolds
  <2> QED
    BY <1>7, <2>1, <2>2 DEF DeleteSecret
<1>8. CASE ConfirmDeletion
  <2>1. UNCHANGED secret
    BY <1>8 DEF ConfirmDeletion
  <2>2. CASE secret = None /\ OpGoes("release")
    BY <1>2, <1>3, <1>4, <2>1, <2>2
  <2>3. CASE Show(FALSE)
    BY <1>1, <1>2, <2>1, <2>3, ShowHolds
  <2> QED
    BY <1>8, <2>2, <2>3 DEF ConfirmDeletion
<1>9. CASE DetachSecret
  <2>1. CASE SecretUnmodified /\ secret' = [secret EXCEPT !.refs = FALSE] /\ OpGoes("release")
    <3>1. secret # None /\ secret \in Secrets
      BY <1>1, <1>9, <2>1 DEF DetachSecret, OpAt, SecretUnmodified, OwnedInv
    <3>2. /\ secret' \in Secrets /\ ~secret'.refs
          /\ secret'.owner = secret.owner /\ secret'.mat = secret.mat
      BY <2>1, <3>1 DEF Secrets
    <3>3. secret.owner # User /\ secret.mat # 0 => secret.mat \in keyReads
      BY <3>1 DEF OwnedInv
    <3> QED
      BY <1>2, <1>3, <1>4, <2>1, <3>2, <3>3
  <2>2. CASE Show(FALSE) /\ UNCHANGED secret
    BY <1>1, <1>2, <2>2, ShowHolds
  <2> QED
    BY <1>9, <2>1, <2>2 DEF DetachSecret
<1> QED
  BY <1>5, <1>6, <1>7, <1>8, <1>9

LEMMA UpdateStatusHolds ==
    ASSUME RequestsInv, ListedInv, OwnedInv, UpdateStatus, UNCHANGED keyReads
    PROVE  RequestsInv' /\ ListedInv' /\ OwnedInv'
<1>1. /\ resources \in [Resources -> ResourceRows] /\ op.it \in Items /\ op.ready \in BOOLEAN
      /\ UNCHANGED <<secret, requests>> /\ Skip
  BY DEF UpdateStatus, ListedInv, PassRows, OpAt
<1>2. FinalizersStay
  <2>1. CASE UNCHANGED resources
    BY <1>1, <2>1 DEF FinalizersStay
  <2>2. CASE resources' = [resources EXCEPT ![Me].ready = op.ready]
    BY <1>1, <2>2 DEF FinalizersStay, ResourceRows, Me, Items
  <2> QED
    BY <2>1, <2>2 DEF UpdateStatus
<1> QED
  BY <1>1, <1>2, SkipHolds DEF RequestsInv

(* The finalizer goes when no Secret refers to the resource any more, and   *)
(* the pass does not come back to it.                                       *)
LEMMA ReleaseFinalizerHolds ==
    ASSUME RequestsInv, ListedInv, OwnedInv, ReleaseFinalizer, UNCHANGED keyReads
    PROVE  RequestsInv' /\ ListedInv' /\ OwnedInv'
<1>1. /\ resources \in [Resources -> ResourceRows] /\ op \in PassRows /\ op.it \in Items
      /\ UNCHANGED <<secret, requests>> /\ Skip /\ op.pc = "release"
  BY DEF ReleaseFinalizer, ListedInv, OpAt
<1>2. RequestsInv'
  BY <1>1 DEF RequestsInv
<1>3. CASE UNCHANGED resources
  BY <1>1, <1>2, <1>3, SkipHolds DEF FinalizersStay
<1>4. CASE resources' = [resources EXCEPT ![Me] =
                           [life |-> "gone", finalizer |-> FALSE, ready |-> FALSE]]
  <2> DEFINE o == [Waiting EXCEPT !.pc = "next", !.todo = op.todo]
  <2>1. o \in PassRows /\ o.pc = "next" /\ o.todo = op.todo
    BY <1>1 DEF Waiting, PassRows, PassPCs
  <2>2. op' = o
    BY <1>1 DEF Skip
  <2> HIDE DEF o
  <2>3. /\ resources' \in [Resources -> ResourceRows] /\ op.it.r \in Resources
        /\ \A c \in Resources : c # op.it.r => resources'[c] = resources[c]
    BY <1>1, <1>4 DEF ResourceRows, Me, Items
  <2>4. \A i \in op.todo : i.r \in Resources /\ i.r # op.it.r
    BY <1>1 DEF ListedInv, PassRows, Items
  <2>5. ListedInv'
    BY <1>1, <2>1, <2>2, <2>3, <2>4 DEF ListedInv, HoldingPCs
  <2>6. secret # None /\ secret.refs => secret.owner # op.it.r
    BY <1>1 DEF OwnedInv, Owned, Me
  <2>7. OwnedInv'
    BY <1>1, <2>1, <2>2, <2>3, <2>6 DEF OwnedInv, ReferencedOwnersAreHeld
  <2> QED
    BY <1>2, <2>5, <2>7
<1> QED
  BY <1>3, <1>4 DEF ReleaseFinalizer

LEMMA PassHolds ==
    ASSUME RequestsInv, ListedInv, OwnedInv, PassStep
    PROVE  RequestsInv' /\ ListedInv' /\ OwnedInv' /\ UNCHANGED <<Rows, keyReads, faults>>
<1>1. UNCHANGED <<Rows, keyReads, faults>> /\ UNCHANGED keyReads
  BY DEF PassStep
<1>2. CASE ListCertificates \/ ReconcileNext \/ AddFinalizer
  <2>1. RequestsInv'
    BY <1>1, <1>2 DEF ListCertificates, ReconcileNext, AddFinalizer, RequestsInv
  <2> QED
    BY <1>1, <1>2, <2>1, ListHolds, ReconcileNextHolds, AddFinalizerHolds
<1> QED
  BY <1>1, <1>2, ReadSecretHolds, ReceiveHolds, PutHolds, DeletionHolds, UpdateStatusHolds,
     ReleaseFinalizerHolds DEF PassStep

(* A restart or a failing call ends what the pass was doing.                *)
LEMMA OperatorFailsHolds ==
    ASSUME RowsInv, RequestsInv, ListedInv, OwnedInv, OperatorFails
    PROVE  RowsInv' /\ RequestsInv' /\ ListedInv' /\ OwnedInv' /\ UNCHANGED keyReads
<1>1. /\ UNCHANGED <<resources, secret, certificate, versions, keyReads>> /\ Fault /\ Done(Operator)
      /\ Operator \in Readers
  BY DeliveryAssumption DEF OperatorFails, Rows
<1>2. RowsInv' /\ RequestsInv'
  BY <1>1, DoneHolds, EndpointAssumption DEF RowsInv, Fault
<1>3. \/ op' = Waiting \/ Skip
      \/ op.pc \notin {"idle", "next"} /\ Show(FALSE)
  BY DEF OperatorFails, OpAt
<1>4. secret \in Secrets \cup {None} /\ FinalizersStay
  BY <1>1 DEF ListedInv, FinalizersStay
<1>5. ListedInv' /\ OwnedInv'
  BY <1>1, <1>3, <1>4, SkipHolds, ShowHolds, StopHolds
<1> QED
  BY <1>1, <1>2, <1>5

(* What users do beside the pass.                                           *)
LEMMA UsersHold ==
    ASSUME RowsInv, RequestsInv, ListedInv, OwnedInv, UserStep
    PROVE  RowsInv' /\ RequestsInv' /\ ListedInv' /\ OwnedInv' /\ UNCHANGED keyReads
<1>1. UNCHANGED <<op, certificate, versions, requests, keyReads>>
  BY DEF UserStep, endpointVars
<1>2. RowsInv'
  BY <1>1, EndpointAssumption
  DEF UserStep, CreateResource, DeleteResource, UserWritesSecret, RowsInv, Fault
<1>3. RequestsInv'
  BY <1>1 DEF RequestsInv
<1>4. /\ op \in PassRows /\ secret \in Secrets \cup {None}
      /\ resources \in [Resources -> ResourceRows]
  BY DEF ListedInv
<1>5. FinalizersStay
  <2>1. CASE UserWritesSecret
    BY <1>4, <2>1 DEF UserWritesSecret, FinalizersStay
  <2>2. CASE \E c \in Resources : CreateResource(c) \/ DeleteResource(c)
    <3>1. PICK c \in Resources : \E life \in {"live", "deleting", "gone"} :
             resources' = [resources EXCEPT ![c].life = life]
      BY <2>2 DEF CreateResource, DeleteResource
    <3> QED
      BY <1>4, <3>1 DEF FinalizersStay, ResourceRows
  <2> QED
    BY <2>1, <2>2 DEF UserStep
<1>6. secret' = secret \/ secret' = None \/
      (secret' \in Secrets /\ secret'.owner = User /\ ~secret'.refs)
  <2> DEFINE s == [owner |-> User, refs |-> FALSE, mat |-> 0]
  <2>1. s \in Secrets /\ s.owner = User /\ ~s.refs
    BY DEF Secrets
  <2>2. secret' = secret \/ secret' = None \/ secret' = s
    BY DEF UserStep, CreateResource, DeleteResource, UserWritesSecret
  <2> HIDE DEF s
  <2> QED
    BY <2>1, <2>2
<1>7. ListedInv' /\ OwnedInv'
  <2>1. /\ op.pc \in {"migrate", "delete", "detach"} => op.seen # None /\ op.seen.owner = op.it.r
        /\ op.pc = "put" => op.seen = None \/ op.seen.owner = op.it.r
        /\ op.pc \in {"reread", "put"} => op.mat \in keyReads'
    BY <1>1 DEF OwnedInv, Owned, Me
  <2>2. op.pc = "release" => ~(secret' # None /\ secret'.owner = op.it.r /\ secret'.refs)
    BY <1>6 DEF OwnedInv, Owned, Me
  <2>3. /\ secret' \in Secrets \cup {None}
        /\ secret' # secret /\ secret' # None => ~secret'.refs /\ secret'.owner = User
    BY <1>4, <1>6
  <2> QED
    BY <1>1, <1>4, <1>5, <2>1, <2>2, <2>3, PassGoesOn
<1> QED
  BY <1>1, <1>2, <1>3, <1>7

------------------------------------------------------------------------------
(* The composition.                                                         *)

LEMMA DirectoryIdle ==
    ASSUME DiskInv, UNCHANGED <<deployment, directoryVars>>, keyReads \subseteq keyReads',
           deployment # "server"
    PROVE  DiskInv'
  BY DiskKept DEF DiskInv, directoryVars

LEMMA CliIdle ==
    ASSUME CliInv, deployment # "cli", UNCHANGED <<deployment, cliVars>>
    PROVE  CliInv'
<1>1. UNCHANGED <<run, lock>>
  BY DEF cliVars
<1>2. \A p \in Processes : run[p].pc = "stopped"
  BY DEF CliInv, Stopped
<1> QED
  BY <1>1, <1>2 DEF CliInv, PublishingPCs

(* Requests of the CLI and issuance beside it: what was audited stays so.   *)
LEMMA CliWaits ==
    ASSUME CliInv, UNCHANGED <<deployment, cliVars, directoryVars>>, keyReads \subseteq keyReads'
    PROVE  CliInv'
  BY DEF CliInv, cliVars, directoryVars, PublishingPCs

LEMMA RunnerIdle ==
    ASSUME RunnerInv, deployment # "server", UNCHANGED <<deployment, serverVars>>
    PROVE  RunnerInv'
  BY DEF RunnerInv, serverVars, SyncAt

LEMMA OperatorIdle ==
    ASSUME ListedInv, OwnedInv, UNCHANGED operatorVars, keyReads \subseteq keyReads'
    PROVE  ListedInv' /\ OwnedInv'
<1>1. UNCHANGED <<resources, secret, op>>
  BY DEF operatorVars
<1>2. ListedInv'
  BY <1>1 DEF ListedInv, Me
<1>3. OwnedInv'
  BY <1>1 DEF OwnedInv, ReferencedOwnersAreHeld, Owned, Me
<1> QED
  BY <1>2, <1>3

LEMMA DeliveredInit ==
    ASSUME Init
    PROVE  DeliveredInv
<1>1. RowsInv
  BY EndpointAssumption DEF Init, EndpointInit, RowsInv, Statuses
<1>2. RequestsInv
  BY DEF Init, EndpointInit, RequestsInv, Idle, RequestRows, RequestPCs, Answers
<1>3. DiskInv
  BY DEF Init, DirectoryInit, DiskInv
<1>4. CliInv
  BY DEF Init, CliInit, CliInv, Stopped, RunRows, PublishingPCs
<1>5. RunnerInv
  <2>1. /\ sync = Resting("down") /\ loads = [t \in Threads |-> NoLoad] /\ cached = NoPair
        /\ hostOf = [v \in Versions |-> Absent] /\ versions = [v \in Versions |-> "none"]
    BY DEF Init, ServerInit, EndpointInit
  <2>2. sync \in SyncRows /\ sync.pc = "down"
    BY <2>1 DEF Resting, SyncRows
  <2>3. loads \in [Threads -> LoadRows] /\ \A t \in Threads : loads[t].pc = "idle"
    BY <2>1 DEF NoLoad, LoadRows
  <2>4. cached \in PairRows
    BY <2>1 DEF NoPair, PairRows
  <2>5. IssuedInOrder
    BY <2>1 DEF IssuedInOrder
  <2> QED
    BY <2>1, <2>2, <2>3, <2>4, <2>5 DEF RunnerInv, SyncAt
<1>6. ListedInv /\ OwnedInv
  <2>1. Waiting \in PassRows /\ Waiting.pc = "idle" /\ Waiting.todo = {} /\ op = Waiting
    BY DEF Waiting, PassRows, PassPCs, Init, OperatorInit
  <2>2. NoResources \in [Resources -> ResourceRows]
    BY DEF NoResources, NoResource, ResourceRows
  <2>3. CASE resources = NoResources /\ secret = None
    BY <2>1, <2>2, <2>3 DEF ListedInv, OwnedInv, ReferencedOwnersAreHeld, HoldingPCs
  <2>4. ASSUME NEW c \in Resources, FromEarlierOperator(c)
        PROVE  ListedInv /\ OwnedInv
    <3>1. resources \in [Resources -> ResourceRows]
      BY <2>2, <2>4 DEF FromEarlierOperator, ResourceRows
    <3>2. secret \in Secrets /\ ~secret.refs /\ secret.mat = 0
      BY <2>4 DEF FromEarlierOperator, Secrets
    <3> QED
      BY <2>1, <3>1, <3>2 DEF ListedInv, OwnedInv, ReferencedOwnersAreHeld, HoldingPCs
  <2> QED
    BY <2>3, <2>4, DeliveryAssumption DEF Init, OperatorInit
<1> QED
  BY <1>1, <1>2, <1>3, <1>4, <1>5, <1>6 DEF DeliveredInv

LEMMA DeliveredStep ==
    ASSUME DeliveredInv, [Next]_vars
    PROVE  DeliveredInv' /\ keyReads \subseteq keyReads'
<1> USE DEF DeliveredInv
<1>1. CASE deployment # "server" /\ UNCHANGED deployment /\ RowsChange
  <2>1. RowsInv' /\ UNCHANGED <<requests, keyReads>>
    BY <1>1, RowsChangeHolds DEF RowsChange
  <2>2. RequestsInv'
    BY <2>1 DEF RequestsInv
  <2> QED
    BY <1>1, <2>1, <2>2, DirectoryIdle, CliWaits, RunnerIdle, OperatorIdle DEF RowsChange
<1>2. ASSUME NEW p \in Processes, CliStarts(p) \/ CliRequest(p) \/ CliProgress(p)
      PROVE  DeliveredInv' /\ keyReads \subseteq keyReads'
  <2>1. deployment = "cli" /\ UNCHANGED <<deployment, serverVars, operatorVars>> /\ p \in Readers
    BY <1>2, DeliveryAssumption DEF CliStarts, CliRequest, CliProgress, With
  <2>2. CASE CliRequest(p)
    <3>1. RowsInv' /\ RequestsInv' /\ keyReads \subseteq keyReads'
      BY <2>1, <2>2, RequestHolds DEF CliRequest
    <3> QED
      BY <2>1, <2>2, <3>1, DirectoryIdle, CliWaits, RunnerIdle, OperatorIdle DEF CliRequest
  <2>3. CASE StartSync(p) \/ AskAgain(p) \/ TakeAnswer(p)
    <3>1. UNCHANGED keyReads
      BY <2>3 DEF StartSync, AskAgain, TakeAnswer
    <3>2. RowsInv'
      BY <2>1, <2>3, AskingProcessHolds DEF RowsInv, Rows
    <3> QED
      BY <2>1, <2>3, <3>1, <3>2, AskingProcessHolds, RunnerIdle, OperatorIdle
  <2>4. CASE PublishStep(p)
    <3>1. DiskInv' /\ CliInv' /\ UNCHANGED <<certificate, versions, requests, keyReads, faults>>
      BY <2>1, <2>4, PublishingHolds DEF RequestsInv, endpointVars
    <3> QED
      BY <2>1, <3>1, RunnerIdle, OperatorIdle DEF RowsInv, RequestsInv
  <2> QED
    BY <1>2, <2>2, <2>3, <2>4 DEF CliStarts, CliProgress, Progress
<1>3. CASE CliTrouble
  <2>1. deployment = "cli" /\ UNCHANGED <<deployment, serverVars, operatorVars>> /\ Trouble
    BY <1>3 DEF CliTrouble, With
  <2> QED
    BY <2>1, CliTroubleHolds, RunnerIdle, OperatorIdle
<1>4. CASE \/ ServerStarts \/ ServerSync \/ ServerRows \/ ServerHasTrouble
           \/ \E t \in Threads : ServerReloads(t)
  <2>1. deployment = "server" /\ UNCHANGED <<deployment, cliVars, operatorVars>>
    BY <1>4 DEF ServerStarts, ServerSync, ServerRows, ServerHasTrouble, ServerReloads, With
  <2>2. UNCHANGED <<endpointVars, faults>> =>
            RowsInv' /\ RequestsInv' /\ UNCHANGED keyReads
    BY DEF endpointVars, RowsInv, RequestsInv
  <2>3. RowsInv' /\ RequestsInv' /\ DiskInv' /\ RunnerInv' /\ UNCHANGED keyReads
    <3>1. CASE ServerStarts
      BY <2>1, <2>2, <3>1, StartHolds DEF ServerStarts
    <3>2. CASE ServerSync
      BY <2>1, <2>2, <3>2, ReconcileHolds, LatestHolds, ServerPublishHolds, SyncedAuditHolds
      DEF ServerSync, SyncStep
    <3>3. CASE ServerRows
      BY <2>1, <3>3, ServerRowsHold DEF ServerRows
    <3>4. CASE ServerHasTrouble
      BY <2>1, <3>4, ServerTroubleHolds DEF ServerHasTrouble
    <3>5. CASE \E t \in Threads : ServerReloads(t)
      BY <2>1, <2>2, <3>5, ReloadHolds DEF ServerReloads
    <3> QED
      BY <1>4, <3>1, <3>2, <3>3, <3>4, <3>5
  <2> QED
    BY <2>1, <2>3, CliIdle, OperatorIdle
<1>5. CASE OperatorRequest \/ OperatorPass \/ OperatorUsers \/ OperatorTrouble
  <2>1. deployment = "operator" /\ UNCHANGED <<deployment, directoryVars, cliVars, serverVars>>
        /\ Operator \in Readers
    BY <1>5, DeliveryAssumption
    DEF OperatorRequest, OperatorPass, OperatorUsers, OperatorTrouble, With
  <2>2. RowsInv' /\ RequestsInv' /\ ListedInv' /\ OwnedInv' /\ keyReads \subseteq keyReads'
    <3>1. CASE OperatorRequest
      BY <2>1, <3>1, RequestHolds, OperatorIdle DEF OperatorRequest
    <3>2. CASE OperatorPass
      BY <3>2, PassHolds DEF OperatorPass, RowsInv, Rows
    <3>3. CASE OperatorUsers \/ OperatorTrouble
      BY <3>3, UsersHold, OperatorFailsHolds DEF OperatorUsers, OperatorTrouble
    <3> QED
      BY <1>5, <3>1, <3>2, <3>3
  <2> QED
    BY <2>1, <2>2, DirectoryIdle, CliIdle, RunnerIdle
<1>6. CASE UNCHANGED vars
  <2>1. /\ UNCHANGED <<deployment, directoryVars, cliVars, serverVars, operatorVars>>
        /\ UNCHANGED <<certificate, versions, requests, keyReads, faults>>
    BY <1>6 DEF vars, endpointVars
  <2>2. RowsInv' /\ RequestsInv'
    BY <2>1 DEF RowsInv, RequestsInv
  <2>3. RunnerInv' /\ DiskInv'
    BY <2>1 DEF RunnerInv, DiskInv, serverVars, directoryVars, SyncAt, IssuedInOrder, LoadedInOrder,
                Publishing, ForName, Published
  <2> QED
    BY <2>1, <2>2, <2>3, CliWaits, OperatorIdle
<1> QED
  BY <1>1, <1>2, <1>3, <1>4, <1>5, <1>6 DEF Next

LEMMA Delivered == Spec => []DeliveredInv
<1>1. Init => DeliveredInv
  BY DeliveredInit
<1>2. DeliveredInv /\ [Next]_vars => DeliveredInv'
  BY DeliveredStep
<1> QED
  BY <1>1, <1>2, PTL DEF Spec

(* For any number of versions, readers, processes, resources and faults: the*)
(* rows keep their types, whatever key is installed was audited, and no     *)
(* owner reference names a resource that is not held                        *)
(* (certificates.go:handleSyncMaterial, the operator's reconcileDelete).    *)
THEOREM DeliverySafe == Spec => []DeliveryInv
<1>1. DeliveredInv => DeliveryInv
  <2> SUFFICES ASSUME DeliveredInv PROVE DeliveryInv
    OBVIOUS
  <2> USE DEF DeliveredInv
  <2>1. TypeOK
    BY DEF TypeOK, RowsInv, RequestsInv, CliInv, RunnerInv, PairRows, Statuses
  <2>2. InstalledKeysWereAudited
    BY DEF InstalledKeysWereAudited, DiskInv, OwnedInv
  <2> QED
    BY <2>1, <2>2 DEF DeliveryInv, OwnedInv
<1> QED
  BY <1>1, Delivered, PTL

(* However many processes publish, crash and lose power, the symlink names  *)
(* nothing or a whole release, and who switched it finds its own there      *)
(* (writer.go:PublishMaterial).                                             *)
THEOREM DirectorySafe == Spec => []DirectoryInv
<1>1. DeliveredInv => DirectoryInv
  BY DEF DeliveredInv, DirectoryInv, CurrentIsWhole, OwnReleaseUntilExit, DiskInv, Durable, CliInv
<1> QED
  BY <1>1, Delivered, PTL

(* A server that runs has files and a pair of its own name, both issued, and*)
(* infos that match the files belong to the pair, however handshakes and the*)
(* goroutine interleave (reconciler.go:run, tls.go:GetCertificate).         *)
THEOREM ServerSafe == Spec => []ServerInv
<1>1. DeliveredInv => ServerInv
  <2> SUFFICES ASSUME DeliveredInv PROVE ServerInv
    OBVIOUS
  <2>1. DiskInv /\ RunnerInv /\ /\ Published \in Nat
    BY PublishedVersion DEF DeliveredInv
  <2>2. current # Absent => Published \in Versions
    BY <2>1, PublishedVersion
  <2>3. ServesItsName
    BY <2>1 DEF ServesItsName, RunnerInv, ForName
  <2>4. UnchangedInfosMeanCurrentPair
    <3>1. CASE SyncAt("down")
      BY <2>1, <2>2, <3>1 DEF UnchangedInfosMeanCurrentPair, RunnerInv, NoPair, Versions
    <3>2. CASE ~SyncAt("down")
      <4>1. /\ cached.certInfo <= cached.mat /\ cached.mat <= Published
            /\ cached.mat \in Nat /\ cached.certInfo \in Nat
        BY <2>1, <3>2 DEF RunnerInv, LoadedInOrder, PairRows, Versions
      <4> QED
        BY <2>1, <4>1 DEF UnchangedInfosMeanCurrentPair
    <3> QED
      BY <3>1, <3>2
  <2> QED
    BY <2>3, <2>4 DEF ServerInv
<1> QED
  BY <1>1, Delivered, PTL

(* The write of a pass is refused unless the Secret is as it was read, and  *)
(* it was read as nobody's or the resource's own.                           *)
LEMMA PassWritesOwn ==
    ASSUME OwnedInv, PassStep, secret' # secret
    PROVE  secret = None \/ Owned(secret)
<1>1. AddOwnerReference \/ PutSecret \/ DeleteSecret \/ DetachSecret
  BY DEF PassStep, ListCertificates, ReconcileNext, AddFinalizer, ReadSecret, ReceiveMaterial,
         ReceiveNotFound, ReceiveOther, RereadSecret, UpdateStatus, ReadForDeletion,
         RereadForDeletion, ConfirmDeletion, ReleaseFinalizer
<1>2. secret = op.seen /\ op.pc \in {"migrate", "put", "delete", "detach"}
  BY <1>1 DEF AddOwnerReference, PutSecret, DeleteSecret, DetachSecret, SecretUnmodified, OpAt
<1> QED
  BY <1>2 DEF OwnedInv

(* Users may replace the Secret between any two calls of the operator: it   *)
(* never overwrites, detaches or deletes what is not its resource's own     *)
(* (kubeclient.go:CreateOrUpdateSecret, reconciler.go:reconcileDelete).     *)
THEOREM OwnSecretsOnly == Spec => OnlyOwnSecretsChange
<1>1. ASSUME DeliveredInv, [Next]_vars, op' # op, secret' # secret
      PROVE  secret = None \/ Owned(secret)
  <2>1. OperatorPass
    BY <1>1 DEF Next, RowsChange, CliStarts, CliRequest, CliProgress, CliTrouble, ServerStarts,
                ServerSync, ServerRows, ServerHasTrouble, ServerReloads, OperatorRequest,
                OperatorUsers, OperatorTrouble, OperatorFails, UserStep, vars, operatorVars
  <2> QED
    BY <1>1, <2>1, PassWritesOwn DEF OperatorPass, DeliveredInv
<1>2. DeliveredInv /\ [Next]_vars =>
         [op' # op /\ secret' # secret => secret = None \/ Owned(secret)]_<<operatorVars>>
  BY <1>1
<1> QED
  BY <1>2, Delivered, PTL DEF Spec, OnlyOwnSecretsChange

=============================================================================
