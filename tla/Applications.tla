---------------------------- MODULE Applications ----------------------------
(***************************************************************************)
(* Applications, their tokens, domain scopes and user grants               *)
(* (internal/applications), with the requests of the HTTP API that change  *)
(* them and the requests that put certificates and their work under an     *)
(* application (internal/certificates).  A request is authenticated first, *)
(* then checks what the actor may do, then writes: other requests commit   *)
(* between those steps.  Deletion of an application is several statements  *)
(* of one transaction and is modelled with the row locks they take.        *)
(***************************************************************************)
EXTENDS Naturals, Sequences, FiniteSets, SequencesExt

CONSTANTS Apps,        \* rows of applications
          SystemApps,  \* the ones the server keeps for its own certificate
          Users,       \* users that are not administrators
          GrantRoles,  \* roles that are granted
          Admin,       \* any administrator
          TokenRows, Values,  \* application tokens and the values they carry
          Scopes, Labels,   \* domain scopes and their labels, "*" first in a wildcard
          Criteria, Names,  \* what a certificate is asked for: a set of label sequences
          Requests,       \* requests the server runs at the same time
          Nothing

ASSUME ApplicationsAssumption ==
  SystemApps \subseteq Apps /\ Admin \notin Users /\ Nothing \notin Apps

\* A scope and a name have at least one label.
ASSUME LabelsAssumption ==
  /\ \A s \in Scopes : Labels[s] \in Seq(STRING) \ {<<>>}
  /\ \A k \in Criteria : \A id \in Names[k] : id \in Seq(STRING) \ {<<>>}

VARIABLES app, role, scope, tok, cert, request

applicationVars == <<app, role, scope, tok, cert, request>>

Actors == Users \cup {Admin}
ASSUME GrantRolesAssumption == GrantRoles \subseteq {"viewer", "certificate_reader", "manager"}

Roles == {"none", "viewer", "certificate_reader", "manager"}
AppStatuses == {"none", "active", "disabled", "deleted"}

\* A scope that was deleted is remembered: history only.
ScopeStates == {"none", "present", "deleted"}

AppTokenRows == [status: {"none", "active", "revoked"}, app: Apps \cup {Nothing},
                 value: Values \cup {Nothing}, expired: BOOLEAN]

Work == {"job", "version", "challenge"}
CertRows == [status: {"none", "pending", "ready", "failed"}, work: SUBSET Work, valid: BOOLEAN]

NoCert == [status |-> "none", work |-> {}, valid |-> FALSE]

\* Row locks: an application as a whole, an application that a new row refers
\* to (FOR KEY SHARE), a certificate.
Locks == [kind: {"app", "share"}, app: Apps]
         \cup [kind: {"cert"}, app: Apps, for: Criteria]

RequestRows == [pc: {"idle", "write", "coverage", "upsert", "commit", "lock", "certs", "count", "delete"},
                op: {"none", "update", "delete", "create_token", "rotate_token", "revoke_token",
                     "create_scope", "delete_scope", "put_grant", "delete_grant", "ensure", "start"},
                app: Apps \cup {Nothing},
                arg: {Nothing} \cup AppStatuses \cup TokenRows \cup Scopes \cup Users \cup Criteria,
                role: Roles, holds: SUBSET Locks]

IdleRequest == [pc |-> "idle", op |-> "none", app |-> Nothing, arg |-> Nothing, role |-> "none", holds |-> {}]

ApplicationsInit ==
  /\ app = [a \in Apps |-> IF a \in SystemApps THEN "active" ELSE "none"]
  /\ role = [a \in Apps |-> [u \in Users |-> "none"]]
  /\ scope = [a \in Apps |-> [s \in Scopes |-> "none"]]
  /\ tok = [t \in TokenRows |-> [status |-> "none", app |-> Nothing, value |-> Nothing, expired |-> FALSE]]
  /\ cert = [a \in Apps |-> [k \in Criteria |-> NoCert]]
  /\ request = [c \in Requests |-> IdleRequest]

Exists(a) == app[a] \in {"active", "disabled"}
systemManaged(a) == a \in SystemApps

(* Domain scopes *)

labelCount(name) == Len(name)
Wildcard(name) == Head(name) = "*"

\* Mutant: any number of labels under the base of a wildcard.
CoversDeeper(s, id) ==
  s = id \/ (~Wildcard(id) /\ Wildcard(s) /\ IsSuffix(Tail(s), id) /\ labelCount(id) > Len(Tail(s)))
normalizedScopeCoversIdentifier(s, id) ==
  \/ s = id
  \/ /\ ~Wildcard(id)
     /\ Wildcard(s)
     /\ IsSuffix(Tail(s), id)
     /\ labelCount(id) = labelCount(Tail(s)) + 1

PresentScopes(a) == {s \in Scopes : scope[a][s] = "present"}
ScopesCoverIdentifiers(scopes, ids) ==
  \A id \in ids : \E s \in scopes : normalizedScopeCoversIdentifier(Labels[s], id)

(* Row locks and the steps of a request *)

\* Two locks on a row that cannot be held by two transactions.
Conflict(l, h) ==
  /\ l.app = h.app
  /\ \/ l.kind = "cert" /\ h = l
     \/ l.kind = "app" /\ h.kind \in {"app", "share"}
     \/ l.kind = "share" /\ h.kind = "app"
Free(c, locks) == \A d \in Requests \ {c} : \A l \in locks, h \in request[d].holds : ~Conflict(l, h)

AppLock(a) == [kind |-> "app", app |-> a]
ShareLock(a) == [kind |-> "share", app |-> a]
CertLock(a, k) == [kind |-> "cert", app |-> a, for |-> k]

\* A request that passed its checks.
Enters(c, op, pc, a, arg, r) ==
  /\ request[c].pc = "idle"
  /\ request' = [request EXCEPT ![c] = [pc |-> pc, op |-> op, app |-> a, arg |-> arg, role |-> r, holds |-> {}]]
  /\ UNCHANGED <<app, role, scope, tok, cert>>
Moves(c, pc, locks) == request' = [request EXCEPT ![c].pc = pc, ![c].holds = @ \cup locks]
Answered(c) == request' = [request EXCEPT ![c] = IdleRequest]
Rejected(c) == Answered(c) /\ UNCHANGED <<app, role, scope, tok, cert>>
Passes(c, pc) == Moves(c, pc, {}) /\ UNCHANGED <<app, role, scope, tok, cert>>

(* What an actor may do, and the requests as the HTTP handlers let them in *)

Manages(u, a) == u = Admin \/ (u \in Users /\ role[a][u] = "manager")
requireMutableManager(u, a) == Exists(a) /\ ~systemManaged(a) /\ Manages(u, a)
requireApplicationRole(u, a) == app[a] = "active" /\ ~systemManaged(a) /\ Manages(u, a)

handlePatchApplication(c, u, a, s) ==
  u = Admin /\ Exists(a) /\ ~systemManaged(a) /\ Enters(c, "update", "write", a, s, "none")
handleDeleteApplication(c, u, a) ==
  u = Admin /\ Enters(c, "delete", "lock", a, Nothing, "none")
handleCreateApplicationToken(c, u, a) ==
  requireMutableManager(u, a) /\ Enters(c, "create_token", "write", a, Nothing, "none")
handleRotateApplicationToken(c, u, a, t) ==
  requireMutableManager(u, a) /\ Enters(c, "rotate_token", "write", a, t, "none")
handleRevokeApplicationToken(c, u, a, t) ==
  requireMutableManager(u, a) /\ Enters(c, "revoke_token", "write", a, t, "none")
handleCreateDomainScope(c, u, a, s) ==
  u = Admin /\ requireMutableManager(u, a) /\ Enters(c, "create_scope", "write", a, s, "none")
handleDeleteDomainScope(c, u, a, s) ==
  u = Admin /\ requireMutableManager(u, a) /\ Enters(c, "delete_scope", "write", a, s, "none")
handlePutApplicationGrant(c, u, a, v, r) ==
  requireMutableManager(u, a) /\ Enters(c, "put_grant", "write", a, v, r)
handleDeleteApplicationGrant(c, u, a, v) ==
  requireMutableManager(u, a) /\ role[a][v] # "none" /\ Enters(c, "delete_grant", "write", a, v, "none")
handleCreateApplicationCertificate(c, u, a, k) ==
  requireApplicationRole(u, a) /\ Enters(c, "ensure", "coverage", a, k, "none")
handleStartLifecycle(c, u, a, k) ==
  /\ Exists(a) /\ ~systemManaged(a) /\ Manages(u, a)
  /\ cert[a][k].status \in {"ready", "failed"}
  /\ Enters(c, "start", "upsert", a, k, "none")

\* The application a presented value stands for.
ValidateApplicationToken(v) ==
  {a \in Apps : app[a] = "active" /\ \E t \in TokenRows :
     tok[t].app = a /\ tok[t].value = v /\ tok[t].status = "active" /\ ~tok[t].expired}

\* An application asks for a certificate with its token.
handleSyncCertificate(c, v, k) ==
  \E a \in ValidateApplicationToken(v) :
    ~systemManaged(a) /\ Enters(c, "ensure", "coverage", a, k, "none")

handleCreateApplication(c, u, a) ==
  /\ request[c].pc = "idle"
  /\ u = Admin
  /\ app[a] = "none"
  /\ app' = [app EXCEPT ![a] = "active"]
  /\ UNCHANGED <<role, scope, tok, cert, request>>

(* The statements of the repository, and the services that commit one with its
   audit event: other requests commit between the checks and the write *)

\* Writes that refer to an application wait for its deletion and fail after it.
Write(c, op) == request[c].pc = "write" /\ request[c].op = op /\ Free(c, {ShareLock(request[c].app)}) /\ Answered(c)

Update(a, s) == IF Exists(a) THEN [app EXCEPT ![a] = s] ELSE app
updateApplication(c) ==
  /\ Write(c, "update")
  /\ app' = Update(request[c].app, request[c].arg)
  /\ UNCHANGED <<role, scope, tok, cert>>

UnusedTokens == {t \in TokenRows : tok[t].status = "none"}
UnusedValues == Values \ {tok[t].value : t \in TokenRows}
randomApplicationToken == CHOOSE v \in Values : v \in UnusedValues

CreateToken(t, a) ==
  [tok EXCEPT ![t] = [status |-> "active", app |-> a, value |-> randomApplicationToken, expired |-> FALSE]]
createToken(c) ==
  /\ Write(c, "create_token")
  /\ IF Exists(request[c].app) /\ UnusedTokens # {} /\ UnusedValues # {}
     THEN \E t \in UnusedTokens : tok' = CreateToken(t, request[c].app)
     ELSE UNCHANGED tok
  /\ UNCHANGED <<app, role, scope, cert>>

RotateToken(a, t) ==
  IF tok[t].app = a /\ tok[t].status = "active"
  THEN [tok EXCEPT ![t].value = randomApplicationToken, ![t].expired = FALSE]
  ELSE tok
rotateToken(c) ==
  /\ Write(c, "rotate_token")
  /\ tok' = IF UnusedValues # {} THEN RotateToken(request[c].app, request[c].arg) ELSE tok
  /\ UNCHANGED <<app, role, scope, cert>>

RevokeToken(a, t) == IF tok[t].app = a THEN [tok EXCEPT ![t].status = "revoked"] ELSE tok
revokeToken(c) ==
  /\ Write(c, "revoke_token")
  /\ tok' = RevokeToken(request[c].app, request[c].arg)
  /\ UNCHANGED <<app, role, scope, cert>>

\* The clock passes expires_at; resolveTokenExpiry sets it ahead of now.
TokenExpires(t) ==
  /\ tok[t].status = "active" /\ ~tok[t].expired
  /\ tok' = [tok EXCEPT ![t].expired = TRUE]
  /\ UNCHANGED <<app, role, scope, cert, request>>

AddDomainScope(a, s) == IF Exists(a) THEN [scope EXCEPT ![a][s] = "present"] ELSE scope
createDomainScope(c) ==
  /\ Write(c, "create_scope")
  /\ scope' = AddDomainScope(request[c].app, request[c].arg)
  /\ UNCHANGED <<app, role, tok, cert>>

DeleteDomainScope(a, s) == IF scope[a][s] = "present" THEN [scope EXCEPT ![a][s] = "deleted"] ELSE scope
deleteDomainScope(c) ==
  /\ Write(c, "delete_scope")
  /\ scope' = DeleteDomainScope(request[c].app, request[c].arg)
  /\ UNCHANGED <<app, role, tok, cert>>

UpsertGrant(a, u, r) == IF Exists(a) THEN [role EXCEPT ![a][u] = r] ELSE role
upsertGrant(c) ==
  /\ Write(c, "put_grant")
  /\ role' = UpsertGrant(request[c].app, request[c].arg, request[c].role)
  /\ UNCHANGED <<app, scope, tok, cert>>

DeleteGrant(a, u) == [role EXCEPT ![a][u] = "none"]
deleteGrant(c) ==
  /\ Write(c, "delete_grant")
  /\ role' = DeleteGrant(request[c].app, request[c].arg)
  /\ UNCHANGED <<app, scope, tok, cert>>

(* Certificates under an application *)

requireDomainCoverage(c) ==
  /\ request[c].pc = "coverage"
  /\ IF ScopesCoverIdentifiers(PresentScopes(request[c].app), Names[request[c].arg])
     THEN Passes(c, "upsert") ELSE Rejected(c)

\* A new row refers to its application; an existing one is locked.
CreateOrReuse(c) ==
  LET a == request[c].app k == request[c].arg
      new == cert[a][k].status = "none"
      locks == {CertLock(a, k)} \cup (IF new THEN {ShareLock(a)} ELSE {}) IN
  /\ request[c].pc = "upsert" /\ request[c].op = "ensure"
  /\ Free(c, locks)
  /\ IF Exists(a) /\ cert[a][k].status \in {"none", "pending"}
     THEN Moves(c, "commit", locks) /\ UNCHANGED <<app, role, scope, tok, cert>>
     ELSE Rejected(c)

StartLifecycle(c) ==
  LET a == request[c].app k == request[c].arg IN
  /\ request[c].pc = "upsert" /\ request[c].op = "start"
  /\ Free(c, {CertLock(a, k)})
  /\ IF cert[a][k].status # "none"
     THEN Moves(c, "commit", {CertLock(a, k)}) /\ UNCHANGED <<app, role, scope, tok, cert>>
     ELSE Rejected(c)

\* The issuing version and its job are seen when the transaction commits.
CommitIssuance(c) ==
  LET a == request[c].app k == request[c].arg IN
  /\ request[c].pc = "commit"
  /\ cert' = [cert EXCEPT ![a][k] = [status |-> "pending", work |-> @.work \cup {"job", "version"},
                                     valid |-> @.valid]]
  /\ Answered(c)
  /\ UNCHANGED <<app, role, scope, tok>>

\* A worker's transaction writes the certificate row, so it waits for its lock.
Unlocked(a, k) == \A c \in Requests : CertLock(a, k) \notin request[c].holds
WorkerWrites(a, k, row) ==
  /\ Unlocked(a, k)
  /\ cert' = [cert EXCEPT ![a][k] = row]
  /\ UNCHANGED <<app, role, scope, tok, request>>
PublishChallenge(a, k) ==
  /\ "version" \in cert[a][k].work
  /\ WorkerWrites(a, k, [cert[a][k] EXCEPT !.work = @ \cup {"challenge"}])
IssueCertificate(a, k) ==
  /\ "version" \in cert[a][k].work
  /\ WorkerWrites(a, k, [status |-> "ready", work |-> cert[a][k].work \ {"job", "version"}, valid |-> TRUE])
FailIssuance(a, k) ==
  /\ "version" \in cert[a][k].work
  /\ WorkerWrites(a, k, [cert[a][k] EXCEPT !.work = @ \ {"job", "version"},
                                           !.status = IF cert[a][k].valid THEN "ready" ELSE "failed"])
EnqueueCleanup(a, k) ==
  /\ cert[a][k].work = {"challenge"}
  /\ WorkerWrites(a, k, [cert[a][k] EXCEPT !.work = @ \cup {"job"}])
CleanChallenge(a, k) ==
  /\ cert[a][k].work = {"challenge", "job"}
  /\ WorkerWrites(a, k, [cert[a][k] EXCEPT !.work = {}])
MaterialEnds(a, k) ==
  /\ cert[a][k].valid
  /\ cert' = [cert EXCEPT ![a][k].valid = FALSE]
  /\ UNCHANGED <<app, role, scope, tok, request>>

(* Deletion of an application *)

LockForDeletion(c) ==
  LET a == request[c].app IN
  /\ request[c].pc = "lock"
  /\ Free(c, {AppLock(a)})
  /\ IF Exists(a) /\ ~systemManaged(a)
     THEN Moves(c, "certs", {AppLock(a)}) /\ UNCHANGED <<app, role, scope, tok, cert>>
     ELSE Rejected(c)

CertLocks(a) == {CertLock(a, k) : k \in {x \in Criteria : cert[a][x].status # "none"}}
\* Mutant: the certificates are not locked before their work is counted.
LockNoCertificates(c) == request[c].pc = "certs" /\ Passes(c, "count")
LockCertificates(c) ==
  LET locks == CertLocks(request[c].app) IN
  /\ request[c].pc = "certs"
  /\ Free(c, locks)
  /\ Moves(c, "count", locks)
  /\ UNCHANGED <<app, role, scope, tok, cert>>

\* Busy with work that goes on, or with material that is still in use.
Blocked(a) == \E k \in Criteria : cert[a][k].work # {} \/ (cert[a][k].status # "failed" /\ cert[a][k].valid)
CountBlockers(c) ==
  /\ request[c].pc = "count"
  /\ IF Blocked(request[c].app) THEN Rejected(c) ELSE Passes(c, "delete")

\* The rows that refer to the application go with it.
DeleteApplication(c) ==
  LET a == request[c].app IN
  /\ request[c].pc = "delete"
  /\ Free(c, CertLocks(a))
  /\ app' = [app EXCEPT ![a] = "deleted"]
  /\ role' = [role EXCEPT ![a] = [u \in Users |-> "none"]]
  /\ scope' = [scope EXCEPT ![a] = [s \in Scopes |-> "none"]]
  /\ tok' = [t \in TokenRows |-> IF tok[t].app = a THEN [tok[t] EXCEPT !.status = "revoked"] ELSE tok[t]]
  /\ cert' = [cert EXCEPT ![a] = [k \in Criteria |-> NoCert]]
  /\ Answered(c)

serveApplications(c) ==
  \/ \E u \in Actors, a \in Apps :
       \/ handleDeleteApplication(c, u, a)
       \/ handleCreateApplication(c, u, a)
       \/ handleCreateApplicationToken(c, u, a)
       \/ \E s \in {"active", "disabled"} : handlePatchApplication(c, u, a, s)
       \/ \E t \in TokenRows : handleRotateApplicationToken(c, u, a, t)
       \/ \E t \in TokenRows : handleRevokeApplicationToken(c, u, a, t)
       \/ \E s \in Scopes : handleCreateDomainScope(c, u, a, s)
       \/ \E s \in Scopes : handleDeleteDomainScope(c, u, a, s)
       \/ \E v \in Users, r \in GrantRoles : handlePutApplicationGrant(c, u, a, v, r)
       \/ \E v \in Users : handleDeleteApplicationGrant(c, u, a, v)

serveCertificates(c) ==
  \E k \in Criteria :
    \/ \E v \in Values : handleSyncCertificate(c, v, k)
    \/ \E u \in Actors, a \in Apps :
         handleCreateApplicationCertificate(c, u, a, k) \/ handleStartLifecycle(c, u, a, k)

CallSteps(c) ==
  \/ requireDomainCoverage(c) \/ CreateOrReuse(c) \/ StartLifecycle(c) \/ CommitIssuance(c)
  \/ updateApplication(c) \/ createToken(c) \/ rotateToken(c) \/ revokeToken(c)
  \/ createDomainScope(c) \/ deleteDomainScope(c) \/ upsertGrant(c) \/ deleteGrant(c)
  \/ LockForDeletion(c) \/ LockCertificates(c) \/ CountBlockers(c) \/ DeleteApplication(c)

WorkerSteps(a, k) ==
  \/ PublishChallenge(a, k) \/ IssueCertificate(a, k) \/ FailIssuance(a, k)
  \/ EnqueueCleanup(a, k) \/ CleanChallenge(a, k) \/ MaterialEnds(a, k)

ApplicationsNext ==
  \/ \E c \in Requests : serveApplications(c) \/ serveCertificates(c) \/ CallSteps(c)
  \/ \E a \in Apps, k \in Criteria : WorkerSteps(a, k)
  \/ \E t \in TokenRows : TokenExpires(t)

ApplicationsSpec == ApplicationsInit /\ [][ApplicationsNext]_applicationVars

(* Properties *)

\* Every row and every request is one that the schema and the services know.
ApplicationsTypeOK ==
  /\ app \in [Apps -> AppStatuses]
  /\ role \in [Apps -> [Users -> Roles]]
  /\ scope \in [Apps -> [Scopes -> ScopeStates]]
  /\ tok \in [TokenRows -> AppTokenRows]
  /\ cert \in [Apps -> [Criteria -> CertRows]]
  /\ request \in [Requests -> RequestRows]

\* An application is only deleted when none of its certificates has an active
\* job, an issuing version or a challenge that was not cleaned, although such
\* work is committed between the statements of the deletion.
DeletionLosesNoWork ==
  [][\A a \in Apps : app[a] # "deleted" /\ app'[a] = "deleted"
                       => \A k \in Criteria : cert[a][k].work = {}]_applicationVars

\* The label-by-label meaning of a scope: "*" stands for one label.
Matches(s, id) == Len(s) = Len(id) /\ \A i \in DOMAIN s : s[i] = id[i] \/ (s[i] = "*" /\ i = 1 /\ id[i] # "*")

\* A certificate only names what a scope of its application once allowed,
\* also when the scope is deleted while the certificate is asked for.
NamesWereInScope ==
  \A a \in Apps, k \in Criteria :
    cert[a][k].status # "none" =>
      \A id \in Names[k] : \E s \in Scopes : scope[a][s] # "none" /\ Matches(Labels[s], id)

\* The application of the server's own certificate gets no token, no grant and
\* no scope through the API, and stays.
SystemAppUntouched ==
  \A a \in SystemApps :
    /\ app[a] = "active"
    /\ \A u \in Users : role[a][u] = "none"
    /\ \A s \in Scopes : scope[a][s] = "none"
    /\ \A t \in TokenRows : tok[t].app # a

\* The rows of applications, whatever requests and workers cross.
ApplicationsInv == ApplicationsTypeOK /\ NamesWereInScope /\ SystemAppUntouched
=============================================================================
