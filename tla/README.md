# A verification development of certhub

certhub issues TLS certificates for applications: an API records what is wanted,
background workers obtain it from an ACME CA by DNS-01 validation, and three kinds
of client (an operator for Kubernetes, a CLI, the server itself) fetch the material.
Everything durable is in one PostgreSQL database, and several server replicas run
against it at once. This directory holds TLA+ models of the parts where that is
hard, the TLC configurations that check them, and TLAPS proofs.

    tlc -workers 2 -config IssuanceWorkers.cfg MCCertificateIssuance.tla
    tlapm CertificateIssuanceProofs.tla

## 1. The system

| component | source | state it keeps | operations | who it talks to |
|---|---|---|---|---|
| certificates | `internal/certificates` | `certificates`, `certificate_versions`, `certificate_issuance_jobs`, `dns_challenge_records` | ensure, renew / rotate / reissue, revoke, enable, delete; claim, renew, succeed, fail a job; store material | API handlers, workers, selfcert (same tables) |
| issuance workers | `internal/workers/certificate_issuance.go`, `internal/acme` | a claimed job, a lease and its heartbeat, an ACME order, a private key | claim, prepare, present TXT, accept, finalize, store, clean up, revoke remotely | certificates, the CA, DNS providers |
| renewal worker | `internal/workers/certificate_renewal.go` | none between two scans | list candidates, begin a renewal, enqueue its job | certificates |
| DNS providers | `internal/dnsproviders`, `internal/workers/dns_refresh.go` | providers, zones, refresh jobs | create, replace credentials, add / delete zone, refresh zones | issuance workers, provider APIs |
| DNS propagation | `internal/dnspropagation` | none | look a TXT value up | resolvers |
| issuers and ACME accounts | `internal/issuers`, `internal/acme/account.go` | issuers, one active account each | create, update, register | issuance workers |
| authentication | `internal/auth` | sessions and their access token history, password resets, 2FA setups, OIDC states and hand-offs | login, refresh, log out, reset, confirm, exchange | users, OIDC provider |
| users and invites | `internal/users` | users, invites | invite, sign up, update, 2FA | auth |
| applications | `internal/applications` | applications, tokens, domain scopes, grants | CRUD, rotate and revoke tokens, delete with its certificates | certificates |
| self certificate | `internal/selfcert` | the published release directory, sync status | reconcile, ensure issuance and renewal, publish | applications, certificates |
| operator | `internal/operator` | TLS secrets, status, finalizers, the remembered inputs | reconcile, delete, watch | Kubernetes, HTTP API |
| CLI | `cmd/certhub-cli` | the output directory, its lock | sync, retry, publish | HTTP API |
| HTTP API | `internal/httpapi`, `internal/commands` | login rate limits | route, authorise, render; the order of the reads of a material request | all services |
| storage | `internal/storage`, `internal/migrations` | leases, schema version | transactions, leases, migration lock | all services |
| retry library | `pkg/netretry` | the attempts of a call | back off, retry | every HTTP client, resolvers |
| the rest | `internal/config`, `internal/audit`, `internal/webui`, `pkg/*`, `web`, `deploy` | configuration, audit rows, assets | parse, append, serve | |

How the core interacts. The API and the renewal worker *begin* a version (status
`issuing`) and *enqueue* a job for it; an issuance worker *claims* the job under a
lease (`locked_by`, `locked_until`), renews the lease from a heartbeat goroutine,
and *settles* the version (`valid` or `failed`) and the job (`succeeded`, `failed`, or
back to `pending`) by SQL statements that name the owner they expect. Nothing else
keeps two workers apart: a worker that lost its lease runs on until its heartbeat
says so, and a job whose worker died is claimed again when the lease runs out.

What is hard here, and what must be right:

* certificates: requests that read, then write, in READ COMMITTED transactions; one
  version in progress; at most two valid and unexpired versions; no start while
  disabled; a truthful status; a revocation that reaches the CA.
* issuance workers: every write of a worker that no longer has its job; retries of
  what was already done; crashes between a call to the CA and its record; every job
  ends; a version settled only by the holder of the lease.
* ACME orders and challenges: one key and one order kept over retries; every TXT
  record removable and removed; the material stored belongs to the stored key.
* renewal worker: two statements without a transaction, on every replica at once.
* DNS refresh: a fixed lease without heartbeat, shared worker names.
* challenge records and lookups: requests whose answer is lost or late, repeated calls, one
  record of a value and no other touched; aliases and truncated answers; waits that end.
* sessions: refresh tokens that are rotated exactly once and whose reuse revokes the
  session, also when requests race; resets that end every login under way.
* applications, users, issuers: single use of invites, deletion beside activity, tokens
  that stay revoked, one default issuer, an account for every active one.
* operator, CLI, selfcert: publication that is atomic for a reader, ownership of a
  secret, a finalizer that lets go, and in the end the latest valid material.
* migrations and start: one migrator at a time, nothing served on an older schema, an
  upgrade that completes although processes lose races and die.

`PROJECT.json` lists the hazards at their lines.

## 2. Plan

Most important behaviour first; what is done and what is left.

1. `CertificateVersions` (abstract) and `CertificateIssuance` (detailed, refines it), with
   proofs of both. *Done.*
2. `AcmeIssuance`: the inside of one issuance, which `CertificateIssuance` has as single
   steps, and `AcmeRetries`: what its attempts leave to each other. *Done; their invariants
   are proved.*
3. `SessionTokens` (abstract), `UserSessions` (detailed, refines it) and `Logins`: sessions and
   their tokens under row locks and snapshots; the ways an account gets a session and loses
   it. *Done; their safety and the refinement are proved.*
4. `Applications`, `Accounts`, `DnsProviders`: the other tables and their requests. *Done;
   their safety is proved, and that `Administration` composes the first two.*
5. `ChallengeRecords`, `TXTLookups`: what one step of `AcmeIssuance` is at the APIs of the DNS
   providers and in DNS. *Done; the safety of both is proved.*
6. `Delivery`: the material endpoint and its three consumers. *Done; its safety is proved.*
7. `Startup`: migrations, the start of servers of two releases, issuers. *Done; its safety is
   proved.*

Left, in this order: several namespaces and the retry timer of the operator; two servers with
different hostnames.

## 3. The modules and the code

| module | models | extends / instances |
|---|---|---|
| `CertificateVersions` | abstract: the life of the versions of one certificate | |
| `CertificateIssuance` | the tables and statements of one certificate, API requests, issuance workers, renewal workers, the clock | `INSTANCE CertificateVersions` |
| `AcmeIssuance` | one issuance in detail: key, order, challenges, TXT values, certificate, clean-up | |
| `AcmeRetries` | the attempts at an issuance with a record of the faults that happened | `AcmeIssuance` |
| `SessionTokens` | abstract: a session as a chain of tokens that are used once each | |
| `UserSessions` | sessions and their tokens: refresh, logout, revocation of all sessions of a user, transactions with row locks, snapshots and deadlocks | `INSTANCE SessionTokens` |
| `Logins` | password login, second factor, login setups, reset links, resets by administrators, OIDC with its hand-off | |
| `Applications` | applications, tokens, scopes, grants, their deletion beside certificates and work | |
| `Accounts` | bootstrap, users, invites and sign-up | |
| `DnsProviders` | providers, zones, refresh jobs and their workers | |
| `Administration` | composition: the requests of administrators and users, which `Server.serve` dispatches | `Accounts`, `Applications` |
| `ChallengeRecords` | the TXT records at a DNS provider and the calls that make and remove them, request by request | |
| `TXTLookups` | lookups of TXT values and the wait of a worker | `ChallengeRecords` |
| `ChallengeDns` | composition: calls of providers, and waits | `TXTLookups` |
| `MaterialEndpoint` | the rows of a certificate as issuance leaves them, the statements of a request for material | |
| `ReleaseDirectory` | a directory of releases with a `current` link, on a disk that loses what is not synced | |
| `CliSync` | `certhub-cli sync` of one item | `MaterialEndpoint`, `ReleaseDirectory` |
| `SelfCertificate` | the sync goroutine of the server and its TLS loader | `MaterialEndpoint`, `ReleaseDirectory` |
| `SecretSync` | the operator, its resources and the Secret | `MaterialEndpoint` |
| `Delivery` | composition: one of the three consumers beside changing rows | `CliSync`, `SelfCertificate`, `SecretSync` |
| `SchemaMigrations` | opening the database: check or migrate, the advisory lock, readiness | |
| `Issuers` | creation and change of issuers in transactions that span a call of the CA | |
| `Startup` | composition: a rolling upgrade, and the issuers changed by servers and by a command | `SchemaMigrations`, `Issuers` |
| `CertificateIssuanceProofs`, `AcmeIssuanceProofs`, `UserSessionsProofs`, `LoginsProofs`, `AdministrationProofs`, `DnsProvidersProofs`, `DeliveryProofs`, `StartupProofs` | theorems | `TLAPS` and the module they are about |
| `MC...` | model values, definitions and symmetry for TLC | the module they instantiate |

Operators whose comment begins with *Mutant* are plausible slips. No specification uses
them; `PROJECT.json` says which definition each would replace and which property it breaks.

**Atomicity.** One SQL statement is one step: PostgreSQL takes the row locks it needs.
A transaction whose first statement locks the row it is about is one step; one that
reads, decides and then writes in READ COMMITTED is as many steps as it has statements
whose order matters, since other transactions commit in between. Where locks are held
over several statements and others wait for them (`UserSessions`, the deletion of
`Applications`, `Issuers`) the locks are state, and a waiting statement re-checks its
`where` clause on the rows of its snapshot. When a snapshot matters inside a statement -
the subquery of `RevokeCertificateVersion` - the definition reads the unprimed state.
Outside the database a call (to a CA, a provider, the Kubernetes API, the file system) is
one step, and one that may lose its answer after its effect says so.

**Time** is never a number. The code compares `now()` with the end of a lease (the field
`live` of a job), the renewal window and the end of validity of a version (`age`), the end
of a session or a token (`late`), and `next_run_at`, which only delays a job: any claimable
one may come first.

### CertificateIssuance

| variable | code |
|---|---|
| `certStatus`, `enabled` | the `certificates` row (`"absent"` before it is inserted, `"gone"` after its deletion) |
| `version`, `age` | the `certificate_versions` rows: status, reason, ACME revocation status; validity |
| `job` | the `certificate_issuance_jobs` rows: status, reason, version, attempt, `locked_by`, whether `locked_until > now()` |
| `worker`, `lost` | the local variables of a worker goroutine; the workers whose heartbeat goroutine has cancelled their context |
| `client` | a `StartLifecycle` request between its reads and its writes |
| `renewer` | a renewal worker between its three statements |
| `caRevoked` | what the CA has revoked (external) |

Each action is a statement or a call, named after the Go function. A worker without its
lease keeps acting until its heartbeat fails: nothing but the `where` clauses stops it.
`LockName` is what a worker writes into `locked_by`. The code builds it from a prefix and
a counter, so it is unique in a process and not over replicas. The passing runs give the
workers names of their own. Four theorems need less: that of workers that share a name only
one is at work on a job at a time (`NamesakesApart`); the others need nothing of names.

Two properties need a word. `OnlyHolderSettles` is about the
worker that makes the step: the one that leaves `store` or `fail` as a version is settled
passed the fence of a running job, its own, of that version. `JobsAgree` is
`SucceededJobSettled` with `IssuingBacked`, both of which relate the rows of jobs to those
of versions: the first when a lease was lost between the store and the end of the job, the
second when a crash, a retry or a take-over came between the begin of a version and its end.

`KeepsVersions` is the refinement: the rows of one certificate implement
`CertificateVersions` (one version in progress and that the newest, versions settled
once, at most two valid and unexpired).

### AcmeIssuance

| variable | code |
|---|---|
| `job`, `ver` | the job and the version worked on: attempts and lease; status, key, `acme_order_url` |
| `row` | the `dns_challenge_records` of the job. Each insert seals the value under its own row id, so the ciphertext is new and the unique index on it never conflicts; a row is named by challenge and inserting worker |
| `actor` | the local variables of an issuance worker or of a worker on a dns_cleanup job |
| `order`, `authz`, `txt` | the CA and the DNS (external) |

`presentAndValidate` works in four loops - find or insert rows, publish, wait for
propagation, accept - and each is a stage (`NextStage`) over a set of rows; a call and the
statement that records it are two steps. A call may take effect and lose its answer.
`CleanupDNSChallenge` and `MarkDNSChallengeCleanup` are shared by the clean-up after a
failure and by dns_cleanup jobs, which differ in the rows they list. The set `Faults` says
which faults there are: a lease that runs out under a live worker (`"expiry"`), a process
that dies (`"stop"`), and a clean-up whose list (`"list"`) or whose record of what it did
(`"mark"`) fails. Failures of calls are not faults: they are always possible. `AcmeRetries`
notes in `faults` the kinds that have happened, for the two properties about what one attempt
leaves to the next: `RowsSettled` speaks of jobs that ended without a fault, and
`RetriesPublishAgain` of attempts beside which no dns_cleanup job has come up, no lease has
run out under a live worker and no clean-up call has gone unrecorded.

### UserSessions and Logins

`UserSessions` has the rows of `user_sessions` (`session`) and of
`user_session_token_history` (`token`) and a transaction for each request (`request`): its
program counter, the rows its statement found in its snapshot, the rows it has locked.
`RotateAccessTokenTx` locks the presented token, then its session, then the other active
tokens; `RevokeSession` and `RevokeUserSessions` lock sessions first. A cycle of waits is
broken by `DeadlockAborts`. Expiry is a step of its own; `from` and the token statuses
are the history that the properties speak of.

`SessionTokens` forgets the transactions: a session accepts at most one token (`live`),
exchanges it for one that was never given out, lets it lapse, or ends. `Chain` reads its
variables off the rows (`Accepted`: the token of an active session, if it is active): a login is
`Open`, a rotation `Exchange`, the refusal of an expired token `Lapse`; a logout, a reset and a
token that comes back are `Close`, and everything else is a stutter.

`Logins` starts where a request has read an account: `call.seen` is the account it read,
and what it does under the account's row lock is one step that uses both. `resets` counts
the resets of an account, so that a row can say which one it was made after. A client
that fails a check changes nothing and has no action.

### Applications, Accounts, DnsProviders

`Applications` splits a request into authentication, authorisation and its writes
(`call.pc`), since grants, tokens and scopes change in between. `DeleteApplication` is the
one transaction whose locks matter: it locks the application and its certificates, counts
the work and deletes, while an insert that refers to the application waits on its key
share lock. Names are sequences of labels, so that the matching of wildcards
(`scopes.go`, `certcriteria`) is computed and not assumed.

`Accounts` has a sign-up attempt as a value: the id, the password and the secret that one
form brings, kept on the invite until the second factor is confirmed. `user.from` is the
history that says which invite made an account.

`DnsProviders` has the statements of the repository as single steps: each locks the job
before the provider. `SameNames` says that the workers of two servers share a name, as
they do in the code (`workers/dns_refresh.go`).

`Administration` has the requests of `Accounts` and those of `Applications` side by side;
they do not cross, for the actors of the second are accounts that stay.

### ChallengeRecords and TXTLookups

| variable | code |
|---|---|
| `records` | the records that a provider lists (external) |
| `call` | a worker inside `Present` or `CleanUp`: the attempt, and the listed records left to delete |
| `late` | requests whose caller went on and that the provider may still carry out |
| `calm` | history: nothing has crossed the calls of a challenge |
| `resolver`, `aliases`, `served` | the configured resolver; what the name servers know (external) |
| `lookup` | `waitForPropagation` with the lookup it is in: the alias, the attempt, whether the deadline has passed |

Both providers do the same: list, create or delete, and start over with the listing when
the failure may pass. Cloudflare is asked for the records of one name, ArvanCloud for
those of the zone; `Elsewhere` are records of other names that take a place on the page.
`GET` is repeated inside the HTTP client as well, which changes nothing; `POST` and `DELETE`
are sent once by it (`Sent`). `Write` says what may become of a request: it is carried out
and answered, it fails before or after it was carried out, or it is late.

`TXTLookups` takes an answer at a time. `Replies` are the answers of servers that resolve
aliases and of servers that do not; `QueryUDP` may return a part of one, marked as
truncated. `Spread` lets values come and go at the servers, not tied to `records`, since
copies may follow late or never.

### Delivery

`MaterialEndpoint` lets the rows change in every way issuance, time and administrators
change them, and a request read them in the separate statements of
`Service.MaterialForCriteria`. `ReleaseDirectory` is the disk: a release is written file
by file, synced, renamed and linked, and a power cut keeps any part of what was not
synced (`Survivors`). `CliSync` is a process with its lock file, `SelfCertificate` the
runner goroutine with its reloads (the certificate, the key and the two file infos are
read by four calls), `SecretSync` one pass of the operator over the resources. The
Kubernetes API is external: it refuses a write with a stale `resourceVersion` and it
collects a Secret whose owner is gone. Consumers do not share state with each other, so
`Delivery` puts one of them at a time beside the rows.

### Startup

`SchemaMigrations` has the rows goose appends (`log`), the session that holds the advisory
lock and, for each process, where it is between its start and serving. A lost session
frees the lock while its process migrates on. `drift` are alterations of
`certhub_leases`, which Status rejects. `Issuers` has the row and the account of each issuer
and the transactions under way, which wait for the rows, the names and the default they
all write; registering an account at the CA is a step inside the transaction. `Startup`
begins either with an upgrade or with servers that run and requests to change issuers.

## 4. The runs

A property whose name ends in `Inv` is the conjunction of invariants that are stated one by
one in its module: those in brackets and, where there is one, the type invariant. The other
type invariants are theorems (section 5).

| run | what varies | shows | distinct states |
|---|---|---|---|
| `IssuanceWorkers` | 2 workers, 2 jobs, 1 version, 2 attempts, lost leases, crashes and retries, fairness | `JobsAgree` (`SucceededJobSettled`, `IssuingBacked`), `StatusTracksVersions`, `OnlyHolderSettles`, `EveryJobEnds` | 0.1 M |
| `IssuanceLifecycle` | 1 client, 1 renewer, 1 worker, 3 versions, 3 jobs of one attempt | `IssuingBacked`, `RemoteRevocationTruthful`, `NoStartWhileDisabled`, `KeepsVersions` | 0.7 M |
| `AcmeWorkers` | 2 workers, 1 name, 2 orders, 2 keys, all faults | `MaterialMatchesKey`, `TXTRecorded` | 2.9 M |
| `AcmeCleanup` | 1 worker and dns_cleanup, 2 names, 3 attempts, workers that stop and lists that fail | `RowsSettled`, `RetriesPublishAgain` | 1.6 M |
| `Sessions` | 2 requests, 1 session, 4 tokens | `TokensAreExclusive` (`OneAcceptedToken`, `RotatedOnce`), `ReuseEndsSession`, `KeepsChains`, `EveryRequestEnds` | 0.2 M |
| `Logins` | 2 requests, 2 sessions, 2 setups, 1 reset | `LoginsInv` (`SpentOnce`), `ResetEndsAccess`, `FactorAtLogin`, `LinkWorksOnce` | 0.8 M |
| `Administration` | accounts: 2 requests, 2 addresses, 2 invites, 3 attempts; applications: 2 requests, 2 applications, 2 scopes, 2 certificates | `AccountsInv` (`InviteMakesOneAccount`, `AccountOfOneAttempt`), `ApplicationsInv` (`NamesWereInScope`, `SystemAppUntouched`), `DeletionLosesNoWork` | 1.3 M |
| `DnsProviders` | 2 providers, 2 zones, 2 jobs, 2 workers of one name, fairness | `DnsInv` (`ShownStateIsTheJobs`), `RefreshReplacesAllOrNothing`, `RefreshEnds` | 0.5 M |
| `ChallengeDns` | 2 callers, 2 values of a name, 1 other record, 3 attempts, 3 calls, pages of 3; 1 waiter, 4 resolvers, up to 3 aliases of which 2 are followed, fairness | `RecordsAreKept` (`AnswersAreTrue`, `OnlyItsOwnRecords`), `LookupsAreTrue`, `EveryCallEnds` | 0.3 M |
| `Delivery` | 2 versions, 2 processes, 2 hostnames, 2 resources, 1 fault, fairness | `DeliveryInv` (`InstalledKeysWereAudited`, `ReferencedOwnersAreHeld`), `DirectoryInv` (`CurrentIsWhole`, `OwnReleaseUntilExit`), `ServerInv` (`ServesItsName`, `UnchangedInfosMeanCurrentPair`), `OnlyOwnSecretsChange`, `DirectoryFollowsMaterial`, `ServesTheLatest`, `SecretFollowsMaterial`, `DeletionsEnd` | 0.5 M |
| `Startup` | 2 servers and a direct command of 2 releases, 2 issuers, 1 trouble, 2 requests, fairness | `UpgradeInv` (`AppliedInOrder`, `NoVersionIsSkipped`, `OpenedOnItsSchema`), `IssuersInv` (`OneActiveDefault`, `ActiveIssuersHaveAccounts`), `NobodyWaitsForever` (`LockComesFree`, `UpgradeCompletes`, `RequestsEnd`) | 0.3 M |
| `CleanupBeforeValidation` | 1 worker and dns_cleanup, 1 name | `PublishedUntilValidated` is violated | |

**Bounds.** `MaxVersion` bounds the rows of a certificate: 1 where workers compete for one
version, 3 where requests follow a revocation and the limit of two valid versions is
reached. `Jobs` are row ids; 2 or 3 hold an issuance, a revocation and a clean-up beside
each other. `MaxTries` and `MaxExpiries` bound faults: a lease that has been lost so often
is not lost again, which leaves room for a take-over. `MaxAttempts` is the setting of
the code, small: three attempts are needed for a retry of a retry. Two workers, requests
or processes suffice for every race of a fence or a lock, which is about an owner and
another; the theorems below hold for any number. `Orders` and `Keys` bound what the CA
and the key generator have made; two of each let two workers disagree. Four tokens are a
session's first, its successor, one of a race and one after a reuse. Three sign-up
attempts and two invites are a winner, a loser and a replacement. `MaxResets` = 1 and one
link: a reset and everything that was under way before it. `MaxVersions` = 2 in
`Delivery` is an old and a new material, `MaxFaults` = 1 a single crash, power cut, lost
answer, failing step or changed hostname at any place; `FileCount` = 2 files stand for the
five of a release. `Shipped` ends at migration 3 in the old release and 5 in the new, so
that two are pending, one of which can be applied twice. In `ChallengeDns` three calls
are two that overlap and one that finds what they left, `MaxLate` = 1 a request that is late
beside them, and a page of 3 is full with two values and another record when a value has
been published twice; one alias more than `maxCNAMEHops` is the chain that is too deep.
`IssuanceLifecycle` has one
attempt of one worker, so its jobs are not retried and no lease is lost: `IssuingBacked` is
about requests and renewals there, and about crashes, lost leases and retries in
`IssuanceWorkers`. `AcmeCleanup` leaves out two faults, after which neither of its
properties says anything, and does not follow a state in which both are silent for good
(`Speaking`: a fault has happened and a dns_cleanup job has come up).
Symmetry is used in runs without liveness. Deadlock is not checked where everything may come to rest: all jobs ended, no
request under way, and in bounded runs the bounds reached.

**Fairness.** What is assumed is what the code schedules by itself, and nothing of
requests, users, issuance beside the consumers, or faults.

* `CertificateIssuance`: weak fairness of each worker loop (claiming, and working on what
  was claimed: both are plain `for` loops that only a crash ends, and crashes are steps of
  their own), of each renewal worker, and of the clock for leases that no live worker
  renews. Under it `EveryJobEnds` holds for as long as faults are bounded.
* `UserSessions`: strong fairness of the steps of each request. A statement that waits for
  a lock is in PostgreSQL's queue of that row and gets it in turn, however often others
  take it, and the deadlock detector aborts one of a cycle.
* `DnsProviders`: weak fairness of polling a job, of going on with what was claimed, and of
  the end of an abandoned lease.
* `ChallengeDns`: weak fairness of the requests and queries of a worker (each has a timeout)
  and of its deadline; strong fairness of taking the deadline, for Go's `select` chooses at
  random when the ticker is ready as well.
* `Delivery`: weak fairness of the runs of each CLI process (its scheduler starts rounds
  for ever), of the start of the server (its supervisor) and of the sync ticker, of
  handshakes (clients come back) and of the passes of the operator (its resync timer).
* `Startup`: weak fairness of the steps of a process and of readiness probes; strong
  fairness of taking the advisory lock. `pg_try_advisory_lock` is polled ten times a
  second and has no queue, so whoever polls meets the lock free at last only if others
  leave it often enough; a stream of migrators that never misses it is not excluded by
  the code.

### What the code does not keep

`CleanupBeforeValidation` is a run: a dns_cleanup job of any certificate removes the TXT
value of an accepted challenge before the CA has looked it up, against
`specs/backend-spec.md` (`PROJECT.json` has the quotation and the line).

The models show more, kept as behaviours and not as runs. Paths are under `src/internal`
unless they begin with `cmd`, lines of a spec are of `specs/backend-spec.md`.

Certificates and issuance:

* worker 1 of two replicas has the same id, and the owner fence passes for the wrong one
  (`workers/certificate_issuance.go:147`, against 3194): a worker that goes on after its
  lease ran out ends or fails the job that its namesake of another replica has taken over,
  in place of that one: as succeeded, when its store came while nobody had the lease and was
  refused, and then the version stays in progress without a job;
* a revocation while the issuance job of the version is still active is absorbed by it:
  no remote revocation is queued (`certificates/repository.go:660`, against 2004);
* after its last version is revoked the certificate still reads as ready
  (`certificates/repository.go:728`, against 959);
* a renewal is checked, the version revoked, the renewal begun with nothing to renew
  (`certificates/service.go:591`, against 3252);
* the late failure of a worker without a lease puts a failed job back to pending
  (`certificates/repository.go:945`, against 3259);
* a renewal worker that stops between its two statements leaves a version without a job,
  and the candidate query passes over it from then on (`workers/certificate_renewal.go:114`);
* a worker that loaded the version before another one prepared it goes on with its own key
  and stores it over the recorded one (`workers/certificate_issuance.go:443`, against 3726);
* two workers insert a row each for one challenge (`workers/certificate_issuance.go:816`,
  against 4391);
* a retry publishes a value again whose row is still marked cleaned; the call fails after
  its effect, and the clean-up skips the row (`workers/certificate_issuance.go:931`);
* a clean-up records a removal after a retry has published the value again
  (`certificates/repository.go:1069`, against 3778);
* a clean-up call whose record is lost - the error of the statement is dropped
  (`workers/certificate_issuance.go:959`), or the process dies after the call (953) - leaves
  a row `presented` whose value is gone: the retry reuses the row, publishes nothing and
  waits for a value that nobody publishes, until it times out and cleans up once more;
* a worker that goes on although its lease ran out does the same to the one that took over:
  it records a late publication over a removal (`workers/certificate_issuance.go:752`), or
  removes what the other has just published.

DNS records, where `RecordsAreKept` makes its exceptions:

* two calls of one challenge that overlap, or a request that the provider carries out
  after the next listing, make a second record (`dnsproviders/cloudflare.go:118`, against
  3757); the clean-up removes both when it lists them;
* only the first page of a listing is read (`dnsproviders/cloudflare.go:198`, `arvancloud.go:178`):
  what is not on it is published twice, or stays behind a clean-up that reports success;
* a record that somebody else has just deleted fails the clean-up with the provider's 404
  (`dnsproviders/cloudflare.go:148`).

Accounts and providers:

* a confirmation of the second factor that was authenticated before an administrator's
  reset enables what the reset removed (`auth/service.go:436`);
* two bootstraps for different addresses both make an administrator (`users/service.go:508`),
  and two administrators may demote or disable each other (`users/service.go:640`);
* an invite for the address of a disabled user can be made and never used
  (`users/service.go:228`);
* of two rotations of one application token both succeed, and the value of the first is
  dead (`applications/repository.go:634`);
* a refresh that was claimed before its provider became manual still replaces its zones
  (`dnsproviders/repository.go:490`, against 3909); no refresh is enqueued when a provider
  is created or activated (against 3898); a provider whose refresh met a zone conflict is
  refused every later one (`dnsproviders/service.go:402`).

Delivery and start:

* an answer `certificate_no_active_version` may be given while the material is there, for
  the certificate and its versions are read by two statements
  (`certificates/service.go:1025`, against 3268); the CLI does not retry it;
* a server that is started with material that has run out, or names another host, stops
  before the sync that would replace it (`config/tls.go:144`; compare 744), and one whose
  database is away exits (`commands/server.go:1464`, against 750);
* a release that was published before its audit event failed is never audited
  (`selfcert/service.go:182`, against 737);
* a changed hostname waits for a certificate that is being issued or has challenges to
  clean; servers with different hostnames on one database delete each other's certificate;
* releases and abandoned staging directories are never removed (`cmd/certhub-cli/writer.go:71`);
* the operator trusts the entity tag in the annotation and does not repair edited data
  (`operator/reconciler.go:168`); a Secret of somebody else blocks the deletion of the
  resource that names it, a retained one blocks the next resource of the name; an event
  of one namespace discards the earlier retry of another (`operator/runtime.go:115`,
  against `specs/k8s-operator-spec.md:464`);
* a migrator whose lock session is lost goes on beside the next one: versions are applied
  and recorded twice, and a later row of an older version lowers what goose takes for the
  current one (`migrations/runner.go:93`); a drifted `certhub_leases` is found after the
  migrations ran and stops every start (`migrations/runner.go:256`);
* an account registered at the CA is lost when the transaction around it fails
  (`issuers/service.go:164`), and the default issuer cannot be swapped in one step.

## 5. The proofs

All theorems hold for every value of the constants that the named assumptions allow: any
number of versions, jobs, workers, clients, sessions, tokens, applications, certificates,
releases, processes, requests, attempts, faults.

| module | theorem | property | assumes |
|---|---|---|---|
| `CertificateIssuanceProofs` | `OverlapIsBounded`, `InProgressIsNewest` | the two promises of the abstract `CertificateVersions` | `VersionsAssumption` |
| | `TypeCorrect` | `TypeOK` | |
| | `SettlingCorrect` | the inductive invariant `SettlingInv` | |
| | `HolderSettles` | `OnlyHolderSettles` | |
| | `HoldingCorrect` | the inductive invariant `HoldingInv` | `[]NamesakesApart` |
| | `SuccessIsIssuance`, `IssuingIsBacked`, `JobsDoAgree` | `SucceededJobSettled`, `IssuingBacked`, `JobsAgree` | `[]NamesakesApart` |
| | `UniqueNamesSuffice` | `[]NamesakesApart` | `DistinctNames` |
| | `StartsEnabled` | `NoStartWhileDisabled` | |
| | `ProgressCorrect` | the inductive invariant `ProgressInv` | |
| | `StatusIsTruthful` | `StatusTracksVersions` | |
| | `RevocationIsTruthful` | `RemoteRevocationTruthful` | |
| | `Refinement` | `KeepsVersions` | |
| `AcmeIssuanceProofs` | `AcmeInvariant` | the inductive invariant `AcmeInv` | `AcmeAssumption` |
| | `AcmeTypes`, `CertificatesMatchKeys`, `ValuesAreRecorded` | `TypeOK`, `MaterialMatchesKey`, `TXTRecorded` | `AcmeAssumption` |
| | `RetriesAreIssuances` | `RetrySpec` of `AcmeRetries` implies `Spec` of `AcmeIssuance` | |
| | `AttemptsHold` | the inductive invariant `AttemptInv` of `AcmeRetries` | `AcmeAssumption` |
| | `EndedJobsAreSettled`, `RetriesDoPublish` | `RowsSettled`, `RetriesPublishAgain`, with any `Faults` | `AcmeAssumption` |
| `UserSessionsProofs` | `SessionsInvariant` | the inductive invariant `SessionsInv` | `RowsAssumption` |
| | `TypesHold`, `LocksAreExclusive`, `AcceptsOneToken`, `RotatesOnce`, `TokensExclude`, `ReuseIsPunished`, `RevocationHolds` | `TypeOK`, `LocksExclude`, `OneAcceptedToken`, `RotatedOnce`, `TokensAreExclusive`, `ReuseEndsSession`, `RevokedForGood` | `RowsAssumption` |
| | `ChainsAreKept` | `KeepsChains`: `UserSessions` implements `SessionTokens` | `RowsAssumption` |
| | `PromisedTokensAreUsedOnce` | `SingleUse` of the abstract `SessionTokens` | `RowsAssumption` |
| `LoginsProofs` | `AccessHolds` | the inductive invariant `AccessInv` | `LoginsAssumption` |
| | `LoginsSafe`, `ResetEnds`, `FactorChecked`, `LinkOnce` | `LoginsInv`, `ResetEndsAccess`, `FactorAtLogin`, `LinkWorksOnce` | `LoginsAssumption` |
| `AdministrationProofs` | `AdministrationComposes` | `Spec` implies the specifications of `Accounts` and `Applications` | |
| | `SignupsHold`, `AccountsSafe` | the inductive invariant `SignupsInv`, `AccountsInv` | `AccountsAssumption` |
| | `DeletionsHold` | the inductive invariant `DeletionsInv` | `ApplicationsAssumption`, `LabelsAssumption`, `GrantRolesAssumption` |
| | `ApplicationsSafe`, `DeletionKeepsWork` | `ApplicationsInv`, `DeletionLosesNoWork` | the same |
| `DnsProvidersProofs` | `JobsAgree` | the inductive invariant `RefreshInv` | `DnsAssumption` |
| | `ShownStateSafe`, `RefreshSafe` | `DnsInv`, `RefreshReplacesAllOrNothing` | `DnsAssumption` |
| | `RecordsSafe` | `RecordsAreKept` of `ChallengeDns`, from the inductive `RecordsInv` | `RecordsAssumption` |
| | `LookupsSafe` | `LookupsAreTrue` of `ChallengeDns`, from the inductive `LookupsInv` | `HopsAssumption` |
| `DeliveryProofs` | `Delivered` (a lemma) | the inductive invariant `DeliveredInv` | `EndpointAssumption`, `AbsentAssumption`, `DeliveryAssumption` |
| | `DeliverySafe`, `DirectorySafe`, `ServerSafe`, `OwnSecretsOnly` | `DeliveryInv`, `DirectoryInv`, `ServerInv`, `OnlyOwnSecretsChange` | the same |
| `StartupProofs` | `StartupHolds` | the inductive invariant `StartupInv` | `SchemaAssumption`, `IssuersAssumption`, `StartupAssumption` |
| | `UpgradeSafe`, `OpenedSafe`, `IssuersSafe` | `UpgradeInv`, `OpenedOnItsSchema`, `IssuersInv` | the same |

The assumptions on constants only say that the sets of rows of different tables are
disjoint, that a value that stands for nothing is in none of them, that bounds are natural
numbers, that the new release ships at least the migrations of the old one
(`SchemaAssumption`), and that there are enough account URLs for the issuers a run begins
with (`StartupAssumption`), that scopes and names have at least one label and that the
role no grant has is not granted (`LabelsAssumption`, `GrantRolesAssumption`), and that
the consumers are readers of the endpoint with names of their own (`DeliveryAssumption`).
None of them is about the names of workers, which `CertificateIssuance` leaves free. Where
names matter, the hypothesis is one of the behaviour: `[]NamesakesApart`, no worker claims a
job on which its namesake of another replica is still at work. The code does not see to it,
and without it the three properties are false of the code (section 4); `UniqueNamesSuffice`
proves it for workers with names of their own (`DistinctNames`), as those of one process
have. What holds only until a fault (`RowsSettled`, `RetriesPublishAgain`) says so itself:
the faults are steps of the specification that the theorems are about.

Why the invariants have to be stronger than what they prove.

*Versions*: versions in progress are the newest, versions are begun in order, and the set
of active versions is within the limit.

*Settling*: a job may succeed after a store that the fence silently refused. `SettlingInv`
has what holds whatever the names are: what a worker knows of its job and version, that
ended jobs have no lease, that a version never goes back from valid or revoked to issuing,
and with it that whoever settles a version passed the fence. `HoldingInv` adds, of a worker at
`finish` that holds its lease, that its version has been issued; a namesake that takes the
job over would make that false, for the fence lets the worker through again. *Progress*:
a version in progress is the newest and has a job, or is a renewal without any; with
`SucceededJobSettled` that job is an active one, since failing a job settles the version with it, and the status follows the versions.
*Revocation*: what a worker has on its list, has just revoked at the CA or is about to
record is revoked locally. `UnissuedIsFresh` gives the refinement that a version without
material has not expired.

*ACME*: a worker that lost its race goes on with a key and an order that are not those of
the row, so the invariant is about each actor: what it holds at each stage
(`LocalInv`), that its key and the order's CSR agree (`Agree`), that finalized orders have
the key they were finalized with (`FinalizedOrders`), and that the version's own key and
material agree whoever wrote them (`VersionInv`). `TXTRecorded` is inductive beside them:
the row is inserted before any call can publish its value.

*ACME, attempts*: what an ended job leaves is settled because at each moment one worker is
at work (`OneAtWork`), a challenge has one row (`OneRow`) and every unsettled row is one that
this worker will still mark or list (`WillSettle`): the last until a fault, as the property.
A retry publishes again because what a row says is published is in DNS, or is what the worker
at work marks next after its clean-up (`Published`, `Marks`), and because what an attempt has
not left to publish is published (`Publishes`). A worker that stops or cannot list its rows
leaves that true, since statuses are recorded after the call for a publication and at once
after it for a removal; a removal that is never recorded, and a second worker, do not, and
dns_cleanup jobs may take rows over. So these hold as long as the property speaks.

*Sessions*: two refreshes with one token are kept apart by its row lock, so the invariant
has the exclusion of locks (`LocksExclude`) and says of each transaction what the rows it
locked still look like (`Prepared`): a transaction that waits on the session has found
its token active and nobody can have rotated it since. `PredecessorsSpent` relates the
history to the statuses: a token that has a successor is not active any more. With that each
statement is a step of `SessionTokens` (`LapseChain`, `ExchangeChain`, `CloseChain`): what it
writes leaves the accepted tokens of the other sessions alone, since a token belongs to one
session (`TokensBelong`), and what it spends is what the session accepted. That a chain uses
each token once is then a matter of the abstract specification alone (`SingleUse`).

*Logins*: that nothing from before a reset counts needs, for the requests under way, where
their row is from (`Begun`: only a request with a link has a row of `Links`) and that every
row that counts has its account (`Owned`). That a setup or a handoff is worth one session
needs that what a session was paid with is consumed (`Spent`), which no step undoes.

*Accounts*: the account and the invite are written by two statements of one sign-up, so
the invariant says what each request has prepared and that nobody else has inserted an
account for the address of one that is about to consume its invite (`OneInsertion`); a
consumed invite is the origin of one account and an open one of none (`OneOrigin`).

*Applications*: the deletion decides in one statement and deletes in a later one, so the
invariant says of each request which row locks it holds at which statement (`Guarded`), that
conflicting locks exclude each other (`LocksExclude`), and that a row that does not exist has
no work (`WorkHasRow`). A deletion that has counted no work holds the locks under which work
could be added. That names were in scope follows from the comparison of labels
(`CoveredMatches`), which is made on the scopes as the request read them.

*Delivery*: of each publication, how far its release is (`Prepared`), that its process holds
the lock of the directory, and of the disk that whatever a power cut may leave had been
synced before the link named it (`DiskInv`). Of the server, that versions are issued in order
for the name that is wanted (`IssuedInOrder`), so that files only get newer and a pair that
was read in two steps is recognised as stale (`LoadedInOrder`). Of the operator, that the
finalizer of an owner is held from before its Secret is written until after it is gone or
detached, and what its reconciliation has read (`OwnedInv`); of a request, that its version is
audited before its material is answered (`RequestsInv`).

*DNS providers*: a worker that shares its name with another one passes the fence of the
other's job. The invariant is therefore about rows: a provider has one active job at most and
shows its status (`Agreed`), whoever writes them, since each statement checks the job and
writes both.

*Records and lookups*: what a call has listed may be stale when it writes. While its challenge
is calm, nothing of it is late, one call of it is under way (`Undisturbed`), and what that
call is about to write agrees with the records: it has found none, or lists all there are
(`Knows`). Everything that breaks this ends the calm. Of a lookup that is being answered, that
what is noted of its value - served all the time, or never - is still so (`Truthful`).

*Startup*: of each process, what it has read of the log and that it holds the lock session
while it migrates, unless a session was lost (`Prepared`, `Exclusive`); of the log, that it
is in order while none was lost and without gaps always. A transaction on issuers has
only written what no other one may write beside it (`Pending`), which gives one default and
one account each at its commit.

Model-checked only is all liveness (`EveryJobEnds`, `EveryRequestEnds`, `RefreshEnds`,
`EveryCallEnds`, `DeletionsEnd`, `NobodyWaitsForever`, `SecretFollowsMaterial`,
`ServesTheLatest`, `DirectoryFollowsMaterial`), which is out of the prover's reach. The
property that the code violates is no theorem.

    for m in CertificateIssuance AcmeIssuance UserSessions Logins Administration \
             DnsProviders Delivery Startup
    do tlapm ${m}Proofs.tla; done              # about half an hour

## 6. Not modelled

* The components that `PROJECT.json` lists as `not_modelled`, each with its reason: the
  configuration, storage helpers without a caller, the web interface.
* In the tables: events, audit rows (except `private_key_read`) and failure texts, which
  nothing reads back; display names, `last_used_at`, lists and counts.
* Paths that no caller reaches: `AttachIssuingVersionToJob` and the creation of a version by
  a worker (every job is enqueued with its version, or is a clean-up), the lease table and
  the advisory locks of `internal/storage`, `CreateACMEAccount` and
  `UpdateACMEAccountStatus`.
* The statuses `expired` of a version, `expired` and `revoked` of a certificate and `validated`
  of a challenge, which exist in the schema and which no statement writes.
* Failures of a single statement where they look like a crash to the rest (the marks of a
  remote revocation, `SucceedIssuanceJob`, `FailIssuanceJob`); elsewhere they are `StepFails`.
* Several certificates. Their statements do not meet, except in dns_cleanup, whose workers
  list the rows of all: that is why `AcmeIssuance` has `Cleaners` that may start at any time.
* Lists that are cut off at `MaxListLimit` (valid versions, scopes, zones): a run would need
  more rows than TLC can hold beside the rest.
* The arithmetic of TOTP codes, back-off delays and jitter, hashing and encryption, the
  protocols of DNS, ACME, OIDC and Kubernetes below the outcome of a call.
