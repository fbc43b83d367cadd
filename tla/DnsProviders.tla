---------------------------- MODULE DnsProviders ----------------------------
(***************************************************************************)
(* The DNS providers of internal/dnsproviders, the zones each one owns and *)
(* the durable jobs by which workers replace the zones of an automatic     *)
(* provider with those its API lists.  A job is claimed for five minutes   *)
(* without a heartbeat, and the workers of two servers have the same       *)
(* names.  Every repository statement is one step: it locks the job row    *)
(* before the provider's.                                                  *)
(***************************************************************************)
EXTENDS Naturals, FiniteSets

CONSTANTS Providers, Zones,
          Listings,         \* sets of zones that a provider's API may list
          RefreshJobs,      \* rows; a finished one nobody refers to is used again
          Refreshers,       \* workers, each of its server
          SameNames,        \* TRUE: workerID repeats on every server
          Requests,         \* refresh requests handled at the same time
          MaxExpiries,      \* faults: servers that stop, leases that run out under a
                            \* worker that goes on, insertions that cross
          None

ASSUME DnsAssumption ==
  /\ None \notin Providers \cup RefreshJobs \cup Zones
  /\ Listings \subseteq SUBSET Zones
  /\ SameNames \in BOOLEAN /\ MaxExpiries \in Nat

VARIABLES provider, owner, refreshJob, refresher, request, expiries

dnsVars == <<provider, owner, refreshJob, refresher, request, expiries>>

ZoneModes == {"auto", "manual"}
RefreshStatuses == {"idle", "pending", "running", "succeeded", "failed", "conflict"}

\* refresh joins zone_refresh_status and the conflict failure code.
ProviderRows == [mode: ZoneModes \cup {None}, refresh: RefreshStatuses]
JobRows == [status: {"none", "pending", "running", "succeeded", "failed"},
            provider: Providers \cup {None}, by: Refreshers \cup {None}, live: BOOLEAN]
NoJob == [status |-> "none", provider |-> None, by |-> None, live |-> FALSE]
\* What a worker holds: the job it claimed, and the zones it was told, or that the
\* listing failed.  The listing does not depend on the database, so that it is
\* drawn with the claim.
discoverProviderZones == [found: Listings, failed: {FALSE}] \cup [found: {{}}, failed: {TRUE}]
RefresherRows == [job: RefreshJobs \cup {None}, listing: discoverProviderZones]
Polling == [job |-> None, listing |-> [found |-> {}, failed |-> TRUE]]

DnsInit ==
  /\ provider = [p \in Providers |-> [mode |-> None, refresh |-> "idle"]]
  /\ owner = [z \in Zones |-> None]
  /\ refreshJob = [j \in RefreshJobs |-> NoJob]
  /\ refresher = [w \in Refreshers |-> Polling]
  /\ request = [r \in Requests |-> None]
  /\ expiries = 0

workerID(w) == IF SameNames THEN "dns-refresh-1" ELSE w

ActiveJobs(p) == {j \in RefreshJobs : refreshJob[j].provider = p /\ refreshJob[j].status \in {"pending", "running"}}
ZonesOf(p) == {z \in Zones : owner[z] = p}
FreeJobs == {j \in RefreshJobs : /\ refreshJob[j].status \notin {"pending", "running"}
                                 /\ \A w \in Refreshers : refresher[w].job # j}
NewJob == CHOOSE j \in FreeJobs : TRUE

(* What administrators configure *)

createProvider(p, mode) ==
  /\ provider[p].mode = None
  /\ provider' = [provider EXCEPT ![p].mode = mode]
  /\ UNCHANGED <<owner, refreshJob, refresher, request, expiries>>

updateProvider(p, mode) ==
  /\ provider[p].mode # None
  /\ provider' = [provider EXCEPT ![p].mode = mode]
  /\ UNCHANGED <<owner, refreshJob, refresher, request, expiries>>

addZone(p, z) ==
  /\ provider[p].mode = "manual"
  /\ owner[z] = None
  /\ owner' = [owner EXCEPT ![z] = p]
  /\ UNCHANGED <<provider, refreshJob, refresher, request, expiries>>

deleteZone(p, z) ==
  /\ provider[p].mode = "manual"
  /\ owner[z] = p
  /\ owner' = [owner EXCEPT ![z] = None]
  /\ UNCHANGED <<provider, refreshJob, refresher, request, expiries>>

\* The mode is read before the statement that makes the job.
refreshZones(r, p) ==
  /\ request[r] = None
  /\ provider[p].mode = "auto"
  /\ provider[p].refresh # "conflict"
  /\ request' = [request EXCEPT ![r] = p]
  /\ UNCHANGED <<provider, owner, refreshJob, refresher, expiries>>

\* One active job per provider: a request finds the one that is there.
EnsureJob(p) ==
  IF ActiveJobs(p) # {} THEN UNCHANGED refreshJob
  ELSE /\ FreeJobs # {}
       /\ refreshJob' = [refreshJob EXCEPT ![NewJob] = [NoJob EXCEPT !.status = "pending", !.provider = p]]

EnsureRefreshJob(r) ==
  LET p == request[r]
      running == \E j \in ActiveJobs(p) : refreshJob[j].status = "running" IN
  /\ p # None
  /\ EnsureJob(p)
  /\ provider' = [provider EXCEPT ![p].refresh = IF running THEN "running" ELSE "pending"]
  /\ request' = [request EXCEPT ![r] = None]
  /\ UNCHANGED <<owner, refresher, expiries>>

(* Workers *)

\* Mutant: only pending jobs are claimed.
ClaimablePending(j) == refreshJob[j].status = "pending"
Claimable(j) ==
  \/ refreshJob[j].status = "pending"
  \/ refreshJob[j].status = "running" /\ ~refreshJob[j].live

ClaimNextRefreshJob(w, j) ==
  /\ refresher[w] = Polling
  /\ Claimable(j)
  /\ refreshJob' = [refreshJob EXCEPT ![j].status = "running", ![j].by = w, ![j].live = TRUE]
  /\ provider' = [provider EXCEPT ![refreshJob[j].provider].refresh = "running"]
  /\ \E listing \in discoverProviderZones : refresher' = [refresher EXCEPT ![w] = [job |-> j, listing |-> listing]]
  /\ UNCHANGED <<owner, request, expiries>>

\* Mutant: the statement looks at neither the name nor the lease.
HoldsAnyway(w) == TRUE
\* The lease is compared by the worker's name.
HoldsLease(w) ==
  LET j == refresher[w].job IN
  /\ refreshJob[j].status = "running" /\ refreshJob[j].live
  /\ workerID(refreshJob[j].by) = workerID(w)

Finishes(w, status, shown) ==
  LET j == refresher[w].job IN
  /\ refreshJob' = [refreshJob EXCEPT ![j].status = status, ![j].by = None, ![j].live = FALSE]
  /\ provider' = [provider EXCEPT ![refreshJob[j].provider].refresh = shown]

Records(w) ==
  /\ refresher[w] # Polling
  /\ refresher' = [refresher EXCEPT ![w] = Polling]
  /\ UNCHANGED request

\* The row the worker claimed is another's, or finished: nothing is written.
LeaseLost(w) == Records(w) /\ ~HoldsLease(w) /\ UNCHANGED <<provider, owner, refreshJob, expiries>>

FailRefreshJob(w) ==
  /\ Records(w) /\ HoldsLease(w)
  /\ refresher[w].listing.failed
  /\ Finishes(w, "failed", "failed")
  /\ UNCHANGED <<owner, expiries>>

Conflicts(p, found) == {z \in found : owner[z] \notin {p, None}}

\* Mutant: the rows that were not listed are deleted before the conflict is seen.
ReplacedEarly(p, found) ==
  [z \in Zones |-> IF owner[z] = p /\ z \notin found THEN None
                   ELSE IF z \in found /\ Conflicts(p, found) = {} THEN p ELSE owner[z]]
ReplacedZones(p, found) ==
  IF Conflicts(p, found) # {} THEN owner
  ELSE [z \in Zones |-> IF z \in found THEN p ELSE IF owner[z] = p THEN None ELSE owner[z]]

CompleteRefreshJobSuccess(w) ==
  LET p == refreshJob[refresher[w].job].provider
      conflict == Conflicts(p, refresher[w].listing.found) # {} IN
  /\ Records(w) /\ HoldsLease(w)
  /\ ~refresher[w].listing.failed
  /\ owner' = ReplacedZones(p, refresher[w].listing.found)
  /\ IF conflict THEN Finishes(w, "failed", "conflict") ELSE Finishes(w, "succeeded", "succeeded")
  /\ UNCHANGED expiries

\* Another provider's insertion of a zone commits after the statement's
\* snapshot: the unique name refuses it, and the job stays running.
UniqueViolation(w) ==
  /\ Records(w) /\ HoldsLease(w)
  /\ ~refresher[w].listing.failed /\ refresher[w].listing.found # {}
  /\ expiries < MaxExpiries /\ expiries' = expiries + 1
  /\ Cardinality({p \in Providers : provider[p].mode # None}) > 1
  /\ UNCHANGED <<provider, owner, refreshJob>>

\* A server stops: its worker forgets what it did.
RefresherStops(w) ==
  /\ refresher[w] # Polling
  /\ expiries < MaxExpiries
  /\ expiries' = expiries + 1
  /\ refresher' = [refresher EXCEPT ![w] = Polling]
  /\ UNCHANGED <<provider, owner, refreshJob, request>>

\* Five minutes pass under a worker that goes on, or that went.
Expire(j) ==
  /\ refreshJob[j].live
  /\ refreshJob' = [refreshJob EXCEPT ![j].live = FALSE]
  /\ UNCHANGED <<provider, owner, refresher, request>>
LeaseExpires(j) == Expire(j) /\ expiries < MaxExpiries /\ expiries' = expiries + 1
AbandonedLeaseExpires(j) ==
  /\ \A w \in Refreshers : refresher[w].job # j
  /\ Expire(j)
  /\ UNCHANGED expiries

(* The endpoints and the bootstrap commands *)

handleCreateDNSProvider(p) == \E m \in ZoneModes : createProvider(p, m)
handlePatchDNSProvider(p) == \E m \in ZoneModes : updateProvider(p, m)
handleCreateDNSProviderZone(p) == \E z \in Zones : addZone(p, z)
handleDeleteDNSProviderZone(p) == \E z \in Zones : deleteZone(p, z)
handleRefreshDNSProviderZones(r) == \E p \in Providers : refreshZones(r, p)

serveDNSProviders ==
  \/ \E p \in Providers :
       \/ handleCreateDNSProvider(p) \/ handlePatchDNSProvider(p)
       \/ handleCreateDNSProviderZone(p) \/ handleDeleteDNSProviderZone(p)
  \/ \E r \in Requests : handleRefreshDNSProviderZones(r)

CompleteNextRefreshJob(w) ==
  \/ LeaseLost(w) \/ FailRefreshJob(w) \/ CompleteRefreshJobSuccess(w)

DnsNext ==
  \/ serveDNSProviders
  \/ \E r \in Requests : EnsureRefreshJob(r)
  \/ \E w \in Refreshers :
       \/ \E j \in RefreshJobs : ClaimNextRefreshJob(w, j)
       \/ CompleteNextRefreshJob(w) \/ UniqueViolation(w) \/ RefresherStops(w)
  \/ \E j \in RefreshJobs : LeaseExpires(j) \/ AbandonedLeaseExpires(j)

\* A worker polls, and goes on with what it claimed; the lease of a job that
\* nobody works on runs out.
DnsFairness ==
  /\ \A w \in Refreshers : WF_dnsVars(CompleteNextRefreshJob(w))
  /\ \A j \in RefreshJobs :
       /\ WF_dnsVars(\E w \in Refreshers : ClaimNextRefreshJob(w, j))
       /\ WF_dnsVars(AbandonedLeaseExpires(j))

DnsSpec == DnsInit /\ [][DnsNext]_dnsVars /\ DnsFairness

(* Properties *)

\* Every provider, zone, job and worker is one that the schema knows.
DnsTypeOK ==
  /\ provider \in [Providers -> ProviderRows]
  /\ owner \in [Zones -> Providers \cup {None}]
  /\ refreshJob \in [RefreshJobs -> JobRows]
  /\ refresher \in [Refreshers -> RefresherRows]
  /\ request \in [Requests -> Providers \cup {None}]
  /\ expiries \in 0 .. MaxExpiries

\* The state an administrator is shown is that of the provider's one job,
\* although requests, claims and the late answers of workers that lost their
\* lease write it in any order.
ShownStateIsTheJobs ==
  \A p \in Providers :
    LET shown == provider[p].refresh IN
    /\ Cardinality(ActiveJobs(p)) = IF shown \in {"pending", "running"} THEN 1 ELSE 0
    /\ \A j \in ActiveJobs(p) : refreshJob[j].status = shown

\* A refresh replaces the zones of its provider as a whole or, when one of them
\* is another provider's or the listing failed, leaves them as they were; it
\* never takes a zone from another provider.
RefreshReplacesAllOrNothing ==
  [][\A j \in RefreshJobs : refreshJob[j].status = "running" =>
       LET p == refreshJob[j].provider IN
       /\ refreshJob'[j].status = "succeeded" =>
            \E w \in Refreshers : refresher[w].job = j /\ {z \in Zones : owner'[z] = p} = refresher[w].listing.found
       /\ refreshJob'[j].status = "failed" => owner' = owner
       /\ \A z \in Zones : owner'[z] # owner[z] => {owner[z], owner'[z]} \subseteq {p, None} \/ refreshJob'[j] = refreshJob[j]]_dnsVars

\* A job that was asked for is carried out, or fails, although workers stop and
\* leases run out under them.
RefreshEnds ==
  \A j \in RefreshJobs :
    refreshJob[j].status \in {"pending", "running"} ~> refreshJob[j].status \in {"succeeded", "failed"}

\* The rows of providers and jobs agree, whatever order they are written in.
DnsInv == DnsTypeOK /\ ShownStateIsTheJobs
=============================================================================
