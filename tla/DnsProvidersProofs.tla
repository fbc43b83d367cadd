------------------------- MODULE DnsProvidersProofs -------------------------
(***************************************************************************)
(* Proofs about what the server knows of DNS providers and what it does at *)
(* them: first DnsProviders, for any number of providers, zones, workers   *)
(* and requests; then ChallengeDns, for any number of challenges, records, *)
(* calls, failures, late requests and waits.                               *)
(***************************************************************************)
EXTENDS DnsProviders, ChallengeDns, FiniteSetTheorems, TLAPS

Active == {"pending", "running"}

\* A worker that holds something holds a job.
RefreshersHold == \A w \in Refreshers : refresher[w] = Polling \/ refresher[w].job \in RefreshJobs

\* An active job is some provider's.
JobsBelong == \A j \in RefreshJobs : refreshJob[j].status \in Active => refreshJob[j].provider \in Providers

\* A provider has at most one active job, whose status it shows, and one if it
\* shows one.
Agreed(p) ==
  /\ \A j \in ActiveJobs(p), k \in ActiveJobs(p) : j = k
  /\ \A j \in ActiveJobs(p) : refreshJob[j].status = provider[p].refresh
  /\ provider[p].refresh \in Active => ActiveJobs(p) # {}

RefreshInv ==
  /\ DnsTypeOK
  /\ RefreshersHold
  /\ JobsBelong
  /\ \A p \in Providers : Agreed(p)

-----------------------------------------------------------------------------
\* One active job is what the count says.
LEMMA AgreedCounts == ASSUME \A p \in Providers : Agreed(p) PROVE ShownStateIsTheJobs
<1> SUFFICES ASSUME NEW p \in Providers
             PROVE  /\ Cardinality(ActiveJobs(p)) = IF provider[p].refresh \in Active THEN 1 ELSE 0
                    /\ \A j \in ActiveJobs(p) : refreshJob[j].status = provider[p].refresh
  BY DEF ShownStateIsTheJobs, Active
<1>1. Agreed(p)
  OBVIOUS
<1>2. CASE provider[p].refresh \in Active
  <2>1. PICK j \in ActiveJobs(p) : TRUE
    BY <1>1, <1>2 DEF Agreed
  <2>2. ActiveJobs(p) = {j}
    BY <1>1, <2>1 DEF Agreed
  <2>3. Cardinality(ActiveJobs(p)) = 1
    BY <2>2, FS_Singleton
  <2> QED
    BY <1>1, <1>2, <2>3 DEF Agreed
<1>3. CASE provider[p].refresh \notin Active
  <2>1. ActiveJobs(p) = {}
    BY <1>1, <1>3 DEF Agreed, ActiveJobs, Active
  <2>2. Cardinality(ActiveJobs(p)) = 0
    BY <2>1, FS_EmptySet
  <2> QED
    BY <1>1, <1>3, <2>2 DEF Agreed
<1> QED
  BY <1>2, <1>3

\* There is no job, and no state that shows one, at first.
LEMMA InitHolds == DnsInit => RefreshInv
<1> SUFFICES ASSUME DnsInit
             PROVE  RefreshInv
  OBVIOUS
<1> USE DnsAssumption DEF DnsInit
<1>1. DnsTypeOK
  BY DEF DnsTypeOK, ProviderRows, ZoneModes, RefreshStatuses, JobRows, NoJob, RefresherRows,
         Polling, discoverProviderZones
<1>2. RefreshersHold /\ JobsBelong
  BY DEF RefreshersHold, JobsBelong, NoJob, Active
<1>3. \A p \in Providers : Agreed(p)
  BY DEF Agreed, ActiveJobs, NoJob, Active
<1> QED
  BY <1>1, <1>2, <1>3 DEF RefreshInv

-----------------------------------------------------------------------------
\* The statements that write a job and its provider.

\* A provider whose active jobs, and what it shows of them, stay the same.
LEMMA AgreedKept ==
  ASSUME NEW p \in Providers, Agreed(p), provider'[p].refresh = provider[p].refresh,
         ActiveJobs(p)' = ActiveJobs(p),
         \A k \in ActiveJobs(p) : refreshJob'[k].status = refreshJob[k].status
  PROVE  Agreed(p)'
BY DEF Agreed

\* Neither the jobs nor what providers show of them changes.
LEMMA JobsKept ==
  ASSUME RefreshInv, UNCHANGED refreshJob,
         \A p \in Providers : provider'[p].refresh = provider[p].refresh
  PROVE  JobsBelong' /\ \A p \in Providers : Agreed(p)'
<1>1. JobsBelong'
  BY DEF RefreshInv, JobsBelong
<1>2. ASSUME NEW p \in Providers
      PROVE  Agreed(p)'
  BY DEF RefreshInv, Agreed, ActiveJobs
<1> QED
  BY <1>1, <1>2

\* A job that was active is written, and its provider shows what it became.
LEMMA JobWritten ==
  ASSUME RefreshInv,
         NEW j \in RefreshJobs, refreshJob[j].status \in Active,
         NEW row \in JobRows, row.provider = refreshJob[j].provider,
         NEW shown \in RefreshStatuses,
         IF row.status \in Active THEN shown = row.status ELSE shown \notin Active,
         refreshJob' = [refreshJob EXCEPT ![j] = row],
         provider' = [provider EXCEPT ![refreshJob[j].provider].refresh = shown]
  PROVE  /\ refreshJob' \in [RefreshJobs -> JobRows]
         /\ provider' \in [Providers -> ProviderRows]
         /\ JobsBelong'
         /\ \A p \in Providers : Agreed(p)'
<1> USE DEF RefreshInv
<1>1. PICK p \in Providers : p = refreshJob[j].provider
  BY DEF JobsBelong
<1>2. refreshJob' \in [RefreshJobs -> JobRows]
  BY DEF DnsTypeOK
<1>3. /\ provider' \in [Providers -> ProviderRows]
      /\ provider'[p].refresh = shown
      /\ \A q \in Providers \ {p} : provider'[q] = provider[q]
  BY <1>1 DEF DnsTypeOK, ProviderRows
<1>4. refreshJob'[j] = row /\ \A k \in RefreshJobs \ {j} : refreshJob'[k] = refreshJob[k]
  BY DEF DnsTypeOK
<1>5. JobsBelong'
  BY <1>1, <1>4 DEF JobsBelong
<1>6. ASSUME NEW q \in Providers, q # p
      PROVE  Agreed(q)'
  <2>1. ActiveJobs(q)' = ActiveJobs(q) /\ j \notin ActiveJobs(q)
    BY <1>1, <1>4, <1>6 DEF ActiveJobs
  <2>2. \A k \in ActiveJobs(q) : refreshJob'[k] = refreshJob[k]
    BY <1>4, <2>1 DEF ActiveJobs
  <2>3. provider'[q] = provider[q] /\ Agreed(q)
    BY <1>3, <1>6
  <2> QED
    BY <2>1, <2>2, <2>3, AgreedKept
<1>7. Agreed(p)'
  <2>1. j \in ActiveJobs(p)
    BY <1>1 DEF ActiveJobs, Active
  <2>2. ActiveJobs(p) = {j}
    BY <2>1 DEF Agreed
  <2>3. ActiveJobs(p)' = IF row.status \in Active THEN {j} ELSE {}
    BY <1>1, <1>4, <2>2 DEF ActiveJobs, Active
  <2> QED
    BY <1>3, <1>4, <2>3 DEF Agreed
<1> QED
  BY <1>2, <1>3, <1>5, <1>6, <1>7

\* A row that no worker holds is the new job of a provider that has none.
LEMMA JobMade ==
  ASSUME RefreshInv,
         NEW p \in Providers, ActiveJobs(p) = {},
         NEW j \in RefreshJobs, refreshJob[j].status \notin Active,
         refreshJob' = [refreshJob EXCEPT ![j] = [NoJob EXCEPT !.status = "pending", !.provider = p]],
         provider' = [provider EXCEPT ![p].refresh = "pending"]
  PROVE  /\ refreshJob' \in [RefreshJobs -> JobRows]
         /\ provider' \in [Providers -> ProviderRows]
         /\ JobsBelong'
         /\ \A q \in Providers : Agreed(q)'
<1> USE DEF RefreshInv
<1>1. PICK row : row = [NoJob EXCEPT !.status = "pending", !.provider = p]
  OBVIOUS
<1>2. row \in JobRows /\ row.status = "pending" /\ row.provider = p
  BY <1>1 DEF NoJob, JobRows
<1>3. refreshJob' \in [RefreshJobs -> JobRows]
  BY <1>1, <1>2 DEF DnsTypeOK
<1>4. /\ provider' \in [Providers -> ProviderRows]
      /\ provider'[p].refresh = "pending"
      /\ \A q \in Providers \ {p} : provider'[q] = provider[q]
  BY DEF DnsTypeOK, ProviderRows, RefreshStatuses
<1>5. refreshJob'[j] = row /\ \A k \in RefreshJobs \ {j} : refreshJob'[k] = refreshJob[k]
  BY <1>1 DEF DnsTypeOK
<1>6. JobsBelong'
  BY <1>2, <1>5 DEF JobsBelong
<1>7. ASSUME NEW q \in Providers, q # p
      PROVE  Agreed(q)'
  <2>1. ActiveJobs(q)' = ActiveJobs(q) /\ j \notin ActiveJobs(q)
    BY <1>2, <1>5, <1>7 DEF ActiveJobs, Active
  <2>2. \A k \in ActiveJobs(q) : refreshJob'[k] = refreshJob[k]
    BY <1>5, <2>1 DEF ActiveJobs
  <2>3. provider'[q] = provider[q] /\ Agreed(q)
    BY <1>4, <1>7
  <2> QED
    BY <2>1, <2>2, <2>3, AgreedKept
<1>8. Agreed(p)'
  <2>1. ActiveJobs(p)' = {j}
    BY <1>2, <1>5 DEF ActiveJobs
  <2> QED
    BY <1>2, <1>4, <1>5, <2>1 DEF Agreed
<1> QED
  BY <1>3, <1>4, <1>6, <1>7, <1>8

\* A worker that forgets what it held.
LEMMA RefresherPolls ==
  ASSUME RefreshInv, NEW w \in Refreshers, refresher' = [refresher EXCEPT ![w] = Polling]
  PROVE  refresher' \in [Refreshers -> RefresherRows] /\ RefreshersHold'
BY DEF RefreshInv, DnsTypeOK, RefreshersHold, RefresherRows, Polling, discoverProviderZones

-----------------------------------------------------------------------------
\* Administrators change modes and zones, never what is shown of a refresh.
LEMMA AdministratorsStep ==
  ASSUME RefreshInv, serveDNSProviders
  PROVE  RefreshInv'
<1> USE DEF RefreshInv
<1>1. ASSUME NEW p \in Providers, NEW m \in ZoneModes, createProvider(p, m) \/ updateProvider(p, m)
      PROVE  RefreshInv'
  <2>1. /\ provider' \in [Providers -> ProviderRows]
        /\ \A q \in Providers : provider'[q].refresh = provider[q].refresh
    BY <1>1 DEF createProvider, updateProvider, DnsTypeOK, ProviderRows
  <2>2. DnsTypeOK' /\ RefreshersHold'
    BY <1>1, <2>1 DEF createProvider, updateProvider, DnsTypeOK, RefreshersHold
  <2> QED
    BY <1>1, <2>1, <2>2, JobsKept DEF createProvider, updateProvider
<1>2. ASSUME NEW p \in Providers, NEW z \in Zones, addZone(p, z) \/ deleteZone(p, z)
      PROVE  RefreshInv'
  <2>1. DnsTypeOK' /\ RefreshersHold'
    BY <1>2 DEF addZone, deleteZone, DnsTypeOK, RefreshersHold
  <2> QED
    BY <1>2, <2>1, JobsKept DEF addZone, deleteZone
<1>3. ASSUME NEW r \in Requests, NEW p \in Providers, refreshZones(r, p)
      PROVE  RefreshInv'
  <2>1. DnsTypeOK' /\ RefreshersHold'
    BY <1>3 DEF refreshZones, DnsTypeOK, RefreshersHold
  <2> QED
    BY <1>3, <2>1, JobsKept DEF refreshZones
<1> QED
  BY <1>1, <1>2, <1>3
     DEF serveDNSProviders, handleCreateDNSProvider, handlePatchDNSProvider, handleCreateDNSProviderZone,
         handleDeleteDNSProviderZone, handleRefreshDNSProviderZones

\* A request finds the provider's job and shows its status, or makes one.
LEMMA EnsureRefreshJobStep ==
  ASSUME RefreshInv, NEW r \in Requests, EnsureRefreshJob(r)
  PROVE  RefreshInv'
<1> USE DEF RefreshInv
<1>1. PICK p \in Providers : p = request[r]
  BY DEF EnsureRefreshJob, DnsTypeOK
<1>2. PICK shown : shown = IF \E j \in ActiveJobs(p) : refreshJob[j].status = "running" THEN "running" ELSE "pending"
  OBVIOUS
<1>3. EnsureJob(p) /\ provider' = [provider EXCEPT ![p].refresh = shown]
  BY <1>1, <1>2 DEF EnsureRefreshJob
<1>4. request' \in [Requests -> Providers \cup {None}] /\ UNCHANGED <<owner, refresher, expiries>>
  BY DEF EnsureRefreshJob, DnsTypeOK
<1>5. /\ refreshJob' \in [RefreshJobs -> JobRows]
      /\ provider' \in [Providers -> ProviderRows]
      /\ JobsBelong'
      /\ \A q \in Providers : Agreed(q)'
  <2>1. CASE ActiveJobs(p) = {}
    <3>1. PICK j \in FreeJobs : refreshJob' = [refreshJob EXCEPT ![j] = [NoJob EXCEPT !.status = "pending", !.provider = p]]
      BY <1>3, <2>1 DEF EnsureJob, NewJob
    <3>2. shown = "pending"
      BY <1>2, <2>1
    <3> QED
      BY <1>3, <2>1, <3>1, <3>2, JobMade DEF FreeJobs, Active
  <2>2. CASE ActiveJobs(p) # {}
    <3>1. UNCHANGED refreshJob
      BY <1>3, <2>2 DEF EnsureJob
    <3>2. PICK j \in ActiveJobs(p) : TRUE
      BY <2>2
    <3>3. Agreed(p) /\ refreshJob[j].status \in Active
      BY DEF ActiveJobs, Active
    <3>4. shown = provider[p].refresh
      BY <1>2, <3>2, <3>3 DEF Agreed, Active
    <3>5. /\ provider' \in [Providers -> ProviderRows]
          /\ \A q \in Providers : provider'[q].refresh = provider[q].refresh
      BY <1>3, <3>4 DEF DnsTypeOK, ProviderRows
    <3> QED
      BY <3>1, <3>5, JobsKept DEF DnsTypeOK
  <2> QED
    BY <2>1, <2>2
<1>6. DnsTypeOK' /\ RefreshersHold'
  BY <1>4, <1>5 DEF DnsTypeOK, RefreshersHold
<1> QED
  BY <1>5, <1>6

\* A claim makes the job and what is shown of it run.
LEMMA ClaimStep ==
  ASSUME RefreshInv, NEW w \in Refreshers, NEW j \in RefreshJobs, ClaimNextRefreshJob(w, j)
  PROVE  RefreshInv'
<1> USE DEF RefreshInv
<1>1. PICK row : row = [refreshJob[j] EXCEPT !.status = "running", !.by = w, !.live = TRUE]
  OBVIOUS
<1>2. row \in JobRows /\ row.status = "running" /\ row.provider = refreshJob[j].provider
  BY <1>1 DEF DnsTypeOK, JobRows
<1>3. refreshJob[j].status \in Active
  BY DEF ClaimNextRefreshJob, Claimable, Active
<1>4. /\ refreshJob' = [refreshJob EXCEPT ![j] = row]
      /\ provider' = [provider EXCEPT ![refreshJob[j].provider].refresh = "running"]
  BY <1>1 DEF ClaimNextRefreshJob, DnsTypeOK
<1>5. /\ refreshJob' \in [RefreshJobs -> JobRows]
      /\ provider' \in [Providers -> ProviderRows]
      /\ JobsBelong'
      /\ \A q \in Providers : Agreed(q)'
  BY <1>2, <1>3, <1>4, JobWritten DEF RefreshStatuses, Active
<1>6. refresher' \in [Refreshers -> RefresherRows] /\ RefreshersHold'
  BY DEF ClaimNextRefreshJob, DnsTypeOK, RefreshersHold, RefresherRows
<1>7. DnsTypeOK'
  BY <1>5, <1>6 DEF ClaimNextRefreshJob, DnsTypeOK
<1> QED
  BY <1>5, <1>6, <1>7

\* A worker that still has its lease finishes the job and what is shown of it.
LEMMA FinishesStep ==
  ASSUME RefreshInv, NEW w \in Refreshers, refresher[w] # Polling, HoldsLease(w),
         NEW status \in {"succeeded", "failed"},
         NEW shown \in {"succeeded", "failed", "conflict"},
         Finishes(w, status, shown)
  PROVE  /\ refreshJob' \in [RefreshJobs -> JobRows]
         /\ provider' \in [Providers -> ProviderRows]
         /\ JobsBelong'
         /\ \A p \in Providers : Agreed(p)'
<1> USE DEF RefreshInv
<1>1. PICK j \in RefreshJobs : j = refresher[w].job
  BY DEF RefreshersHold
<1>2. PICK row : row = [refreshJob[j] EXCEPT !.status = status, !.by = None, !.live = FALSE]
  OBVIOUS
<1>3. row \in JobRows /\ row.status = status /\ row.provider = refreshJob[j].provider
  BY <1>2 DEF DnsTypeOK, JobRows
<1>4. refreshJob[j].status \in Active
  BY <1>1 DEF HoldsLease, Active
<1>5. /\ refreshJob' = [refreshJob EXCEPT ![j] = row]
      /\ provider' = [provider EXCEPT ![refreshJob[j].provider].refresh = shown]
  BY <1>1, <1>2 DEF Finishes, DnsTypeOK
<1> QED
  BY <1>3, <1>4, <1>5, JobWritten DEF RefreshStatuses, Active

LEMMA CompleteStep ==
  ASSUME RefreshInv, NEW w \in Refreshers, CompleteNextRefreshJob(w)
  PROVE  RefreshInv'
<1> USE DEF RefreshInv
<1>1. refresher[w] # Polling /\ refresher' \in [Refreshers -> RefresherRows] /\ RefreshersHold' /\ UNCHANGED request
  BY RefresherPolls DEF CompleteNextRefreshJob, LeaseLost, FailRefreshJob, CompleteRefreshJobSuccess, Records
<1>2. CASE LeaseLost(w)
  BY <1>1, <1>2, JobsKept DEF LeaseLost, DnsTypeOK
<1>3. CASE FailRefreshJob(w)
  <2>1. HoldsLease(w) /\ Finishes(w, "failed", "failed") /\ UNCHANGED <<owner, expiries>>
    BY <1>3 DEF FailRefreshJob
  <2> QED
    BY <1>1, <2>1, FinishesStep DEF DnsTypeOK
<1>4. CASE CompleteRefreshJobSuccess(w)
  <2>1. PICK p : p = refreshJob[refresher[w].job].provider
    OBVIOUS
  <2>2. /\ HoldsLease(w) /\ UNCHANGED expiries
        /\ owner' = ReplacedZones(p, refresher[w].listing.found)
        /\ Finishes(w, "failed", "conflict") \/ Finishes(w, "succeeded", "succeeded")
    BY <1>4, <2>1 DEF CompleteRefreshJobSuccess
  <2>3. p \in Providers
    BY <1>1, <2>1, <2>2 DEF RefreshersHold, JobsBelong, HoldsLease, Active
  <2>4. owner' \in [Zones -> Providers \cup {None}]
    BY <2>2, <2>3 DEF ReplacedZones, DnsTypeOK
  <2> QED
    BY <1>1, <2>2, <2>4, FinishesStep DEF DnsTypeOK
<1> QED
  BY <1>2, <1>3, <1>4 DEF CompleteNextRefreshJob

\* What goes wrong around a worker changes no job and nothing that is shown.
LEMMA FaultsStep ==
  ASSUME RefreshInv, NEW w \in Refreshers, UniqueViolation(w) \/ RefresherStops(w)
  PROVE  RefreshInv'
<1> USE DEF RefreshInv
<1>1. refresher' \in [Refreshers -> RefresherRows] /\ RefreshersHold'
  BY RefresherPolls DEF UniqueViolation, RefresherStops, Records
<1>2. UNCHANGED <<provider, owner, refreshJob, request>> /\ expiries' \in 0 .. MaxExpiries
  BY DnsAssumption DEF UniqueViolation, RefresherStops, Records, DnsTypeOK
<1> QED
  BY <1>1, <1>2, JobsKept DEF DnsTypeOK

LEMMA ExpireStep ==
  ASSUME RefreshInv, NEW j \in RefreshJobs, LeaseExpires(j) \/ AbandonedLeaseExpires(j)
  PROVE  RefreshInv'
<1> USE DEF RefreshInv
<1>1. Expire(j) /\ expiries' \in 0 .. MaxExpiries
  BY DnsAssumption DEF LeaseExpires, AbandonedLeaseExpires, DnsTypeOK
<1>2. /\ refreshJob' \in [RefreshJobs -> JobRows]
      /\ \A k \in RefreshJobs : /\ refreshJob'[k].status = refreshJob[k].status
                                /\ refreshJob'[k].provider = refreshJob[k].provider
  BY <1>1 DEF Expire, DnsTypeOK, JobRows
<1>3. UNCHANGED <<provider, owner, refresher, request>>
  BY <1>1 DEF Expire
<1>4. DnsTypeOK' /\ RefreshersHold'
  BY <1>1, <1>2, <1>3 DEF DnsTypeOK, RefreshersHold
<1>5. JobsBelong'
  BY <1>2 DEF JobsBelong
<1>6. ASSUME NEW p \in Providers
      PROVE  Agreed(p)'
  <2>1. ActiveJobs(p)' = ActiveJobs(p)
    BY <1>2 DEF ActiveJobs
  <2>2. \A k \in ActiveJobs(p) : refreshJob'[k].status = refreshJob[k].status
    BY <1>2 DEF ActiveJobs
  <2> QED
    BY <1>3, <2>1, <2>2, AgreedKept
<1> QED
  BY <1>4, <1>5, <1>6

LEMMA NextHolds ==
  ASSUME RefreshInv, [DnsNext]_dnsVars
  PROVE  RefreshInv'
<1>1. CASE serveDNSProviders
  BY <1>1, AdministratorsStep
<1>2. ASSUME NEW r \in Requests, EnsureRefreshJob(r)
      PROVE  RefreshInv'
  BY <1>2, EnsureRefreshJobStep
<1>3. ASSUME NEW w \in Refreshers, NEW j \in RefreshJobs, ClaimNextRefreshJob(w, j)
      PROVE  RefreshInv'
  BY <1>3, ClaimStep
<1>4. ASSUME NEW w \in Refreshers, CompleteNextRefreshJob(w)
      PROVE  RefreshInv'
  BY <1>4, CompleteStep
<1>5. ASSUME NEW w \in Refreshers, UniqueViolation(w) \/ RefresherStops(w)
      PROVE  RefreshInv'
  BY <1>5, FaultsStep
<1>6. ASSUME NEW j \in RefreshJobs, LeaseExpires(j) \/ AbandonedLeaseExpires(j)
      PROVE  RefreshInv'
  BY <1>6, ExpireStep
<1>7. CASE UNCHANGED dnsVars
  <2>1. DnsTypeOK' /\ RefreshersHold'
    BY <1>7 DEF RefreshInv, DnsTypeOK, RefreshersHold, dnsVars
  <2> QED
    BY <1>7, <2>1, JobsKept DEF RefreshInv, dnsVars
<1> QED
  BY <1>1, <1>2, <1>3, <1>4, <1>5, <1>6, <1>7 DEF DnsNext

-----------------------------------------------------------------------------
\* The jobs, and what is shown of them, keep agreeing.
THEOREM JobsAgree == DnsSpec => []RefreshInv
BY InitHolds, NextHolds, PTL DEF DnsSpec

\* An administrator is shown the state of the provider's one job, whatever order
\* requests, claims and late workers write it in.
THEOREM ShownStateSafe == DnsSpec => []DnsInv
<1>1. RefreshInv => DnsInv
  BY AgreedCounts DEF RefreshInv, DnsInv
<1> QED
  BY <1>1, JobsAgree, PTL

-----------------------------------------------------------------------------
\* What a listing does to the zones, as a whole.
LEMMA ZonesReplaced ==
  ASSUME NEW p \in Providers, NEW found \in SUBSET Zones
  PROVE  LET after == ReplacedZones(p, found) IN
         /\ Conflicts(p, found) = {} => {z \in Zones : after[z] = p} = found
         /\ \A z \in Zones : after[z] # owner[z] => {owner[z], after[z]} \subseteq {p, None}
BY DnsAssumption DEF ReplacedZones, Conflicts

\* What a step may do to the zones while a job runs.
Replaces(j) ==
  refreshJob[j].status = "running" =>
    LET p == refreshJob[j].provider IN
    /\ refreshJob'[j].status = "succeeded" =>
         \E w \in Refreshers : refresher[w].job = j /\ {z \in Zones : owner'[z] = p} = refresher[w].listing.found
    /\ refreshJob'[j].status = "failed" => owner' = owner
    /\ \A z \in Zones : owner'[z] # owner[z] => {owner[z], owner'[z]} \subseteq {p, None} \/ refreshJob'[j] = refreshJob[j]

\* The zones are those that were listed exactly when the job succeeds.
LEMMA SuccessReplaces ==
  ASSUME RefreshInv, NEW w \in Refreshers, CompleteRefreshJobSuccess(w), NEW j \in RefreshJobs
  PROVE  Replaces(j)
<1> USE DEF RefreshInv
<1>1. PICK k \in RefreshJobs : k = refresher[w].job
  BY DEF CompleteRefreshJobSuccess, Records, RefreshersHold
<1>2. PICK p \in Providers : p = refreshJob[k].provider
  BY <1>1 DEF CompleteRefreshJobSuccess, HoldsLease, JobsBelong, Active
<1>3. PICK found \in SUBSET Zones : found = refresher[w].listing.found
  BY DnsAssumption DEF DnsTypeOK, RefresherRows, discoverProviderZones
<1>4. owner' = ReplacedZones(p, found)
  BY <1>1, <1>2, <1>3 DEF CompleteRefreshJobSuccess
<1>5. CASE j # k
  <2>1. refreshJob'[j] = refreshJob[j]
    BY <1>1, <1>5 DEF CompleteRefreshJobSuccess, Finishes, DnsTypeOK
  <2> QED
    BY <2>1 DEF Replaces
<1>6. CASE j = k /\ Conflicts(p, found) # {}
  <2>1. owner' = owner
    BY <1>4, <1>6 DEF ReplacedZones
  <2>2. refreshJob'[j].status = "failed"
    BY <1>1, <1>2, <1>3, <1>6 DEF CompleteRefreshJobSuccess, Finishes, DnsTypeOK, JobRows
  <2> QED
    BY <2>1, <2>2 DEF Replaces
<1>7. CASE j = k /\ Conflicts(p, found) = {}
  <2>1. refreshJob'[j].status = "succeeded"
    BY <1>1, <1>2, <1>3, <1>7 DEF CompleteRefreshJobSuccess, Finishes, DnsTypeOK, JobRows
  <2>2. /\ {z \in Zones : owner'[z] = p} = found
        /\ \A z \in Zones : owner'[z] # owner[z] => {owner[z], owner'[z]} \subseteq {p, None}
    BY <1>4, <1>7, ZonesReplaced
  <2> QED
    BY <1>1, <1>2, <1>3, <1>7, <2>1, <2>2 DEF Replaces
<1> QED
  BY <1>5, <1>6, <1>7

\* Nobody else finishes a job as succeeded, or touches the zones and the job.
LEMMA StepReplaces ==
  ASSUME RefreshInv, [DnsNext]_dnsVars, NEW j \in RefreshJobs
  PROVE  Replaces(j)
<1>1. CASE \E w \in Refreshers : CompleteRefreshJobSuccess(w)
  BY <1>1, SuccessReplaces
<1>2. CASE serveDNSProviders
  <2>1. UNCHANGED refreshJob
    BY <1>2 DEF serveDNSProviders, handleCreateDNSProvider, createProvider, handlePatchDNSProvider,
           updateProvider, handleCreateDNSProviderZone, addZone, handleDeleteDNSProviderZone, deleteZone,
           handleRefreshDNSProviderZones, refreshZones
  <2> QED
    BY <2>1 DEF Replaces
<1>3. ASSUME NEW r \in Requests, EnsureRefreshJob(r)
      PROVE  Replaces(j)
  <2>1. refreshJob'[j] = refreshJob[j] \/ refreshJob'[j].status = "pending"
    BY <1>3 DEF EnsureRefreshJob, EnsureJob, RefreshInv, DnsTypeOK, NoJob
  <2> QED
    BY <1>3, <2>1 DEF EnsureRefreshJob, Replaces
<1>4. ASSUME NEW w \in Refreshers, NEW k \in RefreshJobs, ClaimNextRefreshJob(w, k)
      PROVE  Replaces(j)
  <2>1. refreshJob'[j] = refreshJob[j] \/ refreshJob'[j].status = "running"
    BY <1>4 DEF ClaimNextRefreshJob, RefreshInv, DnsTypeOK, JobRows
  <2> QED
    BY <1>4, <2>1 DEF ClaimNextRefreshJob, Replaces
<1>5. ASSUME NEW w \in Refreshers, LeaseLost(w) \/ UniqueViolation(w) \/ RefresherStops(w)
      PROVE  Replaces(j)
  BY <1>5 DEF LeaseLost, UniqueViolation, RefresherStops, Replaces
<1>6. ASSUME NEW w \in Refreshers, FailRefreshJob(w)
      PROVE  Replaces(j)
  <2>1. refreshJob'[j] = refreshJob[j] \/ refreshJob'[j].status = "failed"
    BY <1>6 DEF FailRefreshJob, Finishes, RefreshInv, DnsTypeOK, JobRows
  <2> QED
    BY <1>6, <2>1 DEF FailRefreshJob, Replaces
<1>7. ASSUME NEW k \in RefreshJobs, LeaseExpires(k) \/ AbandonedLeaseExpires(k)
      PROVE  Replaces(j)
  <2>1. refreshJob'[j].status = refreshJob[j].status
    BY <1>7 DEF LeaseExpires, AbandonedLeaseExpires, Expire, RefreshInv, DnsTypeOK, JobRows
  <2> QED
    BY <1>7, <2>1 DEF LeaseExpires, AbandonedLeaseExpires, Expire, Replaces
<1>8. CASE UNCHANGED dnsVars
  BY <1>8 DEF Replaces, dnsVars
<1> QED
  BY <1>1, <1>2, <1>3, <1>4, <1>5, <1>6, <1>7, <1>8 DEF DnsNext, CompleteNextRefreshJob

\* A refresh replaces the zones of its provider as a whole, and never takes one
\* from another provider.
THEOREM RefreshSafe == DnsSpec => RefreshReplacesAllOrNothing
<1>1. ASSUME RefreshInv, [DnsNext]_dnsVars
      PROVE  [\A j \in RefreshJobs : Replaces(j)]_dnsVars
  BY <1>1, StepReplaces
<1> QED
  BY <1>1, JobsAgree, PTL DEF DnsSpec, RefreshReplacesAllOrNothing, Replaces

-----------------------------------------------------------------------------
\* Calls of providers for challenges (ChallengeDns).

\* The local state x of a call: one that creates has found nothing to delete.
CallOK(x) ==
  /\ x = [op |-> x.op, challenge |-> x.challenge, pc |-> x.pc,
          attempt |-> x.attempt, todo |-> x.todo]
  /\ x.pc \in Rest \cup {"list", "write"} /\ x.attempt \in 1..MaxAttempts
  /\ \A r \in x.todo : r.value = x.challenge
  /\ x.pc \notin Rest => x.challenge \in Challenges /\ x.op \in {"Present", "CleanUp"}
  /\ x.pc = "write" /\ x.op = "Present" => x.todo = {}

\* A call x that writes knows the records of its value.
Knows(x, own) ==
  x.pc = "write" => IF x.op = "Present" THEN own = {} ELSE own \subseteq x.todo

\* Nothing disturbs the one call of a challenge.
Undisturbed(c) ==
  /\ \A w \in late : w.record.value # c
  /\ \A p \in Callers, q \in Callers : InCall(p, c) /\ InCall(q, c) => p = q
  /\ \A p \in Callers : InCall(p, c) => Knows(call[p], RecordsOf(c))

RecordsInv ==
  /\ \A r \in records : r.value \in Challenges \cup Elsewhere
  /\ \A w \in late : w.record.value \in Challenges
  /\ call = [p \in Callers |-> call[p]]
  /\ \A p \in Callers : CallOK(call[p])
  /\ calm \in [Challenges -> BOOLEAN]
  /\ \A c \in Challenges : calm[c] => Undisturbed(c)

LEMMA IdleCall == CallOK(Idle) /\ Idle.pc = "idle"
BY RecordsAssumption DEF CallOK, Idle, Rest

LEMMA RecordsInitHolds == RecordsInit => RecordsInv
<1> SUFFICES ASSUME RecordsInit
             PROVE  RecordsInv
  OBVIOUS
<1> USE IdleCall DEF RecordsInit
<1>1. \A p \in Callers : CallOK(call[p]) /\ call[p].pc \in Rest
  BY DEF Rest
<1>2. \A r \in records : r.value \in Elsewhere
  OBVIOUS
<1>3. \A c \in Challenges : Undisturbed(c)
  BY <1>1 DEF Undisturbed, InCall
<1> QED
  BY <1>1, <1>2, <1>3 DEF RecordsInv

\* What changed on the way of a call from x to y: the records of its challenge,
\* and nothing it has sent is late while the challenge is calm.
Moved(p, x, y) ==
  /\ call' = [call EXCEPT ![p] = y]
  /\ CallOK(y) /\ y.challenge = x.challenge
  /\ calm' \in [Challenges -> BOOLEAN]
  /\ \A c \in Challenges : calm'[c] => calm[c]
  /\ \A r : r.value # x.challenge => (r \in records' <=> r \in records)
  /\ \A r \in records' : r \in records \/ r.value = x.challenge
  /\ \A w \in late' : w \in late \/ (w.record.value = x.challenge /\ ~calm'[x.challenge])
  /\ calm'[x.challenge] => Knows(y, {r \in records' : r.value = x.challenge})

LEMMA MovedHolds ==
  ASSUME RecordsInv, NEW p \in Callers, NEW x, x = call[p], x.pc \notin Rest,
         NEW y, Moved(p, x, y)
  PROVE  RecordsInv'
<1> USE DEF RecordsInv
<1>1. /\ call'[p] = y /\ \A q \in Callers \ {p} : call'[q] = call[q]
      /\ call' = [q \in Callers |-> call'[q]]
  BY DEF Moved
<1>2. CallOK(x) /\ x.challenge \in Challenges
  BY DEF CallOK
<1>3. \A q \in Callers : CallOK(call'[q])
  BY <1>1 DEF Moved
<1>4. /\ \A r \in records' : r.value \in Challenges \cup Elsewhere
      /\ \A w \in late' : w.record.value \in Challenges
  BY <1>2 DEF Moved
<1>5. ASSUME NEW c \in Challenges, calm'[c]
      PROVE  Undisturbed(c)'
  <2>1. Undisturbed(c)
    BY <1>5 DEF Moved
  <2>2. \A w \in late' : w.record.value # c
    BY <1>5, <2>1 DEF Moved, Undisturbed
  <2>3. \A q \in Callers : InCall(q, c)' => InCall(q, c)
    BY <1>1 DEF Moved, InCall
  <2>4. \A q \in Callers, s \in Callers : InCall(q, c)' /\ InCall(s, c)' => q = s
    BY <2>1, <2>3 DEF Undisturbed
  <2>5. ASSUME NEW q \in Callers, InCall(q, c)'
        PROVE  Knows(call'[q], RecordsOf(c)')
    <3>1. CASE q = p
      <4>1. c = x.challenge
        BY <1>1, <2>5, <3>1 DEF InCall, Moved
      <4> QED
        BY <1>1, <1>5, <3>1, <4>1 DEF Moved, RecordsOf
    <3>2. CASE q # p
      <4>1. InCall(q, c) /\ call'[q] = call[q]
        BY <1>1, <2>3, <2>5, <3>2
      <4>2. c # x.challenge
        BY <2>1, <3>2, <4>1 DEF Undisturbed, InCall
      <4>3. RecordsOf(c)' = RecordsOf(c)
        BY <4>2 DEF Moved, RecordsOf
      <4> QED
        BY <2>1, <4>1, <4>3 DEF Undisturbed
    <3> QED
      BY <3>1, <3>2
  <2>6. \A q \in Callers : InCall(q, c)' => Knows(call[q], RecordsOf(c))'
    BY <2>5 DEF Knows
  <2> QED
    BY <2>2, <2>4, <2>6 DEF Undisturbed
<1>6. \A q \in Callers : CallOK(call[q])'
  BY <1>3
<1>7. calm' \in [Challenges -> BOOLEAN]
  BY DEF Moved
<1> HIDE DEF Moved
<1> QED
  BY <1>1, <1>4, <1>5, <1>6, <1>7

\* A request that fails leaves the call of its caller in order.
LEMMA FailsMoves ==
  ASSUME NEW p \in Callers, NEW x, x = call[p], CallOK(x), x.pc \notin Rest, Fails(p)
  PROVE  \E y : /\ call' = [call EXCEPT ![p] = y]
                /\ CallOK(y) /\ y.challenge = x.challenge /\ y.pc \in {"list", "failed"}
<1>1. CASE call[p].attempt < MaxAttempts /\ call' = [call EXCEPT ![p] =
              [call[p] EXCEPT !.pc = "list", !.attempt = @ + 1, !.todo = {}]]
  <2>1. PICK y : y = [x EXCEPT !.pc = "list", !.attempt = @ + 1, !.todo = {}]
    OBVIOUS
  <2>2. y = [op |-> x.op, challenge |-> x.challenge, pc |-> "list",
             attempt |-> x.attempt + 1, todo |-> {}]
    BY <2>1 DEF CallOK
  <2>3. x.attempt + 1 \in 1..MaxAttempts
    BY <1>1, RecordsAssumption DEF CallOK
  <2>4. CallOK(y) /\ y.challenge = x.challenge /\ y.pc = "list"
    BY <2>2, <2>3 DEF CallOK, Rest
  <2> QED
    BY <1>1, <2>1, <2>4
<1>2. CASE call' = [call EXCEPT ![p] = [call[p] EXCEPT !.pc = "failed", !.todo = {}]]
  <2>1. PICK y : y = [x EXCEPT !.pc = "failed", !.todo = {}]
    OBVIOUS
  <2>2. y = [op |-> x.op, challenge |-> x.challenge, pc |-> "failed",
             attempt |-> x.attempt, todo |-> {}]
    BY <2>1 DEF CallOK
  <2>3. CallOK(y) /\ y.challenge = x.challenge /\ y.pc = "failed"
    BY <2>2 DEF CallOK, Rest
  <2> QED
    BY <1>2, <2>1, <2>3
<1> QED
  BY <1>1, <1>2 DEF Fails, TryAgain, Ends, Become

\* What a page shows is there.
LEMMA PagesShowRecords == ASSUME NEW page \in Pages PROVE page \subseteq records
BY DEF Pages, kSubset

\* What a step of a call keeps of the records and promises of its answer.
Answered(p, x, y) ==
  /\ \A r : r.value # x.challenge => (r \in records' <=> r \in records)
  /\ y.pc = "ok" =>
       IF x.op = "Present" THEN \E r \in records' : r.value = x.challenge
       ELSE calm'[x.challenge] => \A r \in records' : r.value # x.challenge
  /\ calm'[x.challenge] /\ RecordsOf(x.challenge) # {} =>
       \A r \in records' : r.value = x.challenge => r \in records

LEMMA ListMoves ==
  ASSUME RecordsInv, NEW p \in Callers, NEW x, x = call[p], ListRecords(p)
  PROVE  x.pc \notin Rest /\ \E y : Moved(p, x, y) /\ Answered(p, x, y)
<1> USE DEF RecordsInv
<1>1. CallOK(x) /\ x.pc = "list" /\ x.pc \notin Rest /\ x.challenge \in Challenges
      /\ UNCHANGED <<records, late>>
  BY DEF ListRecords, CallOK, Rest
<1>2. CASE Fails(p) /\ UNCHANGED calm
  <2>1. PICK y : /\ call' = [call EXCEPT ![p] = y]
                 /\ CallOK(y) /\ y.challenge = x.challenge /\ y.pc \in {"list", "failed"}
    BY <1>1, <1>2, FailsMoves
  <2>2. Moved(p, x, y)
    BY <1>1, <1>2, <2>1 DEF Moved, Knows
  <2>3. Answered(p, x, y)
    BY <1>1, <2>1 DEF Answered
  <2> QED
    BY <1>1, <2>2, <2>3
<1>3. CASE \E page \in Pages :
             LET c == call[p].challenge
                 found == Matching(c, page)
             IN  /\ calm' = [calm EXCEPT ![c] = @ /\ page = records]
                 /\ IF (call[p].op = "Present") = (found = {})
                    THEN Become(p, [call[p] EXCEPT !.pc = "write", !.todo = found])
                    ELSE Ends(p, "ok")
  <2>1. PICK page \in Pages :
             LET c == call[p].challenge
                 found == Matching(c, page)
             IN  /\ calm' = [calm EXCEPT ![c] = @ /\ page = records]
                 /\ IF (call[p].op = "Present") = (found = {})
                    THEN Become(p, [call[p] EXCEPT !.pc = "write", !.todo = found])
                    ELSE Ends(p, "ok")
    BY <1>3
  <2>2. PICK found : found = Matching(x.challenge, page)
    OBVIOUS
  <2>3. found = {r \in page : r.value = x.challenge} /\ page \subseteq records
    BY <2>2, PagesShowRecords DEF Matching
  <2>4. /\ calm' \in [Challenges -> BOOLEAN]
        /\ \A c \in Challenges : calm'[c] => calm[c]
        /\ calm'[x.challenge] => page = records
    BY <1>1, <2>1
  <2>5. CASE (x.op = "Present") = (found = {})
    <3>1. PICK y : y = [x EXCEPT !.pc = "write", !.todo = found]
      OBVIOUS
    <3>2. call' = [call EXCEPT ![p] = y]
      BY <2>1, <2>2, <2>5, <3>1 DEF Become
    <3>3. y = [op |-> x.op, challenge |-> x.challenge, pc |-> "write",
               attempt |-> x.attempt, todo |-> found]
      BY <1>1, <3>1 DEF CallOK
    <3>4. CallOK(y)
      BY <1>1, <2>3, <2>5, <3>3 DEF CallOK, Rest
    <3>5. calm'[x.challenge] => Knows(y, {r \in records' : r.value = x.challenge})
      BY <1>1, <2>3, <2>4, <2>5, <3>3 DEF Knows
    <3>6. Moved(p, x, y)
      BY <1>1, <2>4, <3>2, <3>3, <3>4, <3>5 DEF Moved
    <3>7. Answered(p, x, y)
      BY <1>1, <3>3 DEF Answered
    <3> QED
      BY <1>1, <3>6, <3>7
  <2>6. CASE ~((x.op = "Present") = (found = {}))
    <3>1. PICK y : y = [x EXCEPT !.pc = "ok", !.todo = {}]
      OBVIOUS
    <3>2. call' = [call EXCEPT ![p] = y]
      BY <2>1, <2>2, <2>6, <3>1 DEF Ends, Become
    <3>3. y = [op |-> x.op, challenge |-> x.challenge, pc |-> "ok",
               attempt |-> x.attempt, todo |-> {}]
      BY <1>1, <3>1 DEF CallOK
    <3>4. CallOK(y)
      BY <1>1, <3>3 DEF CallOK, Rest
    <3>5. Moved(p, x, y)
      BY <1>1, <2>4, <3>2, <3>3, <3>4 DEF Moved, Knows
    <3>6. CASE x.op = "Present"
      <4>1. \E r \in records : r.value = x.challenge
        BY <2>3, <2>6, <3>6
      <4> QED
        BY <1>1, <3>3, <3>5, <3>6, <4>1 DEF Answered
    <3>7. CASE x.op # "Present"
      <4>1. found = {}
        BY <2>6, <3>7
      <4>2. calm'[x.challenge] => \A r \in records : r.value # x.challenge
        BY <2>3, <2>4, <4>1
      <4> QED
        BY <1>1, <3>3, <3>5, <3>7, <4>2 DEF Answered
    <3> QED
      BY <3>6, <3>7
  <2> QED
    BY <2>5, <2>6
<1> QED
  BY <1>2, <1>3 DEF ListRecords

\* A request of a call x that writes, on the record of w.
LEMMA WriteMoves ==
  ASSUME RecordsInv, NEW p \in Callers, NEW x, x = call[p], x.pc = "write",
         NEW w, w.op = x.op, w.record.value = x.challenge,
         x.op = "CleanUp" => w.record \in x.todo, Write(p, w)
  PROVE  \E y : Moved(p, x, y) /\ Answered(p, x, y)
<1> USE DEF RecordsInv
<1>1. /\ CallOK(x) /\ x.pc \notin Rest /\ x.challenge \in Challenges
      /\ x.op \in {"Present", "CleanUp"}
  BY DEF CallOK, Rest
<1>2. calm[x.challenge] => Knows(x, RecordsOf(x.challenge))
  BY <1>1 DEF Undisturbed, InCall
<1>3. ASSUME records' \in Sent(w) \cup {records}
      PROVE  /\ \A r : r.value # x.challenge => (r \in records' <=> r \in records)
             /\ \A r \in records' : r \in records \/ r.value = x.challenge
             /\ calm[x.challenge] /\ RecordsOf(x.challenge) # {} =>
                  \A r \in records' : r.value = x.challenge => r \in records
  <2>1. CASE records' = records
    BY <2>1
  <2>2. CASE x.op = "Present" /\ records' = records \cup {w.record}
    BY <1>2, <2>2 DEF Knows
  <2>3. CASE x.op # "Present" /\ records' = records \ {w.record}
    BY <2>3
  <2> QED
    BY <1>3, <2>1, <2>2, <2>3 DEF Sent, Applied
<1>4. CASE /\ w.op = "Present" \/ w.record \in records
           /\ records' \in Sent(w)
           /\ IF call[p].todo \subseteq {w.record}
              THEN Ends(p, "ok")
              ELSE Become(p, [call[p] EXCEPT !.todo = @ \ {w.record}])
           /\ UNCHANGED <<late, calm>>
  <2>1. /\ records' = IF x.op = "Present" THEN records \cup {w.record} ELSE records \ {w.record}
        /\ records' \in Sent(w) \cup {records}
    BY <1>4 DEF Sent, Applied
  <2>2. CASE x.todo \subseteq {w.record}
    <3>1. PICK y : y = [x EXCEPT !.pc = "ok", !.todo = {}]
      OBVIOUS
    <3>2. call' = [call EXCEPT ![p] = y]
      BY <1>4, <2>2, <3>1 DEF Ends, Become
    <3>3. y = [op |-> x.op, challenge |-> x.challenge, pc |-> "ok",
               attempt |-> x.attempt, todo |-> {}]
      BY <1>1, <3>1 DEF CallOK
    <3>4. CallOK(y)
      BY <1>1, <3>3 DEF CallOK, Rest
    <3>5. Moved(p, x, y)
      BY <1>3, <1>4, <2>1, <3>2, <3>3, <3>4 DEF Moved, Knows
    <3>6. x.op = "Present" => \E r \in records' : r.value = x.challenge
      BY <2>1
    <3>7. x.op # "Present" /\ calm[x.challenge] => \A r \in records' : r.value # x.challenge
      BY <1>2, <2>1, <2>2 DEF Knows, RecordsOf
    <3> QED
      BY <1>3, <1>4, <2>1, <3>3, <3>5, <3>6, <3>7 DEF Answered
  <2>3. CASE ~(x.todo \subseteq {w.record})
    <3>1. PICK y : y = [x EXCEPT !.todo = @ \ {w.record}]
      OBVIOUS
    <3>2. call' = [call EXCEPT ![p] = y]
      BY <1>4, <2>3, <3>1 DEF Become
    <3>3. x.op = "CleanUp"
      BY <1>1, <2>3 DEF CallOK
    <3>4. y = [op |-> x.op, challenge |-> x.challenge, pc |-> "write",
               attempt |-> x.attempt, todo |-> x.todo \ {w.record}]
      BY <1>1, <3>1 DEF CallOK
    <3>5. CallOK(y)
      BY <1>1, <3>3, <3>4 DEF CallOK, Rest
    <3>6. calm'[x.challenge] => Knows(y, {r \in records' : r.value = x.challenge})
      BY <1>2, <1>4, <2>1, <3>3, <3>4 DEF Knows, RecordsOf
    <3>7. Moved(p, x, y)
      BY <1>3, <1>4, <2>1, <3>2, <3>4, <3>5, <3>6 DEF Moved
    <3> QED
      BY <1>3, <1>4, <2>1, <3>4, <3>7 DEF Answered
  <2> QED
    BY <2>2, <2>3
<1>5. CASE records' \in Sent(w) \cup {records} /\ Fails(p) /\ UNCHANGED <<late, calm>>
  <2>1. PICK y : /\ call' = [call EXCEPT ![p] = y]
                 /\ CallOK(y) /\ y.challenge = x.challenge /\ y.pc \in {"list", "failed"}
    BY <1>1, <1>5, FailsMoves
  <2>2. Moved(p, x, y)
    BY <1>3, <1>5, <2>1 DEF Moved, Knows
  <2>3. Answered(p, x, y)
    BY <1>3, <1>5, <2>1 DEF Answered
  <2> QED
    BY <2>2, <2>3
<1>6. CASE /\ late' = late \cup {w}
           /\ calm' = [calm EXCEPT ![w.record.value] = FALSE]
           /\ Fails(p) /\ UNCHANGED records
  <2>1. PICK y : /\ call' = [call EXCEPT ![p] = y]
                 /\ CallOK(y) /\ y.challenge = x.challenge /\ y.pc \in {"list", "failed"}
    BY <1>1, <1>6, FailsMoves
  <2>2. /\ calm' \in [Challenges -> BOOLEAN] /\ ~calm'[x.challenge]
        /\ \A c \in Challenges : calm'[c] => calm[c]
    BY <1>1, <1>6
  <2>3. Moved(p, x, y)
    BY <1>6, <2>1, <2>2 DEF Moved
  <2>4. Answered(p, x, y)
    BY <1>6, <2>1 DEF Answered
  <2> QED
    BY <2>3, <2>4
<1> QED
  BY <1>4, <1>5, <1>6 DEF Write

\* Each step of a call moves it, and keeps what it answers.
LEMMA CallMoves ==
  ASSUME RecordsInv, NEW p \in Callers, NEW x, x = call[p], CallStep(p)
  PROVE  x.pc \notin Rest /\ \E y : Moved(p, x, y) /\ Answered(p, x, y)
<1>1. CallOK(x)
  BY DEF RecordsInv
<1>2. CASE ListRecords(p)
  BY <1>2, ListMoves
<1>3. CASE CreateRecord(p)
  <2>1. PICK w : w = [op |-> "Present", record |-> NewRecord(x.challenge)]
    OBVIOUS
  <2>2. w.op = x.op /\ w.record.value = x.challenge /\ x.pc = "write" /\ x.op = "Present"
    BY <1>3, <2>1 DEF CreateRecord, NewRecord
  <2>3. Write(p, w)
    BY <1>3, <2>1 DEF CreateRecord
  <2> QED
    BY <2>2, <2>3, WriteMoves DEF Rest
<1>4. CASE \E r \in call[p].todo : DeleteRecord(p, r)
  <2>1. PICK r \in x.todo : DeleteRecord(p, r)
    BY <1>4
  <2>2. PICK w : w = [op |-> "CleanUp", record |-> r]
    OBVIOUS
  <2>3. w.op = x.op /\ w.record.value = x.challenge /\ x.pc = "write" /\ w.record \in x.todo
    BY <1>1, <2>1, <2>2 DEF DeleteRecord, CallOK
  <2>4. Write(p, w)
    BY <2>1, <2>2 DEF DeleteRecord
  <2> QED
    BY <2>3, <2>4, WriteMoves DEF Rest
<1> QED
  BY <1>2, <1>3, <1>4 DEF CallStep

\* Every record, call and late request stays one that the code makes; a call
\* answers what is true, and touches no record of another value.
RecordsKept ==
  /\ \A p \in Callers :
       call[p].pc \notin Rest /\ call'[p].pc = "ok" =>
         LET left == {r \in records' : r.value = call[p].challenge} IN
         IF call[p].op = "Present" THEN left # {}
         ELSE calm'[call[p].challenge] => left = {}
  /\ \A c \in Challenges :
       calm'[c] /\ RecordsOf(c) # {} =>
         {r \in records' : r.value = c} \subseteq RecordsOf(c)

OwnRecordsOnly ==
  \A r \in (records \ records') \cup (records' \ records) :
    \/ \E p \in Callers : InCall(p, r.value)
    \/ \E w \in late : w.record = r

LEMMA CallStepKeeps ==
  ASSUME RecordsInv, NEW p \in Callers, CallStep(p)
  PROVE  RecordsInv' /\ RecordsKept /\ OwnRecordsOnly
<1>1. PICK x : x = call[p]
  OBVIOUS
<1>2. PICK y : x.pc \notin Rest /\ Moved(p, x, y) /\ Answered(p, x, y)
  BY <1>1, CallMoves
<1>3. call'[p] = y /\ \A q \in Callers \ {p} : call'[q] = call[q]
  BY <1>2 DEF Moved, RecordsInv
<1>4. ASSUME NEW q \in Callers, call[q].pc \notin Rest, call'[q].pc = "ok"
      PROVE  LET left == {r \in records' : r.value = call[q].challenge} IN
             IF call[q].op = "Present" THEN left # {}
             ELSE calm'[call[q].challenge] => left = {}
  <2>1. q = p
    BY <1>3, <1>4 DEF Rest
  <2> QED
    BY <1>1, <1>2, <1>3, <1>4, <2>1 DEF Answered
<1>5. ASSUME NEW c \in Challenges, calm'[c], RecordsOf(c) # {}
      PROVE  {r \in records' : r.value = c} \subseteq RecordsOf(c)
  BY <1>2, <1>5 DEF Answered, RecordsOf
<1>6. OwnRecordsOnly
  <2> SUFFICES ASSUME NEW r \in (records \ records') \cup (records' \ records)
               PROVE  InCall(p, r.value)
    BY DEF OwnRecordsOnly
  <2>1. r.value = x.challenge
    BY <1>2 DEF Moved
  <2> QED
    BY <1>1, <1>2, <2>1 DEF InCall
<1>7. RecordsInv'
  BY <1>1, <1>2, MovedHolds
<1> QED
  BY <1>4, <1>5, <1>6, <1>7 DEF RecordsKept

\* A call begins: nothing of its challenge is under way, or it is not calm.
LEMMA BeginCallKeeps ==
  ASSUME RecordsInv, NEW p \in Callers, NEW op \in {"Present", "CleanUp"},
         NEW c \in Challenges, BeginCall(p, op, c)
  PROVE  RecordsInv' /\ RecordsKept /\ OwnRecordsOnly
<1> USE DEF RecordsInv
<1>1. PICK y : y = [Idle EXCEPT !.op = op, !.challenge = c, !.pc = "list"]
  OBVIOUS
<1>2. y = [op |-> op, challenge |-> c, pc |-> "list", attempt |-> 1, todo |-> {}]
  BY <1>1 DEF Idle
<1>3. CallOK(y)
  BY <1>2, RecordsAssumption DEF CallOK, Rest
<1>4. /\ call' = [call EXCEPT ![p] = y]
      /\ call[p].pc \in Rest
      /\ UNCHANGED <<records, late>>
  BY <1>1 DEF BeginCall
<1>5. /\ call'[p] = y /\ \A q \in Callers \ {p} : call'[q] = call[q]
      /\ call' = [q \in Callers |-> call'[q]]
  BY <1>4
<1>6. /\ calm' \in [Challenges -> BOOLEAN]
      /\ \A d \in Challenges \ {c} : calm'[d] = calm[d]
      /\ calm'[c] => /\ \A q \in Callers : ~InCall(q, c)
                     /\ \A w \in late : w.record.value # c
  BY DEF BeginCall
<1>7. \A q \in Callers : CallOK(call'[q])
  BY <1>3, <1>5
<1>8. ASSUME NEW d \in Challenges, calm'[d]
      PROVE  Undisturbed(d)'
  <2>1. /\ \A w \in late : w.record.value # d
        /\ \A q \in Callers : InCall(q, d) => c # d /\ Knows(call[q], RecordsOf(d))
        /\ \A q \in Callers, s \in Callers : InCall(q, d) /\ InCall(s, d) => q = s
    BY <1>6, <1>8 DEF Undisturbed
  <2>2. /\ \A w \in late' : w.record.value # d
        /\ RecordsOf(d)' = RecordsOf(d)
    BY <1>4, <2>1 DEF RecordsOf
  <2>3. \A q \in Callers : InCall(q, d)' <=> IF q = p THEN c = d ELSE InCall(q, d)
    BY <1>2, <1>5 DEF InCall, Rest
  <2>4. \A q \in Callers, s \in Callers : InCall(q, d)' /\ InCall(s, d)' => q = s
    BY <1>4, <2>1, <2>3 DEF InCall
  <2>5. \A q \in Callers : InCall(q, d)' => Knows(call'[q], RecordsOf(d)')
    BY <1>2, <1>5, <2>1, <2>2, <2>3 DEF Knows
  <2>6. \A q \in Callers : InCall(q, d)' => Knows(call[q], RecordsOf(d))'
    BY <2>5 DEF Knows
  <2> QED
    BY <2>2, <2>4, <2>6 DEF Undisturbed
<1>9. \A q \in Callers : CallOK(call[q])'
  BY <1>7
<1>10. RecordsInv'
  BY <1>4, <1>5, <1>6, <1>8, <1>9
<1>11. RecordsKept
  BY <1>4, <1>5 DEF RecordsKept, RecordsOf, Rest
<1>12. OwnRecordsOnly
  BY <1>4 DEF OwnRecordsOnly
<1> QED
  BY <1>10, <1>11, <1>12

\* The process of a call dies: the record it made, or did not delete, stays.
LEMMA CallerStopsKeeps ==
  ASSUME RecordsInv, NEW p \in Callers, CallerStops(p)
  PROVE  RecordsInv' /\ RecordsKept /\ OwnRecordsOnly
<1> USE DEF RecordsInv
<1>1. /\ call' = [call EXCEPT ![p] = Idle]
      /\ UNCHANGED <<records, late, calm>>
  BY DEF CallerStops, Become
<1>2. /\ call'[p] = Idle /\ \A q \in Callers \ {p} : call'[q] = call[q]
      /\ call' = [q \in Callers |-> call'[q]]
  BY <1>1
<1>3. \A q \in Callers : CallOK(call'[q])
  BY <1>2, IdleCall
<1>4. ASSUME NEW c \in Challenges, calm'[c]
      PROVE  Undisturbed(c)'
  <2>1. Undisturbed(c) /\ RecordsOf(c)' = RecordsOf(c) /\ late' = late
    BY <1>1, <1>4 DEF RecordsOf
  <2>2. \A q \in Callers : InCall(q, c)' => InCall(q, c) /\ call'[q] = call[q]
    BY <1>2, IdleCall DEF InCall, Rest
  <2>3. \A q \in Callers : InCall(q, c)' => Knows(call'[q], RecordsOf(c)')
    BY <2>1, <2>2 DEF Undisturbed
  <2>4. \A q \in Callers : InCall(q, c)' => Knows(call[q], RecordsOf(c))'
    BY <2>3 DEF Knows
  <2> QED
    BY <2>1, <2>2, <2>4 DEF Undisturbed
<1>5. \A q \in Callers : CallOK(call[q])'
  BY <1>3
<1>6. RecordsInv'
  BY <1>1, <1>2, <1>4, <1>5
<1>7. RecordsKept
  BY <1>1, <1>2, IdleCall DEF RecordsKept, RecordsOf, Rest
<1>8. OwnRecordsOnly
  BY <1>1 DEF OwnRecordsOnly
<1> QED
  BY <1>6, <1>7, <1>8

\* A late request takes effect, or is lost: its challenge has not been calm.
LEMMA LateRequestKeeps ==
  ASSUME RecordsInv, NEW w \in late, LateRequest(w)
  PROVE  RecordsInv' /\ RecordsKept /\ OwnRecordsOnly
<1> USE DEF RecordsInv
<1>1. /\ late' = late \ {w} /\ UNCHANGED <<call, calm>>
      /\ records' \in {records \cup {w.record}, records \ {w.record}, records}
  BY DEF LateRequest, Applied
<1>2. w.record.value \in Challenges /\ ~calm[w.record.value]
  BY DEF Undisturbed
<1>3. /\ \A r : r # w.record => (r \in records' <=> r \in records)
      /\ \A r \in records' : r \in records \/ r = w.record
  BY <1>1
<1>4. \A c \in Challenges : calm[c] => RecordsOf(c)' = RecordsOf(c)
  BY <1>2, <1>3 DEF RecordsOf
<1>5. ASSUME NEW c \in Challenges, calm'[c]
      PROVE  Undisturbed(c)'
  <2>1. Undisturbed(c) /\ RecordsOf(c)' = RecordsOf(c)
    BY <1>1, <1>4, <1>5
  <2>2. \A q \in Callers : InCall(q, c)' <=> InCall(q, c)
    BY <1>1 DEF InCall
  <2>3. \A q \in Callers : InCall(q, c)' => Knows(call'[q], RecordsOf(c)')
    BY <1>1, <2>1, <2>2 DEF Undisturbed
  <2>4. \A q \in Callers : InCall(q, c)' => Knows(call[q], RecordsOf(c))'
    BY <2>3 DEF Knows
  <2> QED
    BY <1>1, <2>1, <2>2, <2>4 DEF Undisturbed
<1>6. \A q \in Callers : CallOK(call[q])'
  <2>1. \A q \in Callers : CallOK(call'[q])
    BY <1>1
  <2> QED
    BY <2>1
<1>7. /\ \A r \in records' : r.value \in Challenges \cup Elsewhere
      /\ \A v \in late' : v.record.value \in Challenges
      /\ call' = [p \in Callers |-> call'[p]] /\ calm' \in [Challenges -> BOOLEAN]
  BY <1>1, <1>2, <1>3
<1>8. RecordsInv'
  BY <1>5, <1>6, <1>7
<1>9. RecordsKept
  BY <1>1, <1>4 DEF RecordsKept, RecordsOf, Rest
<1>10. OwnRecordsOnly
  BY <1>3 DEF OwnRecordsOnly
<1> QED
  BY <1>8, <1>9, <1>10

\* While nothing happens at providers, everything stays.
LEMMA RecordsStay ==
  ASSUME RecordsInv, UNCHANGED recordVars
  PROVE  RecordsInv'
<1>1. \A q \in Callers : CallOK(call[q])'
  <2>1. \A q \in Callers : CallOK(call'[q])
    BY DEF RecordsInv, recordVars
  <2> QED
    BY <2>1
<1>2. \A c \in Challenges : calm'[c] => Undisturbed(c)'
  BY DEF RecordsInv, recordVars, Undisturbed, InCall, Knows, RecordsOf
<1> QED
  BY <1>1, <1>2 DEF RecordsInv, recordVars

LEMMA RecordsStep ==
  ASSUME RecordsInv, [Next]_vars
  PROVE  RecordsInv' /\ [RecordsKept]_recordVars /\ [OwnRecordsOnly]_recordVars
<1>1. CASE UNCHANGED recordVars
  BY <1>1, RecordsStay
<1>2. CASE \E p \in Callers : CallStep(p)
  BY <1>2, CallStepKeeps
<1>3. CASE \E p \in Callers : \E c \in Challenges : BeginCall(p, "Present", c) \/ BeginCall(p, "CleanUp", c)
  BY <1>3, BeginCallKeeps
<1>4. CASE \E p \in Callers : CallerStops(p)
  BY <1>4, CallerStopsKeeps
<1>5. CASE \E w \in late : LateRequest(w)
  BY <1>5, LateRequestKeeps
<1> QED
  BY <1>1, <1>2, <1>3, <1>4, <1>5 DEF Next, vars, Calling, Looking, Expiring, TimingOut, Waiting

\* What a call answers is true unless calls of its challenge overlap, one of
\* its requests is late or a listing is cut off; and no step touches a record
\* of another value (cloudflare.go and arvancloud.go: Present, CleanUp).
THEOREM RecordsSafe == Spec => RecordsAreKept
<1>1. RecordsInv => RecordsTypeOK
  BY DEF RecordsInv, CallOK, RecordsTypeOK
<1>2. Init => RecordsInv
  BY RecordsInitHolds DEF Init
<1>3. RecordsInv /\ [Next]_vars => RecordsInv'
  BY RecordsStep
<1>4. RecordsInv /\ [Next]_vars =>
        [/\ \A p \in Callers :
              call[p].pc \notin Rest /\ call'[p].pc = "ok" =>
                LET left == {r \in records' : r.value = call[p].challenge} IN
                IF call[p].op = "Present" THEN left # {}
                ELSE calm'[call[p].challenge] => left = {}
         /\ \A c \in Challenges :
              calm'[c] /\ RecordsOf(c) # {} =>
                {r \in records' : r.value = c} \subseteq RecordsOf(c)]_recordVars
  BY RecordsStep DEF RecordsKept
<1>5. RecordsInv /\ [Next]_vars =>
        [\A r \in (records \ records') \cup (records' \ records) :
           \/ \E p \in Callers : InCall(p, r.value)
           \/ \E w \in late : w.record = r]_recordVars
  BY RecordsStep DEF OwnRecordsOnly
<1> QED
  BY <1>1, <1>2, <1>3, <1>4, <1>5, PTL DEF Spec, RecordsAreKept, AnswersAreTrue, OnlyItsOwnRecords

-----------------------------------------------------------------------------
\* The waits for a value (ChallengeDns).

LookupRows == [pc: {"idle", "query", "poll", "visible"}, challenge: Challenges \cup {NoChallenge},
               hop: Nat, attempt: Nat, expired: BOOLEAN,
               held: {"never", "mixed", "always"}, troubled: BOOLEAN]

\* What is noted of a lookup is so: its value was there all the time, or never.
Truthful(x) ==
  x.pc = "query" =>
    /\ x.held = "always" => x.challenge \in served
    /\ x.held = "never" => x.challenge \notin served

LookupsInv ==
  /\ resolver \in {"system", "dns", "dot", "doh"} /\ aliases \in Nat
  /\ served \subseteq Challenges
  /\ lookup \in [Waiters -> LookupRows]
  /\ \A p \in Waiters : Truthful(lookup[p])

\* An answer has values that are served, and all of them unless it is an alias
\* that the resolver has to follow.
LEMMA AnswersAreServed ==
  ASSUME NEW hop \in Nat, NEW answer \in Answers(hop), LookupsInv
  PROVE  /\ answer.txt = served \/ answer.txt = {}
         /\ answer.txt # served => resolver # "system" /\ answer.cname /\ hop < aliases
<1>1. ASSUME NEW reply \in Replies(hop)
      PROVE  /\ reply.txt = served \/ reply.txt = {}
             /\ reply.txt # served => reply.cname /\ hop < aliases
  <2>1. PICK recursive \in BOOLEAN :
          reply = [txt |-> IF hop >= aliases \/ recursive THEN served ELSE {},
                   cname |-> hop < aliases]
    BY DEF Replies
  <2>2. CASE hop < aliases
    BY <2>1, <2>2
  <2>3. CASE ~(hop < aliases)
    <3>1. hop >= aliases
      BY <2>3 DEF LookupsInv
    <3> QED
      BY <2>1, <3>1
  <2> QED
    BY <2>2, <2>3
<1>2. \A reply \in Replies(hop) : Query(reply) = {reply}
  BY DEF Query, QueryUDP, QueryTCP
<1>3. \/ answer.txt = served
      \/ resolver # "system" /\ answer \in Replies(hop)
  BY <1>2 DEF Answers
<1> QED
  BY <1>1, <1>3

\* A query is answered.
LEMMA FollowsTruly ==
  ASSUME LookupsInv, NEW p \in Waiters, FollowCNAME(p)
  PROVE  \E x \in LookupRows :
           /\ lookup' = [lookup EXCEPT ![p] = x] /\ Truthful(x)
           /\ x.pc = "visible" => lookup[p].held # "never"
           /\ x.pc = "poll" =>
                \/ lookup[p].held # "always"
                \/ aliases > maxCNAMEHops /\ resolver # "system"
<1>1. PICK l \in LookupRows : l = lookup[p]
  BY DEF LookupsInv
<1>2. Truthful(l) /\ l.pc = "query" /\ l.hop \in Nat
  BY <1>1 DEF LookupsInv, FollowCNAME, LookupRows
<1>3. PICK answer \in Answers(l.hop) :
        lookup' = [lookup EXCEPT ![p] =
                     IF l.challenge \in answer.txt THEN [l EXCEPT !.pc = "visible"]
                     ELSE IF answer.txt = {} /\ answer.cname /\ MayFollow(l.hop)
                     THEN [l EXCEPT !.hop = @ + 1]
                     ELSE [l EXCEPT !.pc = "poll"]]
  BY <1>1 DEF FollowCNAME, Reaches
<1>4. /\ answer.txt = served \/ answer.txt = {}
      /\ answer.txt # served => resolver # "system" /\ answer.cname /\ l.hop < aliases
  BY <1>2, <1>3, AnswersAreServed
<1>5. CASE l.challenge \in answer.txt
  <2>1. PICK x \in LookupRows : x = [l EXCEPT !.pc = "visible"]
    BY DEF LookupRows
  <2>2. x.pc = "visible" /\ lookup' = [lookup EXCEPT ![p] = x]
    BY <1>3, <1>5, <2>1 DEF LookupRows
  <2>3. l.held # "never"
    BY <1>2, <1>4, <1>5 DEF Truthful
  <2> QED
    BY <1>1, <2>2, <2>3 DEF Truthful
<1>6. CASE /\ l.challenge \notin answer.txt
           /\ answer.txt = {} /\ answer.cname /\ MayFollow(l.hop)
  <2>1. PICK x \in LookupRows : x = [l EXCEPT !.hop = @ + 1]
    <3>1. l.hop + 1 \in Nat
      BY <1>2
    <3>2. [l EXCEPT !.hop = l.hop + 1] \in LookupRows
      BY <3>1 DEF LookupRows
    <3> QED
      BY <3>2
  <2>2. /\ x.pc = "query" /\ x.held = l.held /\ x.challenge = l.challenge
        /\ lookup' = [lookup EXCEPT ![p] = x]
    BY <1>2, <1>3, <1>6, <2>1 DEF LookupRows
  <2> QED
    BY <1>2, <2>2 DEF Truthful
<1>7. CASE /\ l.challenge \notin answer.txt
           /\ ~(answer.txt = {} /\ answer.cname /\ MayFollow(l.hop))
  <2>1. PICK x \in LookupRows : x = [l EXCEPT !.pc = "poll"]
    BY DEF LookupRows
  <2>2. x.pc = "poll" /\ lookup' = [lookup EXCEPT ![p] = x]
    BY <1>3, <1>7, <2>1 DEF LookupRows
  <2>3. ASSUME l.held = "always"
        PROVE  aliases > maxCNAMEHops /\ resolver # "system"
    <3>1. answer.txt # served
      BY <1>2, <1>7, <2>3 DEF Truthful
    <3>2. resolver # "system" /\ l.hop < aliases /\ ~(l.hop < maxCNAMEHops)
      BY <1>4, <1>7, <3>1 DEF MayFollow
    <3> QED
      BY <1>2, <3>2, HopsAssumption DEF LookupsInv
  <2> QED
    BY <1>1, <2>2, <2>3 DEF Truthful
<1> QED
  BY <1>5, <1>6, <1>7

\* A wait begins, fails, polls, or ends.
LEMMA OthersMove ==
  ASSUME LookupsInv, NEW p \in Waiters,
         \/ \E c \in Challenges : BeginWait(p, c)
         \/ QueryFails(p) \/ Tick(p) \/ DeadlinePasses(p) \/ TimesOut(p) \/ WaiterStops(p)
  PROVE  \E x \in LookupRows :
           /\ lookup' = [lookup EXCEPT ![p] = x] /\ Truthful(x)
           /\ lookup[p].pc = "query" => x.pc # "visible"
           /\ lookup[p].pc = "query" /\ x.pc = "poll" => x.troubled
<1>1. PICK l \in LookupRows : l = lookup[p]
  BY DEF LookupsInv
<1>2. Truthful(l) /\ l.challenge \in Challenges \cup {NoChallenge} /\ l.hop \in Nat
      /\ l.attempt \in Nat /\ l.expired \in BOOLEAN
  BY <1>1 DEF LookupsInv, LookupRows
<1>3. ASSUME NEW c \in Challenges \cup {NoChallenge}, NEW e \in BOOLEAN, LookupTXT(p, c, e),
             l.pc # "query"
      PROVE  \E x \in LookupRows :
               /\ lookup' = [lookup EXCEPT ![p] = x] /\ Truthful(x)
               /\ lookup[p].pc = "query" => FALSE
  <2>1. PICK x : x = [NoLookup EXCEPT !.pc = "query", !.challenge = c, !.expired = e,
                                      !.held = IF c \in served THEN "always" ELSE "never"]
    OBVIOUS
  <2>2. x = [pc |-> "query", challenge |-> c, hop |-> 0, attempt |-> 1, expired |-> e,
             held |-> IF c \in served THEN "always" ELSE "never", troubled |-> FALSE]
    BY <2>1 DEF NoLookup
  <2>3. x \in LookupRows /\ Truthful(x)
    BY <2>2 DEF LookupRows, Truthful
  <2>4. lookup' = [lookup EXCEPT ![p] = x]
    BY <1>3, <2>1 DEF LookupTXT
  <2> QED
    BY <1>1, <1>3, <2>3, <2>4
<1>4. CASE \E c \in Challenges : BeginWait(p, c)
  BY <1>1, <1>3, <1>4 DEF BeginWait, Waits
<1>5. CASE Tick(p)
  BY <1>1, <1>2, <1>3, <1>5 DEF Tick
<1>6. CASE QueryFails(p)
  <2>1. CASE lookup' = [lookup EXCEPT ![p] =
                 [l EXCEPT !.hop = 0, !.attempt = @ + 1, !.troubled = TRUE]]
    <3>1. PICK x \in LookupRows : x = [l EXCEPT !.hop = 0, !.attempt = @ + 1, !.troubled = TRUE]
      <4>1. l.attempt + 1 \in Nat
        BY <1>2
      <4>2. [l EXCEPT !.hop = 0, !.attempt = l.attempt + 1, !.troubled = TRUE] \in LookupRows
        BY <4>1 DEF LookupRows
      <4> QED
        BY <4>2
    <3>2. x.pc = l.pc /\ x.held = l.held /\ x.challenge = l.challenge /\ x.troubled
      BY <3>1 DEF LookupRows
    <3>3. l.pc = "query"
      BY <1>1, <1>6 DEF QueryFails
    <3> QED
      BY <1>2, <2>1, <3>1, <3>2, <3>3 DEF Truthful
  <2>2. CASE lookup' = [lookup EXCEPT ![p] = [l EXCEPT !.pc = "poll", !.troubled = TRUE]]
    <3>1. PICK x \in LookupRows : x = [l EXCEPT !.pc = "poll", !.troubled = TRUE]
      BY DEF LookupRows
    <3>2. x.pc = "poll" /\ x.troubled
      BY <3>1 DEF LookupRows
    <3> QED
      BY <2>2, <3>1, <3>2 DEF Truthful
  <2> QED
    BY <1>1, <1>6, <2>1, <2>2 DEF QueryFails, Reaches
<1>7. CASE DeadlinePasses(p)
  <2>1. PICK x \in LookupRows : x = [l EXCEPT !.expired = TRUE]
    BY DEF LookupRows
  <2>2. x.pc = l.pc /\ x.held = l.held /\ x.challenge = l.challenge
    BY <2>1 DEF LookupRows
  <2>3. lookup' = [lookup EXCEPT ![p] = x]
    BY <1>1, <1>7, <2>1 DEF DeadlinePasses, Reaches
  <2> QED
    BY <1>1, <1>2, <2>2, <2>3 DEF Truthful
<1>8. CASE TimesOut(p) \/ WaiterStops(p)
  <2>1. PICK x \in LookupRows : x = NoLookup
    BY DEF LookupRows, NoLookup
  <2>2. x.pc = "idle" /\ lookup' = [lookup EXCEPT ![p] = x]
    BY <1>8, <2>1 DEF TimesOut, WaiterStops, Reaches, NoLookup
  <2> QED
    BY <2>2 DEF Truthful
<1> QED
  BY <1>4, <1>5, <1>6, <1>7, <1>8

LEMMA LookupsInitHolds == LookupsInit => LookupsInv
BY HopsAssumption DEF LookupsInit, LookupsInv, LookupRows, NoLookup, Truthful

\* A lookup that ends in this step ends truly.
EndsTruly(p) ==
  lookup[p].pc = "query" =>
    /\ lookup'[p].pc = "visible" => lookup[p].held # "never"
    /\ lookup'[p].pc = "poll" =>
         \/ lookup[p].held # "always" \/ lookup'[p].troubled
         \/ aliases > maxCNAMEHops /\ resolver # "system"

LEMMA WaiterStep ==
  ASSUME LookupsInv, NEW p \in Waiters, UNCHANGED <<resolver, aliases, served>>,
         NEW x \in LookupRows, lookup' = [lookup EXCEPT ![p] = x], Truthful(x),
         lookup[p].pc = "query" =>
           /\ x.pc = "visible" => lookup[p].held # "never"
           /\ x.pc = "poll" =>
                \/ lookup[p].held # "always" \/ x.troubled
                \/ aliases > maxCNAMEHops /\ resolver # "system"
  PROVE  LookupsInv' /\ \A q \in Waiters : EndsTruly(q)
<1> USE DEF LookupsInv
<1>1. /\ lookup' \in [Waiters -> LookupRows]
      /\ lookup'[p] = x /\ \A q \in Waiters \ {p} : lookup'[q] = lookup[q]
  OBVIOUS
<1>2. \A q \in Waiters : Truthful(lookup[q])'
  BY <1>1 DEF Truthful
<1>3. \A q \in Waiters : EndsTruly(q)
  BY <1>1 DEF EndsTruly
<1> QED
  BY <1>1, <1>2, <1>3

\* The name servers take something over: no lookup of it counts on them.
LEMMA SpreadStep ==
  ASSUME LookupsInv, NEW c \in Challenges, Spread(c)
  PROVE  LookupsInv' /\ \A q \in Waiters : EndsTruly(q)
<1> USE DEF LookupsInv
<1>1. /\ \A d \in Challenges \cup {NoChallenge} : d # c => (d \in served' <=> d \in served)
      /\ served' \subseteq Challenges /\ UNCHANGED <<resolver, aliases>>
  BY DEF Spread
<1>2. ASSUME NEW q \in Waiters
      PROVE  /\ lookup'[q] \in LookupRows /\ lookup'[q].pc = lookup[q].pc
             /\ IF lookup[q].challenge = c THEN lookup'[q].held = "mixed"
                ELSE lookup'[q] = lookup[q]
  BY DEF Spread, LookupRows
<1>3. lookup' \in [Waiters -> LookupRows]
  <2>1. lookup' = [q \in Waiters |-> lookup'[q]]
    BY DEF Spread
  <2> QED
    BY <1>2, <2>1
<1>4. ASSUME NEW q \in Waiters
      PROVE  Truthful(lookup[q])'
  <2>1. lookup[q].challenge \in Challenges \cup {NoChallenge}
    BY DEF LookupRows
  <2> QED
    BY <1>1, <1>2, <2>1 DEF Truthful
<1>5. \A q \in Waiters : EndsTruly(q)
  BY <1>2 DEF EndsTruly
<1> QED
  BY <1>1, <1>3, <1>4, <1>5

LEMMA LookupsStep ==
  ASSUME LookupsInv, [Next]_vars
  PROVE  LookupsInv' /\ [\A p \in Waiters : EndsTruly(p)]_lookupVars
<1>1. CASE UNCHANGED lookupVars
  BY <1>1 DEF LookupsInv, lookupVars, Truthful
<1>2. ASSUME NEW p \in Waiters, FollowCNAME(p)
      PROVE  LookupsInv' /\ \A q \in Waiters : EndsTruly(q)
  <2>1. UNCHANGED <<resolver, aliases, served>>
    BY <1>2 DEF FollowCNAME
  <2> QED
    BY <1>2, <2>1, FollowsTruly, WaiterStep
<1>3. ASSUME NEW p \in Waiters,
             \/ \E c \in Challenges : BeginWait(p, c)
             \/ QueryFails(p) \/ Tick(p) \/ DeadlinePasses(p) \/ TimesOut(p) \/ WaiterStops(p)
      PROVE  LookupsInv' /\ \A q \in Waiters : EndsTruly(q)
  <2>1. UNCHANGED <<resolver, aliases, served>>
    BY <1>3 DEF BeginWait, QueryFails, Tick, DeadlinePasses, TimesOut, WaiterStops
  <2> QED
    BY <1>3, <2>1, OthersMove, WaiterStep
<1>4. CASE \E c \in Challenges : Spread(c)
  BY <1>4, SpreadStep
<1> QED
  BY <1>1, <1>2, <1>3, <1>4 DEF Next, vars, Calling, Looking, LookupStep, Expiring, TimingOut, Solving

\* A lookup that no query failed says truly whether the value was there, over
\* as many aliases as are allowed (resolver.go: followCNAME, query).
THEOREM LookupsSafe == Spec => LookupsAreTrue
<1>1. Init => LookupsInv
  BY LookupsInitHolds DEF Init
<1>2. LookupsInv /\ [Next]_vars => LookupsInv'
  BY LookupsStep
<1>3. LookupsInv /\ [Next]_vars =>
        [\A p \in Waiters :
           lookup[p].pc = "query" =>
             /\ lookup'[p].pc = "visible" => lookup[p].held # "never"
             /\ lookup'[p].pc = "poll" =>
                  \/ lookup[p].held # "always" \/ lookup'[p].troubled
                  \/ aliases > maxCNAMEHops /\ resolver # "system"]_lookupVars
  BY LookupsStep DEF EndsTruly
<1> QED
  BY <1>1, <1>2, <1>3, PTL DEF Spec, LookupsAreTrue
=============================================================================
