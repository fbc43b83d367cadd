--------------------------- MODULE SelfCertificate ---------------------------
(* The serving certificate of the server itself: one goroutine reconciles   *)
(* the reserved application with the configured hostname, publishes the     *)
(* latest valid material and reloads it, while TLS handshakes reload on     *)
(* their own when the files have changed.                                   *)
EXTENDS MaterialEndpoint, ReleaseDirectory

CONSTANTS Hostnames

VARIABLES hostname,   \* server.public_hostname
          hostOf,     \* the name in each version's certificate
          wanted,     \* the name of the reserved certificate's row
          sync,       \* the goroutine of the runner, "down" with the process
          loads,      \* ReloadIfChanged of the goroutine and of a handshake
          cached      \* the pair in memory and the file infos stored with it
serverVars == <<hostname, hostOf, wanted, sync, loads, cached>>

Threads == {"runner", "handshake"}
NoLoad == [pc |-> "idle", certInfo |-> 0, keyInfo |-> 0, cert |-> 0, key |-> 0]
NoPair == [mat |-> 0, certInfo |-> 0, keyInfo |-> 0]
Resting(pc) == [pc |-> pc, release |-> Absent]

ServerInit ==
    /\ hostname = CHOOSE h \in Hostnames : TRUE
    /\ hostOf = [v \in Versions |-> Absent]
    /\ wanted = Absent
    /\ sync = Resting("down")
    /\ loads = [t \in Threads |-> NoLoad]
    /\ cached = NoPair

SyncAt(pc) == sync.pc = pc
SyncGoes(pc) == sync' = [sync EXCEPT !.pc = pc]
Working(r, pc) == sync' = [pc |-> pc, release |-> r]
Loading(t, l) == loads' = [loads EXCEPT ![t] = l]

(* The certificate of a version carries the name its row had then.          *)
NamesVersions ==
    hostOf' = [v \in Versions |->
                 IF versions[v] = "none" /\ versions'[v] # "none"
                 THEN wanted' ELSE hostOf[v]]

ServerRowStep ==
    /\ IssuanceStep
    /\ UNCHANGED <<wanted, hostname, sync, loads, cached,
                   directoryVars>>
    /\ NamesVersions

------------------------------------------------------------------------------
(* The process.  A pair on disk must be usable when the server starts: it   *)
(* names the configured host and has not expired; no files at all are       *)
(* accepted.  An ended version was revoked, which the files do not say, or  *)
(* has expired: then the start can fail, which is to stay "down".           *)
Usable(mat) == hostOf[mat] = hostname

StartServer ==
    /\ SyncAt("down")
    /\ current # Absent => Usable(Published)
    /\ cached' = [mat |-> Published, certInfo |-> Published,
                  keyInfo |-> Published]
    /\ SyncGoes("idle")
    /\ UNCHANGED <<hostname, hostOf, wanted, loads, directoryVars,
                   endpointVars, faults>>

Killed ==
    /\ sync' = Resting("down")
    /\ loads' = [t \in Threads |-> NoLoad]
    /\ cached' = NoPair

ServerCrash ==
    /\ ~SyncAt("down")
    /\ Fault
    /\ Killed
    /\ UNCHANGED <<hostname, hostOf, wanted, directoryVars,
                   endpointVars>>

ServerPowerCut ==
    /\ Fault
    /\ PowerCut
    /\ Killed
    /\ UNCHANGED <<hostname, hostOf, wanted, endpointVars>>

Reconfigure ==
    /\ SyncAt("down")
    /\ Fault
    /\ hostname' \in Hostnames \ {hostname}
    /\ UNCHANGED <<hostOf, wanted, sync, loads, cached, directoryVars,
                   endpointVars>>

------------------------------------------------------------------------------
(* ReconcileDesired, one transaction.  A version is created unless one is   *)
(* being issued; a certificate in status failed is left alone.              *)
Owed == certificate = "open" /\ WithStatus("valid") = {}

ReconcileSame ==
    /\ certificate # "none"
    /\ wanted = hostname
    /\ UNCHANGED wanted
    /\ IF Owed /\ CanBegin THEN BeginVersion
       ELSE \/ WithStatus("valid") # {} /\ BeginVersion \* in the window
            \/ UNCHANGED Rows

(* The row of another name is deleted; its versions stay.                   *)
ReconcileNew ==
    /\ certificate = "none" \/ (wanted # hostname /\ WithStatus("issuing") = {})
    /\ Fresh \in Versions
    /\ versions' = [v \in Versions |-> CASE v = Fresh -> "issuing"
                                        [] v < Fresh -> "ended"
                                        [] v > Fresh -> "none"]
    /\ certificate' = "open"
    /\ wanted' = hostname

ReconcileDesired ==
    /\ SyncAt("idle")
    /\ ReconcileSame \/ ReconcileNew
    /\ NamesVersions
    /\ SyncGoes("latest")
    /\ UNCHANGED <<requests, keyReads, faults, directoryVars,
                   hostname, loads, cached>>

(* Deleting a certificate that is being issued is refused, and so is the    *)
(* whole round of the sync; a fault makes any step of it fail.              *)
SyncFails ==
    /\ sync.pc \notin {"down", "idle", "reload"}
    /\ Fault
    /\ sync' = Resting("idle")
    /\ UNCHANGED <<hostname, hostOf, wanted, loads, cached,
                   directoryVars, endpointVars>>

(* LatestMaterial and currentMatches.  Mutants: the newest version, whatever*)
(* its status, is published; or any current release counts as a match.      *)
SelectedOnce ==
    IF current = Absent THEN GetLatestValidMaterial ELSE Published
SelectedPending == Latest(WithStatus("valid") \cup WithStatus("issuing"))
Selected == GetLatestValidMaterial

LatestMaterial ==
    /\ SyncAt("latest")
    /\ sync' = IF Selected \in {0, Published} THEN Resting("idle")
               ELSE [pc |-> "write", release |-> Staged(Selected)]
    /\ UNCHANGED <<hostname, hostOf, wanted, loads, cached,
                   directoryVars, endpointVars, faults>>

PublishFile ==
    /\ SyncAt("write")
    /\ LET r == FileAdded(sync.release)
       IN  Working(r, IF r.files = FileCount THEN "sync" ELSE "write")
    /\ UNCHANGED directoryVars

FsyncStaging ==
    /\ SyncAt("sync")
    /\ Working(EntriesSynced(sync.release), "rename")
    /\ UNCHANGED directoryVars

RenameStaging ==
    /\ SyncAt("rename")
    /\ Working(Renamed(sync.release), "syncname")
    /\ UNCHANGED directoryVars

FsyncReleases ==
    /\ SyncAt("syncname")
    /\ Working(NameSynced(sync.release), "switch")
    /\ UNCHANGED directoryVars

SwitchSymlink ==
    /\ SyncAt("switch")
    /\ SwitchCurrent(sync.release)
    /\ SyncGoes("syncdir")

FsyncOutput ==
    /\ SyncAt("syncdir")
    /\ SyncDirectory
    /\ SyncGoes("reload")

Publish ==
    /\ \/ PublishFile \/ FsyncStaging \/ RenameStaging
       \/ FsyncReleases \/ SwitchSymlink \/ FsyncOutput
    /\ UNCHANGED <<hostname, hostOf, wanted, loads, cached,
                   endpointVars, faults>>

------------------------------------------------------------------------------
(* ReloadIfChanged, run by a handshake at any time and by the goroutine     *)
(* after it has published.                                                  *)
LoadAt(t, pc) == loads[t].pc = pc

LoadEnds(t, ok) ==
    /\ Loading(t, NoLoad)
    /\ IF t = "runner"
       THEN sync' = IF ok THEN [sync EXCEPT !.pc = "audit"] ELSE Resting("idle")
       ELSE UNCHANGED sync

StatCertificate(t) ==
    /\ LoadAt(t, "idle")
    /\ IF t = "runner" THEN SyncAt("reload") ELSE ~SyncAt("down")
    /\ current # Absent
    /\ Loading(t, [NoLoad EXCEPT !.pc = "key info", !.certInfo = Published])
    /\ UNCHANGED <<sync, cached>>

StatKey(t) ==
    /\ LoadAt(t, "key info")
    /\ IF cached.certInfo = loads[t].certInfo /\ cached.keyInfo = Published
       THEN LoadEnds(t, TRUE)
       ELSE /\ Loading(t, [loads[t] EXCEPT !.pc = "cert", !.keyInfo = Published])
            /\ UNCHANGED sync
    /\ UNCHANGED cached

ReadCertificate(t) ==
    /\ LoadAt(t, "cert")
    /\ Loading(t, [loads[t] EXCEPT !.pc = "key", !.cert = Published])
    /\ UNCHANGED <<sync, cached>>

ReadKey(t) ==
    /\ LoadAt(t, "key")
    /\ Loading(t, [loads[t] EXCEPT !.pc = "store", !.key = Published])
    /\ UNCHANGED <<sync, cached>>

StoredPair(l) ==
    [mat |-> l.cert, certInfo |-> l.certInfo, keyInfo |-> l.keyInfo]

Expired(mat) == versions[mat] = "ended"

StorePair(t) ==
    /\ LoadAt(t, "store")
    /\ LET l == loads[t]
       IN  \/ /\ l.cert = l.key
              /\ Usable(l.cert)
              /\ cached' = StoredPair(l)
              /\ LoadEnds(t, TRUE)
           \/ /\ (l.cert # l.key \/ ~Usable(l.cert) \/ Expired(l.cert))
              /\ LoadEnds(t, FALSE)
              /\ UNCHANGED cached

ReloadIfChanged(t) ==
    /\ \/ StatCertificate(t) \/ StatKey(t) \/ ReadCertificate(t)
       \/ ReadKey(t) \/ StorePair(t)
    /\ UNCHANGED <<hostname, hostOf, wanted, directoryVars,
                   endpointVars, faults>>

AppendSyncedAudit ==
    /\ SyncAt("audit")
    /\ sync' = Resting("idle")
    /\ UNCHANGED <<hostname, hostOf, wanted, loads, cached, directoryVars,
                   endpointVars, faults>>
SyncStep == ReconcileDesired \/ LatestMaterial \/ Publish \/ AppendSyncedAudit
ServerTrouble == ServerCrash \/ ServerPowerCut \/ Reconfigure \/ SyncFails

------------------------------------------------------------------------------
(* Handshakes and the goroutine reload side by side while "current" moves:  *)
(* whatever they store, infos that match the files on disk belong to the    *)
(* material on disk, so that a stale pair is always noticed and replaced.   *)
UnchangedInfosMeanCurrentPair ==
    (current # Absent /\ cached.certInfo = Published /\ cached.keyInfo = Published)
        => cached.mat = Published

(* A server that runs serves and publishes only certificates for its own    *)
(* configured name, whatever names it had before, and only issued ones: a   *)
(* changed name replaces no files before its certificate is there.          *)
ServesItsName ==
    ~SyncAt("down") =>
        /\ current # Absent => hostOf[Published] = hostname
        /\ cached.mat # 0 => hostOf[cached.mat] = hostname
        /\ current # Absent => versions[Published] \in {"valid", "ended"}

(* A server that stays up and is asked for handshakes ends up serving the   *)
(* latest valid material of its name, after crashes, failed rounds and      *)
(* reloads that read the certificate and the key around a switch.           *)
ServesTheLatest ==
    LET newest == GetLatestValidMaterial
    IN  <>[](~SyncAt("down")) =>
          <>[](newest # 0 /\ hostOf[newest] = hostname => cached.mat = newest)

(* The pair of the server: for its own name, and never stale unnoticed      *)
(* (reconciler.go:run, tls.go:GetCertificate).                              *)
ServerInv == ServesItsName /\ UnchangedInfosMeanCurrentPair
=============================================================================
