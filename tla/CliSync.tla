------------------------------- MODULE CliSync -------------------------------
(* certhub-cli sync: processes that run once for an output directory, ask   *)
(* for the material unless the entity tag they hold is current, create the  *)
(* certificate once when it does not exist, wait while it is issued, and    *)
(* publish under the lock of the directory.                                 *)
EXTENDS MaterialEndpoint, ReleaseDirectory

CONSTANTS Processes

VARIABLES run,      \* what each process is doing
          lock      \* the process that holds .certhub.lock
cliVars == <<run, lock>>

Stopped == [pc |-> "stopped", created |-> FALSE, mat |-> 0,
            release |-> Absent]

CliInit ==
    /\ run = [p \in Processes |-> Stopped]
    /\ lock = Absent

RunAt(p, pc) == run[p].pc = pc
Goto(p, pc) == run' = [run EXCEPT ![p].pc = pc]
WithRelease(p, r, pc) ==
    run' = [run EXCEPT ![p] = [@ EXCEPT !.release = r, !.pc = pc]]
Exits(p) == run' = [run EXCEPT ![p] = Stopped]

StartSync(p) ==
    /\ RunAt(p, "stopped")
    /\ Goto(p, "request")
    /\ Ask(p, "material", Published)
    /\ UNCHANGED <<Rows, keyReads, directoryVars, lock, faults>>

(* The next round of the loop reads the metadata again.                     *)
AskAgain(p) ==
    /\ RunAt(p, "again")
    /\ Goto(p, "request")
    /\ Ask(p, "material", Published)
    /\ UNCHANGED <<Rows, keyReads, directoryVars, lock, faults>>

GetsMaterial(p) ==
    /\ requests[p].answer = "material"
    /\ run' = [run EXCEPT ![p] = [Stopped EXCEPT !.pc = "lock",
                                                 !.mat = requests[p].version]]
    /\ Done(p)

Unchanged(p) ==
    /\ requests[p].answer = "unchanged"
    /\ Exits(p)
    /\ Done(p)

NotFound(p) ==
    /\ requests[p].answer = "not_found"
    /\ IF run[p].created
       THEN Exits(p) /\ Done(p)
       ELSE Goto(p, "request") /\ Ask(p, "ensure", 0)

Created(p) ==
    /\ requests[p].answer = "accepted"
    /\ \/ run' = [run EXCEPT ![p] = [@ EXCEPT !.pc = "again",
                                              !.created = TRUE]]
       \/ Exits(p)
    /\ Done(p)

(* sleepForRetry: another round, or the deadline, or a run without --wait.  *)
NotReady(p) ==
    /\ requests[p].answer = "not_ready"
    /\ Goto(p, "again") \/ Exits(p)
    /\ Done(p)

Refused(p) ==
    /\ requests[p].answer \in
           {"issuance_failed", "no_active_version", "request_failed"}
    /\ Exits(p)
    /\ Done(p)

TakeAnswer(p) ==
    /\ RunAt(p, "request")
    /\ At(p, "answered")
    /\ \/ GetsMaterial(p) \/ Unchanged(p) \/ NotFound(p) \/ Created(p)
       \/ NotReady(p) \/ Refused(p)
    /\ UNCHANGED <<Rows, keyReads, directoryVars, lock, faults>>

------------------------------------------------------------------------------
(* PublishMaterial.                                                         *)
LockFree(p) == lock = Absent

LockOutDir(p) ==
    /\ RunAt(p, "lock")
    /\ LockFree(p)
    /\ lock' = p
    /\ WithRelease(p, Staged(run[p].mat), "write")
    /\ UNCHANGED <<endpointVars, directoryVars, faults>>

WriteReleaseFile(p) ==
    /\ RunAt(p, "write")
    /\ LET r == FileAdded(run[p].release)
       IN  WithRelease(p, r, IF r.files = FileCount THEN "sync" ELSE "write")
    /\ UNCHANGED <<endpointVars, directoryVars, lock, faults>>

SyncStaging(p) ==
    /\ RunAt(p, "sync")
    /\ WithRelease(p, EntriesSynced(run[p].release), "rename")
    /\ UNCHANGED <<endpointVars, directoryVars, lock, faults>>

RenameRelease(p) ==
    /\ RunAt(p, "rename")
    /\ WithRelease(p, Renamed(run[p].release), "syncname")
    /\ UNCHANGED <<endpointVars, directoryVars, lock, faults>>

SyncReleases(p) ==
    /\ RunAt(p, "syncname")
    /\ WithRelease(p, NameSynced(run[p].release), "switch")
    /\ UNCHANGED <<endpointVars, directoryVars, lock, faults>>

SwitchLink(p) ==
    /\ RunAt(p, "switch")
    /\ SwitchCurrent(run[p].release)
    /\ Goto(p, "syncdir")
    /\ UNCHANGED <<endpointVars, lock, faults>>

SyncOutDir(p) ==
    /\ RunAt(p, "syncdir")
    /\ SyncDirectory
    /\ Goto(p, "unlock")
    /\ UNCHANGED <<endpointVars, lock, faults>>

Unlock(p) ==
    /\ RunAt(p, "unlock")
    /\ lock' = Absent
    /\ Exits(p)
    /\ UNCHANGED <<endpointVars, directoryVars, faults>>

PublishStep(p) ==
    \/ LockOutDir(p) \/ WriteReleaseFile(p) \/ SyncStaging(p)
    \/ RenameRelease(p) \/ SyncReleases(p) \/ SwitchLink(p)
    \/ SyncOutDir(p) \/ Unlock(p)

(* One step of the publication fails: the staging directory is removed and  *)
(* the run exits; a release that was renamed stays.                         *)
PublishingPCs == {"write", "sync", "rename", "syncname", "switch", "syncdir"}
(* Mutant: the lock is a file that somebody has to remove.                  *)
ReleasedNever(p) == UNCHANGED lock
Released(p) == lock' = IF lock = p THEN Absent ELSE lock

FilesystemFails(p) ==
    /\ run[p].pc \in PublishingPCs
    /\ Fault
    /\ Exits(p)
    /\ Released(p)
    /\ UNCHANGED <<endpointVars, directoryVars>>

CliCrash(p) ==
    /\ ~RunAt(p, "stopped")
    /\ Fault
    /\ run' = [run EXCEPT ![p] = Stopped]
    /\ Released(p)
    /\ Done(p)
    /\ UNCHANGED <<Rows, keyReads, directoryVars>>

CliPowerCut ==
    /\ Fault
    /\ PowerCut
    /\ run' = [p \in Processes |-> Stopped]
    /\ lock' = Absent
    /\ requests' = [r \in Readers |->
                      IF r \in Processes THEN Idle ELSE requests[r]]
    /\ UNCHANGED <<Rows, keyReads>>

Progress(p) == AskAgain(p) \/ TakeAnswer(p) \/ PublishStep(p)
Trouble == CliPowerCut \/ \E p \in Processes : FilesystemFails(p) \/ CliCrash(p)

------------------------------------------------------------------------------
(* A run that has switched the symlink finds its own release there until it *)
(* exits: publications of one directory exclude each other (lockOutDir).    *)
OwnReleaseUntilExit ==
    \A p \in Processes :
        run[p].pc \in {"syncdir", "unlock"} => current = run[p].release

(* The directory that processes, crashes and power cuts share: what is      *)
(* current is whole, and a run that switched it finds its own release there *)
(* (writer.go:PublishMaterial).                                             *)
DirectoryInv == CurrentIsWhole /\ OwnReleaseUntilExit
=============================================================================
