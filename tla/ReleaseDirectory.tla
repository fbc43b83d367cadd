-------------------------- MODULE ReleaseDirectory --------------------------
(* A directory with immutable releases of certificate material and a symlink*)
(* "current" to one of them, as the server and the CLI publish it, on a disk*)
(* that may lose at a power cut whatever has not been synced.  A release is *)
(* a value: once renamed into releases/ nothing changes it but the syncs.   *)
EXTENDS Integers

CONSTANTS Absent   \* the symlink does not exist

VARIABLES current,    \* the release the symlink names
          onDisk      \* what the symlink may name after a power cut
directoryVars == <<current, onDisk>>

FileCount == 2     \* stands for the five files of a release
Releases == [mat: Nat, files: 0..FileCount, place: {"staging", "releases", "lost"},
             entries: BOOLEAN, name: BOOLEAN]
ASSUME AbsentAssumption == Absent \notin Releases

Staged(mat) == [mat |-> mat, files |-> 0, place |-> "staging",
                entries |-> FALSE, name |-> FALSE]

(* writeFileSync creates, writes and syncs one file; its directory entry is *)
(* durable only when the staging directory is synced.                       *)
FileAdded(r) == [r EXCEPT !.files = @ + 1]
EntriesSynced(r) == [r EXCEPT !.entries = TRUE]
Renamed(r) == [r EXCEPT !.place = "releases"]
(* Mutant: the directory releases/ is not synced before the switch.         *)
NameNotSynced(r) == r
NameSynced(r) == [r EXCEPT !.name = TRUE]

SwitchCurrent(r) == current' = r /\ onDisk' = onDisk \cup {r}
SyncDirectory == onDisk' = {current} /\ UNCHANGED current

Survivors(r) ==
    IF r = Absent THEN {Absent}
    ELSE {[r EXCEPT !.files = f, !.place = p] :
             f \in IF r.entries THEN {r.files} ELSE 0..r.files,
             p \in IF r.name THEN {r.place} ELSE {r.place, "lost"}}

PowerCut == \E r \in onDisk : \E s \in Survivors(r) :
    current' = s /\ onDisk' = {s}

DirectoryInit == current = Absent /\ onDisk = {Absent}

Whole(r) == r.place = "releases" /\ r.files = FileCount
Published == IF current = Absent THEN 0 ELSE current.mat

(* Whatever happens between two steps of a publication, a crash or a power  *)
(* cut included, the symlink never names a release that is incomplete or    *)
(* not there (writer.go:PublishMaterial, selfcert/publisher.go:Publish).    *)
CurrentIsWhole == current # Absent => Whole(current)
=============================================================================
