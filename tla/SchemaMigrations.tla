-------------------------- MODULE SchemaMigrations --------------------------
(* Binaries of several releases open one database: each checks the version  *)
(* of the schema or, with --migrate and in every direct command, brings it  *)
(* up to its own release first.  The advisory lock belongs to a session of  *)
(* its own: it can be lost while goose goes on through other connections.   *)
(* Each migration is one transaction of goose, external to the repository.  *)
EXTENDS Integers, Sequences, SequencesExt

CONSTANTS Processes, NoOne,
          StartsAs,    \* process -> the releases and commands it may start with
          Shipped,     \* release -> version of its newest migration
          OldRelease, NewRelease,
          MaxTrouble   \* bound on exits, lost sessions, drift, refused accounts

(* The new release has every migration of the old one.                      *)
Releases == {OldRelease, NewRelease}
Commands == {"run", "run --migrate", "migrate", "bootstrap"}
ASSUME SchemaAssumption ==
    /\ NoOne \notin Processes /\ MaxTrouble \in Nat
    /\ StartsAs \in [Processes -> SUBSET (Releases \X Commands)]
    /\ Shipped \in [Releases -> Nat \ {0}] /\ Shipped[OldRelease] <= Shipped[NewRelease]

VARIABLES log,         \* the rows of goose_db_version, in the order of their ids
          session,     \* process whose session holds the advisory lock
          drift,       \* parts of certhub_leases that were altered by hand
          proc,        \* the processes
          lost,        \* a session that held the lock was lost at some time
          trouble
schemaVars == <<log, session, drift, proc, lost, trouble>>

Applied == Range(log)
(* goose takes the row with the highest id for the current version.         *)
CurrentVersion == IF log = <<>> THEN 0 ELSE Last(log)
VersionTable == IF log = <<>> THEN <<0>> ELSE log
LatestVersion(p) == Shipped[proc[p].release]

LeaseColumnsValid == "columns" \notin drift
LeaseConstraintsValid == "constraints" \notin drift
LeaseIndexValid == "index" \notin drift
PlatformSchemaValid ==
    CurrentVersion >= 1 =>
        LeaseColumnsValid /\ LeaseConstraintsValid /\ LeaseIndexValid

Compatible(p) == PlatformSchemaValid /\ CurrentVersion = LatestVersion(p)

Down(r, c) == [release |-> r, command |-> c, pc |-> "down", seen |-> 0,
               ok |-> FALSE, ready |-> FALSE]
Serves(c) == c \in {"run", "run --migrate"}
Goto(p, label) == proc' = [proc EXCEPT ![p].pc = label]
ExitProcess(p) == proc' = [proc EXCEPT ![p] = Down(@.release, @.command)]
At(p, label) == proc[p].pc = label

StartProcess(p) ==
    /\ At(p, "down")
    /\ Goto(p, IF proc[p].command = "run" THEN "checking" ELSE "locking")
    /\ UNCHANGED <<log, session, drift, lost, trouble>>

(* Runner.Status through goose creates the version table when there is none.*)
CheckOnly(p) ==
    /\ At(p, "checking") /\ log' = VersionTable
    /\ IF Compatible(p) THEN Goto(p, "serving") ELSE ExitProcess(p)
    /\ UNCHANGED <<session, drift, lost, trouble>>

(* Mutant: an answer "not acquired" is taken for the lock.                  *)
LockIgnored == TRUE
LockFree == session = NoOne
AcquireMigrationLock(p) ==
    /\ At(p, "locking") /\ LockFree
    /\ session' = p /\ Goto(p, "reading")
    /\ UNCHANGED <<log, drift, lost, trouble>>

ReadVersion(p) ==
    /\ At(p, "reading") /\ log' = VersionTable
    /\ proc' = [proc EXCEPT
           ![p].seen = CurrentVersion,
           ![p].pc = IF CurrentVersion < LatestVersion(p) THEN "applying" ELSE "validating"]
    /\ UNCHANGED <<session, drift, lost, trouble>>

(* Statements that succeed a second time: 00003 to 00005 only replace       *)
(* constraints and functions, 00003 one that 00004 drops.                   *)
Runs(v) ==
    \/ v \notin Applied
    \/ v = 3 /\ 4 \notin Applied
    \/ v >= 4
NextMigration(p) == proc[p].seen + 1
RunMigration(p) ==
    LET v == NextMigration(p) IN
    /\ At(p, "applying")
    /\ IF Runs(v)
       THEN log' = Append(log, v) /\ Goto(p, "reading")
       ELSE UNCHANGED log /\ Goto(p, "unlocking")
    /\ UNCHANGED <<session, drift, lost, trouble>>

ValidateSchema(p) ==
    /\ At(p, "validating")
    /\ proc' = [proc EXCEPT ![p].pc = "unlocking", ![p].ok = Compatible(p)]
    /\ UNCHANGED <<log, session, drift, lost, trouble>>

AfterOpening(c) == IF Serves(c) THEN "serving" ELSE IF c = "migrate" THEN "reporting"
                   ELSE "creating"

(* Mutant: the lock is left to its connection, which a server keeps open.   *)
KeptLock(p) ==
    IF session = p /\ ~(proc[p].ok /\ Serves(proc[p].command)) THEN NoOne ELSE session
SessionAfterUnlock(p) == IF session = p THEN NoOne ELSE session
Unlock(p) ==
    /\ At(p, "unlocking") /\ session' = SessionAfterUnlock(p)
    /\ IF proc[p].ok /\ session = p
       THEN Goto(p, AfterOpening(proc[p].command))
       ELSE ExitProcess(p)
    /\ UNCHANGED <<log, drift, lost, trouble>>

(* The command migrate reads the status once more for its report.           *)
ReportMigration(p) ==
    /\ At(p, "reporting")
    /\ IF Compatible(p) THEN Goto(p, "done") ELSE ExitProcess(p)
    /\ UNCHANGED <<log, session, drift, lost, trouble>>

MigrationsReady(p) == Compatible(p)
CheckReadiness(p) ==
    /\ At(p, "serving")
    /\ proc' = [proc EXCEPT ![p].ready = MigrationsReady(p)]
    /\ UNCHANGED <<log, session, drift, lost, trouble>>

SessionWithout(p) == IF session = p THEN NoOne ELSE session

(* The container is replaced by one of the new release.                     *)
Redeploy(p) ==
    /\ proc[p].pc \in {"down", "serving"} /\ proc[p].release = OldRelease
    /\ proc' = [proc EXCEPT ![p] = Down(NewRelease, "run --migrate")]
    /\ session' = SessionWithout(p) /\ UNCHANGED <<log, drift, lost, trouble>>

(* A crash, an error of the database or an expired deadline: the process    *)
(* exits and its sessions end; a migration that was not committed is undone.*)
Dies(p) ==
    /\ proc[p].pc \notin {"down", "done"} /\ trouble < MaxTrouble
    /\ trouble' = trouble + 1
    /\ session' = SessionWithout(p)
    /\ ExitProcess(p) /\ UNCHANGED <<log, drift, lost>>

LoseSession ==
    /\ session # NoOne /\ trouble < MaxTrouble
    /\ session' = NoOne /\ lost' = TRUE /\ trouble' = trouble + 1
    /\ UNCHANGED <<log, drift, proc>>

AlterLeases ==
    /\ 1 \in Applied /\ trouble < MaxTrouble
    /\ \E part \in {"columns", "constraints", "index"} \ drift :
          drift' = drift \cup {part}
    /\ trouble' = trouble + 1
    /\ UNCHANGED <<log, session, proc, lost>>

OpeningStep(p) ==
    CheckOnly(p) \/ ReadVersion(p) \/ RunMigration(p) \/ ValidateSchema(p)
      \/ Unlock(p) \/ ReportMigration(p)

UpTo(n) == [i \in 1..(n + 1) |-> i - 1]
SchemaInit ==
    /\ log \in {<<>>, UpTo(Shipped[OldRelease])}
    /\ session = NoOne /\ drift = {} /\ lost = FALSE /\ trouble = 0
    /\ proc \in [Processes -> {Down(s[1], s[2]) : s \in UNION Range(StartsAs)}]
    /\ \A p \in Processes : <<proc[p].release, proc[p].command>> \in StartsAs[p]

SteadyInit ==
    /\ log = UpTo(Shipped[NewRelease])
    /\ session = NoOne /\ drift = {} /\ lost = FALSE /\ trouble = MaxTrouble
    /\ proc = [p \in Processes |->
                  IF \E s \in StartsAs[p] : Serves(s[2])
                  THEN [Down(NewRelease, "run") EXCEPT !.pc = "serving", !.ready = TRUE]
                  ELSE [Down(NewRelease, "migrate") EXCEPT !.pc = "done"]]

------------------------------------------------------------------------------
(* As long as no session of the lock is lost, every migration is applied    *)
(* once and in order, whichever binaries start, die and time out meanwhile  *)
(* (runner.go:Up, acquireMigrationLock).                                    *)
AppliedInOrder == ~lost => log \in {<<>>, UpTo(Len(log) - 1)}

(* Even when two binaries migrate at once, no version is missing below one  *)
(* that is applied (runner.go:Up).                                          *)
NoVersionIsSkipped == \A v \in Applied : 0..v \subseteq Applied

(* Whoever serves, reports success or goes on with its own command does so  *)
(* on a schema that holds every migration of its release                    *)
(* (server.go:openRuntimeResources, migrate).                               *)
OpenedOnItsSchema ==
    \A p \in Processes :
        proc[p].pc \in {"serving", "reporting", "creating", "done"}
          => 0..LatestVersion(p) \subseteq Applied

(* A migrator that dies, fails or loses its session does not keep the lock  *)
(* (runner.go:acquireMigrationLock).                                        *)
LockComesFree == []<>(session = NoOne)
=============================================================================
