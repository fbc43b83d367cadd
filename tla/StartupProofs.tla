--------------------------- MODULE StartupProofs ---------------------------
(* Proofs about Startup: the migrations of a rolling upgrade, for any number *)
(* of processes and any versions, and the issuers, for any number of names, *)
(* accounts and transactions.                                               *)
EXTENDS Startup, TLAPS

------------------------------------------------------------------------------
(* The log of the migrations, as a set.                                     *)

LEMMA LogCreated ==
  ASSUME log \in Seq(Nat), log' = VersionTable
  PROVE  /\ log' \in Seq(Nat) /\ log' # <<>>
         /\ CurrentVersion' = CurrentVersion /\ CurrentVersion \in Applied'
         /\ Applied' = IF log = <<>> THEN {0} ELSE Applied
<1>1. CASE log = <<>>
  BY <1>1 DEF VersionTable, CurrentVersion, Applied, Range, Last
<1>2. CASE log # <<>>
  BY <1>2 DEF VersionTable, CurrentVersion, Applied, Range, Last
<1> QED
  BY <1>1, <1>2

LEMMA LogAppended ==
  ASSUME log \in Seq(Nat), NEW v \in Nat, log' = Append(log, v)
  PROVE  /\ log' \in Seq(Nat) /\ log' # <<>>
         /\ CurrentVersion' = v
         /\ Applied' = Applied \cup {v}
<1>1. /\ log' \in Seq(Nat) /\ Len(log') = Len(log) + 1 /\ log'[Len(log) + 1] = v
      /\ \A i \in 1 .. Len(log) : log'[i] = log[i]
  OBVIOUS
<1>2. log' # <<>> /\ CurrentVersion' = v
  BY <1>1 DEF CurrentVersion, Last
<1>3. DOMAIN log' = DOMAIN log \cup {Len(log) + 1} /\ DOMAIN log = 1 .. Len(log)
  BY <1>1
<1>4. Applied' = Applied \cup {v}
  BY <1>1, <1>3 DEF Applied, Range
<1> QED
  BY <1>1, <1>2, <1>4

LEMMA VersionApplied ==
  ASSUME log \in Seq(Nat)
  PROVE  /\ CurrentVersion \in Nat
         /\ log # <<>> => CurrentVersion \in Applied
         /\ log = <<>> => CurrentVersion = 0 /\ Applied = {}
BY DEF CurrentVersion, Applied, Range, Last

LEMMA UpToVersion ==
  ASSUME NEW n \in Nat, log = UpTo(n)
  PROVE  /\ log \in Seq(Nat) /\ Len(log) = n + 1
         /\ Applied = 0 .. n
         /\ \A i \in 1 .. Len(log) : log[i] = i - 1
<1>1. log \in Seq(Nat) /\ Len(log) = n + 1 /\ DOMAIN log = 1 .. (n + 1)
  BY DEF UpTo
<1>2. \A i \in 1 .. (n + 1) : log[i] = i - 1
  BY DEF UpTo
<1>3. ASSUME NEW v \in 0 .. n
      PROVE  v \in Applied
  <2>1. v + 1 \in DOMAIN log /\ log[v + 1] = v
    BY <1>1, <1>2
  <2> QED
    BY <2>1 DEF Applied, Range
<1>4. Applied \subseteq 0 .. n
  BY <1>1, <1>2 DEF Applied, Range
<1> QED
  BY <1>1, <1>2, <1>3, <1>4

------------------------------------------------------------------------------
(* What holds of the migrations.                                            *)

Labels == {"down", "checking", "locking", "reading", "applying", "validating", "unlocking",
           "serving", "reporting", "creating", "created", "done"}
ProcRows == [release : Releases, command : Commands, pc : Labels, seen : Nat,
             ok : BOOLEAN, ready : BOOLEAN]

SchemaRows ==
  /\ log \in Seq(Nat)
  /\ session \in Processes \cup {NoOne}
  /\ proc \in [Processes -> ProcRows]
  /\ lost \in BOOLEAN /\ trouble \in 0 .. MaxTrouble

Locked == {"reading", "applying", "validating", "unlocking"}
Opened == {"serving", "reporting", "creating", "created", "done"}

(* A process knows what it applies next, and has seen every migration of its *)
(* release when it goes on with its command.                                *)
Covers(x) == 0 .. Shipped[x.release] \subseteq Applied
Prepared(x) ==
  /\ x.pc = "applying" => x.seen \in Applied /\ x.seen < Shipped[x.release]
  /\ x.ok \/ x.pc \in Opened => Covers(x)

(* Only the holder of the lock, if it was never lost, is past it.           *)
Exclusive(p) ==
  ~lost /\ proc[p].pc \in Locked =>
    session = p /\ (proc[p].pc = "applying" => proc[p].seen = CurrentVersion)

InOrder == ~lost => \A i \in 1 .. Len(log) : log[i] = i - 1

LogInv ==
  /\ NoVersionIsSkipped
  /\ Applied \subseteq 0 .. Shipped[NewRelease]
  /\ InOrder

SchemaInv ==
  /\ SchemaRows
  /\ LogInv
  /\ \A p \in Processes : Prepared(proc[p]) /\ Exclusive(p)

LEMMA InOrderSuffices ==
  ASSUME log \in Seq(Nat), InOrder
  PROVE  AppliedInOrder
<1> SUFFICES ASSUME ~lost, log # <<>>
             PROVE  log = UpTo(Len(log) - 1)
  BY DEF AppliedInOrder
<1>1. Len(log) \in Nat \ {0} /\ DOMAIN log = 1 .. Len(log) /\ log = [i \in 1 .. Len(log) |-> log[i]]
  OBVIOUS
<1>2. (Len(log) - 1) + 1 = Len(log)
  BY <1>1
<1>3. UpTo(Len(log) - 1) = [i \in 1 .. Len(log) |-> i - 1]
  BY <1>2 DEF UpTo
<1> QED
  BY <1>1, <1>3 DEF InOrder

(* A process is down when it was started, stopped or replaced.              *)
LEMMA DownOk ==
  ASSUME NEW r \in Releases, NEW c \in Commands
  PROVE  Down(r, c) \in ProcRows /\ Prepared(Down(r, c)) /\ Down(r, c).pc = "down"
BY DEF Down, ProcRows, Labels, Prepared, Opened

LEMMA SchemaInitHolds == SchemaInit \/ SteadyInit => SchemaInv
<1> USE SchemaAssumption DEF Releases
<1>1. ASSUME SchemaInit
      PROVE  SchemaInv
  <2>1. /\ log \in Seq(Nat) /\ Applied \subseteq 0 .. Shipped[NewRelease]
        /\ NoVersionIsSkipped /\ InOrder
    <3>1. CASE log = <<>>
      BY <3>1 DEF Applied, Range, NoVersionIsSkipped, InOrder
    <3>2. CASE log = UpTo(Shipped[OldRelease])
      BY <3>2, UpToVersion DEF NoVersionIsSkipped, InOrder
    <3> QED
      BY <1>1, <3>1, <3>2 DEF SchemaInit
  <2>2. ASSUME NEW p \in Processes
        PROVE  proc[p] \in ProcRows /\ Prepared(proc[p]) /\ proc[p].pc = "down"
    <3>1. PICK s : proc[p] = Down(s[1], s[2])
      BY <1>1 DEF SchemaInit
    <3>2. <<proc[p].release, proc[p].command>> \in StartsAs[p]
      BY <1>1 DEF SchemaInit
    <3>3. proc[p].release = s[1] /\ proc[p].command = s[2]
      BY <3>1 DEF Down
    <3>4. s[1] \in Releases /\ s[2] \in Commands
      BY <3>2, <3>3
    <3> QED
      BY <3>1, <3>4, DownOk
  <2>3. DOMAIN proc = Processes /\ proc = [p \in Processes |-> proc[p]]
    BY <1>1 DEF SchemaInit
  <2>4. proc \in [Processes -> ProcRows]
    BY <2>2, <2>3
  <2>5. session \in Processes \cup {NoOne} /\ trouble \in 0 .. MaxTrouble
    BY <1>1 DEF SchemaInit
  <2>6. lost \in BOOLEAN
    BY <1>1, Zenon DEF SchemaInit
  <2>7. SchemaRows
    BY <2>1, <2>4, <2>5, <2>6 DEF SchemaRows
  <2> QED
    BY <2>1, <2>2, <2>7 DEF SchemaInv, LogInv, Exclusive, Locked
<1>2. ASSUME SteadyInit
      PROVE  SchemaInv
  <2>1. /\ log \in Seq(Nat) /\ Applied = 0 .. Shipped[NewRelease]
        /\ NoVersionIsSkipped /\ InOrder
    BY <1>2, UpToVersion DEF SteadyInit, NoVersionIsSkipped, InOrder
  <2>2. ASSUME NEW p \in Processes
        PROVE  proc[p] \in ProcRows /\ Prepared(proc[p]) /\ proc[p].pc \notin Locked
    <3>1. \/ proc[p] = [Down(NewRelease, "run") EXCEPT !.pc = "serving", !.ready = TRUE]
          \/ proc[p] = [Down(NewRelease, "migrate") EXCEPT !.pc = "done"]
      BY <1>2 DEF SteadyInit
    <3>2. proc[p] \in ProcRows /\ proc[p].release = NewRelease /\ proc[p].pc \in {"serving", "done"}
      <4>1. ASSUME NEW x \in ProcRows, x.release = NewRelease
            PROVE  LET on == [x EXCEPT !.pc = "serving", !.ready = TRUE]
                       over == [x EXCEPT !.pc = "done"] IN
                   /\ on \in ProcRows /\ on.release = NewRelease /\ on.pc = "serving"
                   /\ over \in ProcRows /\ over.release = NewRelease /\ over.pc = "done"
        BY <4>1 DEF ProcRows, Labels
      <4>2. ASSUME NEW c \in Commands
            PROVE  Down(NewRelease, c) \in ProcRows /\ Down(NewRelease, c).release = NewRelease
        BY DownOk DEF Down
      <4> QED
        BY <3>1, <4>1, <4>2 DEF Commands
    <3> QED
      BY <2>1, <3>2 DEF Prepared, Covers, Locked
  <2>3. proc \in [Processes -> ProcRows]
    BY <1>2, <2>2 DEF SteadyInit
  <2>4. session \in Processes \cup {NoOne} /\ trouble \in 0 .. MaxTrouble
    BY <1>2 DEF SteadyInit
  <2>5. lost \in BOOLEAN
    BY <1>2, Zenon DEF SteadyInit
  <2>6. SchemaRows
    BY <2>1, <2>3, <2>4, <2>5 DEF SchemaRows
  <2> QED
    BY <2>1, <2>2, <2>6 DEF SchemaInv, LogInv, Exclusive
<1> QED
  BY <1>1, <1>2

(* Steps that leave the log alone write the row of one process, and take the *)
(* session from nobody else.                                                *)
LEMMA ProcessMoves ==
  ASSUME SchemaInv, NEW p \in Processes, NEW x \in ProcRows,
         UNCHANGED <<log, lost>>, proc' = [proc EXCEPT ![p] = x],
         session' \in Processes \cup {NoOne}, trouble' \in 0 .. MaxTrouble,
         \A q \in Processes \ {p} : session = q => session' = q,
         Prepared(x),
         ~lost /\ x.pc \in Locked =>
           session' = p /\ (x.pc = "applying" => x.seen = CurrentVersion)
  PROVE  SchemaInv'
<1> USE DEF SchemaInv
<1>1. SchemaRows'
  BY DEF SchemaRows
<1>2. LogInv'
  BY DEF LogInv, NoVersionIsSkipped, Applied, InOrder
<1>3. proc'[p] = x /\ \A q \in Processes \ {p} : proc'[q] = proc[q]
  BY DEF SchemaRows
<1>4. Applied' = Applied /\ CurrentVersion' = CurrentVersion
  BY DEF Applied, CurrentVersion
<1>5. ASSUME NEW q \in Processes
      PROVE  Prepared(proc[q])' /\ Exclusive(q)'
  <2>1. Prepared(proc[q])'
    BY <1>3, <1>4 DEF Prepared, Covers
  <2>2. CASE q = p
    BY <1>3, <1>4, <2>1, <2>2 DEF Exclusive
  <2>3. CASE q # p
    BY <1>3, <1>4, <2>1, <2>3 DEF Exclusive
  <2> QED
    BY <2>2, <2>3
<1> QED
  BY <1>1, <1>2, <1>5

(* Steps that only move a process on, or send it back to where it starts.   *)
LEMMA ProcessGoes ==
  ASSUME SchemaInv, NEW p \in Processes, NEW label \in Labels, Goto(p, label),
         UNCHANGED <<log, session, lost, trouble>>,
         label \notin {"reading", "applying", "validating"},
         label = "unlocking" => proc[p].pc \in Locked,
         label \in Opened => Covers(proc[p])
  PROVE  SchemaInv'
<1> USE DEF SchemaInv
<1>1. PICK x : x = [proc[p] EXCEPT !.pc = label]
  OBVIOUS
<1>2. x \in ProcRows /\ x.pc = label /\ x.release = proc[p].release /\ x.ok = proc[p].ok
  BY <1>1 DEF SchemaRows, ProcRows
<1>3. proc' = [proc EXCEPT ![p] = x]
  BY <1>1 DEF Goto, SchemaRows
<1>4. Prepared(x)
  BY <1>2 DEF Prepared, Covers
<1>5. ~lost /\ x.pc \in Locked => session' = p
  BY <1>2 DEF Exclusive, Locked
<1> QED
  BY <1>2, <1>3, <1>4, <1>5, ProcessMoves DEF SchemaRows

LEMMA ProcessExits ==
  ASSUME SchemaInv, NEW p \in Processes, ExitProcess(p), UNCHANGED <<log, lost>>,
         session' = session \/ session' = SessionWithout(p), trouble' \in 0 .. MaxTrouble
  PROVE  SchemaInv'
<1> USE DEF SchemaInv
<1>1. PICK x : x = Down(proc[p].release, proc[p].command)
  OBVIOUS
<1>2. x \in ProcRows /\ Prepared(x) /\ x.pc = "down"
  BY <1>1, DownOk DEF SchemaRows, ProcRows
<1>3. proc' = [proc EXCEPT ![p] = x]
  BY <1>1 DEF ExitProcess, SchemaRows
<1> QED
  BY <1>2, <1>3, ProcessMoves DEF SchemaRows, SessionWithout, Locked

(* A schema of exactly the version of a release has all its migrations.     *)
LEMMA CompatibleCovers ==
  ASSUME SchemaInv, NEW p \in Processes, Compatible(p)
  PROVE  Covers(proc[p])
<1>1. CurrentVersion = Shipped[proc[p].release] /\ proc[p].release \in Releases
  BY DEF SchemaInv, SchemaRows, ProcRows, Compatible, LatestVersion
<1>2. CurrentVersion \in Applied
  BY <1>1, SchemaAssumption, VersionApplied DEF SchemaInv, SchemaRows
<1> QED
  BY <1>1, <1>2 DEF SchemaInv, LogInv, NoVersionIsSkipped, Covers

------------------------------------------------------------------------------
(* The log grows at its end, and in order if the lock was never lost.       *)
LEMMA LogGrows ==
  ASSUME SchemaInv, NEW p \in Processes, NEW x \in ProcRows,
         UNCHANGED <<session, lost, trouble>>, proc' = [proc EXCEPT ![p] = x],
         log' \in Seq(Nat), LogInv', Applied \subseteq Applied',
         Prepared(x)',
         ~lost /\ x.pc \in Locked => session = p /\ (x.pc = "applying" => x.seen = CurrentVersion'),
         \A q \in Processes \ {p} :
           ~lost /\ proc[q].pc = "applying" /\ session = q => CurrentVersion' = CurrentVersion
  PROVE  SchemaInv'
<1> USE DEF SchemaInv
<1>1. SchemaRows'
  BY DEF SchemaRows
<1>2. proc'[p] = x /\ \A q \in Processes \ {p} : proc'[q] = proc[q]
  BY DEF SchemaRows
<1>3. ASSUME NEW q \in Processes
      PROVE  Prepared(proc[q])' /\ Exclusive(q)'
  <2>1. CASE q = p
    BY <1>2, <2>1 DEF Exclusive, Prepared, Covers
  <2>2. CASE q # p
    <3>1. proc'[q] = proc[q] /\ Prepared(proc[q]) /\ Exclusive(q)
      BY <1>2, <2>2
    <3>2. Prepared(proc[q])'
      BY <3>1 DEF Prepared, Covers
    <3>3. Exclusive(q)'
      BY <2>2, <3>1 DEF Exclusive, Locked
    <3> QED
      BY <3>2, <3>3
  <2> QED
    BY <2>1, <2>2
<1> QED
  BY <1>1, <1>3

(* The first to look creates the table of versions, with the row of none.   *)
LEMMA TableCreated ==
  ASSUME SchemaInv, log' = VersionTable, UNCHANGED lost
  PROVE  /\ log' \in Seq(Nat) /\ LogInv' /\ Applied \subseteq Applied'
         /\ CurrentVersion' = CurrentVersion /\ CurrentVersion \in Applied'
<1> USE DEF SchemaInv
<1>1. /\ log' \in Seq(Nat) /\ CurrentVersion' = CurrentVersion /\ CurrentVersion \in Applied'
      /\ Applied' = IF log = <<>> THEN {0} ELSE Applied
  BY LogCreated DEF SchemaRows
<1>2. Applied \subseteq Applied'
  BY <1>1, VersionApplied DEF SchemaRows
<1>3. NoVersionIsSkipped' /\ (Applied \subseteq 0 .. Shipped[NewRelease])'
  BY <1>1, SchemaAssumption DEF LogInv, NoVersionIsSkipped, Releases
<1>4. InOrder'
  BY DEF VersionTable, LogInv, InOrder
<1> QED
  BY <1>1, <1>2, <1>3, <1>4 DEF LogInv

LEMMA CheckOnlyStep ==
  ASSUME SchemaInv, NEW p \in Processes, CheckOnly(p)
  PROVE  SchemaInv'
<1> USE DEF SchemaInv
<1>1. /\ log' = VersionTable /\ UNCHANGED <<session, lost, trouble>>
      /\ (Goto(p, "serving") /\ Compatible(p)) \/ ExitProcess(p)
  BY DEF CheckOnly
<1>2. PICK x : x = IF Goto(p, "serving") /\ Compatible(p) THEN [proc[p] EXCEPT !.pc = "serving"]
                   ELSE Down(proc[p].release, proc[p].command)
  OBVIOUS
<1>3. proc[p] \in ProcRows
  BY DEF SchemaRows
<1>4. CASE Goto(p, "serving") /\ Compatible(p)
  <2>1. x = [proc[p] EXCEPT !.pc = "serving"]
    BY <1>2, <1>4
  <2>2. x \in ProcRows /\ x.pc = "serving" /\ x.release = proc[p].release
    BY <1>3, <2>1 DEF ProcRows, Labels
  <2>3. proc' = [proc EXCEPT ![p] = x]
    BY <1>4, <2>1 DEF Goto, SchemaRows
  <2>4. Covers(x)
    BY <1>4, <2>2, CompatibleCovers DEF Covers
  <2>5. Prepared(x)'
    BY <1>1, <2>2, <2>4, TableCreated DEF Prepared, Covers
  <2> QED
    BY <1>1, <2>2, <2>3, <2>5, TableCreated, LogGrows DEF Locked
<1>5. CASE ~(Goto(p, "serving") /\ Compatible(p))
  <2>1. x = Down(proc[p].release, proc[p].command)
    BY <1>2, <1>5
  <2>2. x \in ProcRows /\ x.pc = "down" /\ Prepared(x)'
    BY <1>3, <2>1 DEF ProcRows, Down, Labels, Prepared, Opened
  <2>3. proc' = [proc EXCEPT ![p] = x]
    BY <1>1, <1>5, <2>1 DEF ExitProcess, SchemaRows
  <2> QED
    BY <1>1, <2>2, <2>3, TableCreated, LogGrows DEF Locked
<1> QED
  BY <1>4, <1>5

LEMMA ReadVersionStep ==
  ASSUME SchemaInv, NEW p \in Processes, ReadVersion(p)
  PROVE  SchemaInv'
<1> USE DEF SchemaInv
<1>1. proc[p] \in ProcRows /\ proc[p].pc = "reading" /\ CurrentVersion \in Nat
  BY VersionApplied DEF ReadVersion, At, SchemaRows
<1>2. PICK pc : pc = IF CurrentVersion < LatestVersion(p) THEN "applying" ELSE "validating"
  OBVIOUS
<1>3. PICK x : x = [proc[p] EXCEPT !.seen = CurrentVersion, !.pc = pc]
  OBVIOUS
<1>4. /\ x \in ProcRows /\ x.pc = pc /\ x.seen = CurrentVersion
      /\ x.release = proc[p].release /\ x.ok = proc[p].ok
  BY <1>1, <1>2, <1>3 DEF ProcRows, Labels
<1>5. /\ proc' = [proc EXCEPT ![p] = x] /\ log' = VersionTable
      /\ UNCHANGED <<session, lost, trouble>>
  BY <1>2, <1>3 DEF ReadVersion, SchemaRows
<1>6. /\ log' \in Seq(Nat) /\ LogInv' /\ Applied \subseteq Applied'
      /\ CurrentVersion' = CurrentVersion /\ CurrentVersion \in Applied'
  BY <1>5, TableCreated
<1>7. Prepared(x)'
  BY <1>2, <1>4, <1>6 DEF Prepared, Covers, LatestVersion, Opened
<1>8. ~lost => session = p
  BY <1>1 DEF Exclusive, Locked
<1> QED
  BY <1>4, <1>5, <1>6, <1>7, <1>8, LogGrows

LEMMA RunMigrationStep ==
  ASSUME SchemaInv, NEW p \in Processes, RunMigration(p)
  PROVE  SchemaInv'
<1> USE DEF SchemaInv
<1>1. proc[p] \in ProcRows /\ proc[p].pc = "applying"
  BY DEF RunMigration, At, SchemaRows
<1>2. PICK v : v = NextMigration(p)
  OBVIOUS
<1>3. proc[p].seen \in Nat /\ v = proc[p].seen + 1 /\ proc[p].seen \in Applied
  BY <1>1, <1>2 DEF ProcRows, NextMigration, Prepared
<1>4. v <= Shipped[NewRelease]
  BY <1>1, <1>3, SchemaAssumption DEF Prepared, ProcRows, Releases
<1>5. CASE Runs(v)
  <2>1. log' = Append(log, v) /\ Goto(p, "reading") /\ UNCHANGED <<session, lost, trouble>>
    BY <1>2, <1>5 DEF RunMigration
  <2>2. log' \in Seq(Nat) /\ CurrentVersion' = v /\ Applied' = Applied \cup {v}
    BY <1>3, <2>1, LogAppended DEF SchemaRows
  <2>3. NoVersionIsSkipped'
    BY <1>3, <2>2 DEF LogInv, NoVersionIsSkipped
  <2>4. (Applied \subseteq 0 .. Shipped[NewRelease])'
    <3>1. Shipped[NewRelease] \in Nat
      BY SchemaAssumption DEF Releases
    <3>2. v \in 0 .. Shipped[NewRelease]
      BY <1>3, <1>4, <3>1
    <3>3. Applied \subseteq 0 .. Shipped[NewRelease]
      BY DEF LogInv
    <3> QED
      BY <2>2, <3>2, <3>3
  <2>5. InOrder'
    <3>1. SUFFICES ASSUME ~lost
                   PROVE  \A i \in 1 .. Len(log') : log'[i] = i - 1
      BY <2>1 DEF InOrder
    <3>2. proc[p].seen = CurrentVersion /\ log # <<>>
      BY <1>1, <1>3, <3>1, VersionApplied DEF Exclusive, Locked, SchemaRows
    <3>3. Len(log) \in Nat \ {0} /\ CurrentVersion = Len(log) - 1
      BY <3>1, <3>2 DEF LogInv, InOrder, CurrentVersion, Last, SchemaRows
    <3> QED
      BY <1>3, <2>1, <3>1, <3>2, <3>3 DEF LogInv, InOrder, SchemaRows
  <2>6. PICK x : x = [proc[p] EXCEPT !.pc = "reading"]
    OBVIOUS
  <2>7. x \in ProcRows /\ x.pc = "reading" /\ x.release = proc[p].release /\ x.ok = proc[p].ok
    BY <1>1, <2>6 DEF ProcRows, Labels
  <2>8. proc' = [proc EXCEPT ![p] = x]
    BY <2>1, <2>6 DEF Goto, SchemaRows
  <2>9. Prepared(x)'
    BY <2>2, <2>7 DEF Prepared, Covers, Opened
  <2>10. ~lost => session = p
    BY <1>1 DEF Exclusive, Locked
  <2> QED
    BY <2>1, <2>2, <2>3, <2>4, <2>5, <2>7, <2>8, <2>9, <2>10, LogGrows DEF LogInv
<1>6. CASE ~Runs(v)
  BY <1>1, <1>2, <1>6, ProcessGoes DEF RunMigration, Labels, Locked, Opened
<1> QED
  BY <1>5, <1>6

------------------------------------------------------------------------------
(* The other steps leave the log alone.                                     *)

LEMMA StartStep ==
  ASSUME SchemaInv, NEW p \in Processes, StartProcess(p)
  PROVE  SchemaInv'
<1>1. PICK label \in {"checking", "locking"} : Goto(p, label)
  BY DEF StartProcess
<1> QED
  BY <1>1, ProcessGoes DEF StartProcess, Labels, Opened

LEMMA LockStep ==
  ASSUME SchemaInv, NEW p \in Processes, AcquireMigrationLock(p)
  PROVE  SchemaInv'
<1> USE DEF SchemaInv
<1>1. PICK x : x = [proc[p] EXCEPT !.pc = "reading"]
  OBVIOUS
<1>2. x \in ProcRows /\ x.pc = "reading" /\ x.release = proc[p].release /\ x.ok = proc[p].ok
  BY <1>1 DEF SchemaRows, ProcRows, Labels
<1>3. proc' = [proc EXCEPT ![p] = x] /\ session = NoOne /\ session' = p /\ UNCHANGED <<log, lost, trouble>>
  BY <1>1 DEF AcquireMigrationLock, LockFree, Goto, SchemaRows
<1>4. Prepared(x)
  BY <1>2 DEF Prepared, Covers, Opened
<1> QED
  BY <1>2, <1>3, <1>4, SchemaAssumption, ProcessMoves DEF SchemaRows

LEMMA ValidateStep ==
  ASSUME SchemaInv, NEW p \in Processes, ValidateSchema(p)
  PROVE  SchemaInv'
<1> USE DEF SchemaInv
<1>1. PICK ok \in BOOLEAN : ok = Compatible(p)
  BY DEF Compatible, PlatformSchemaValid
<1>2. PICK x : x = [proc[p] EXCEPT !.pc = "unlocking", !.ok = ok]
  OBVIOUS
<1>3. x \in ProcRows /\ x.pc = "unlocking" /\ x.release = proc[p].release /\ x.ok = ok
  BY <1>1, <1>2 DEF SchemaRows, ProcRows, Labels
<1>4. proc' = [proc EXCEPT ![p] = x] /\ proc[p].pc = "validating" /\ UNCHANGED <<log, session, lost, trouble>>
  BY <1>1, <1>2 DEF ValidateSchema, At, SchemaRows
<1>5. Prepared(x)
  BY <1>1, <1>3, CompatibleCovers DEF Prepared, Covers, Opened
<1>6. ~lost => session' = p
  BY <1>4 DEF Exclusive, Locked
<1> QED
  BY <1>3, <1>4, <1>5, <1>6, ProcessMoves DEF SchemaRows

LEMMA UnlockStep ==
  ASSUME SchemaInv, NEW p \in Processes, Unlock(p)
  PROVE  SchemaInv'
<1> USE DEF SchemaInv
<1>1. UNCHANGED <<log, lost, trouble>> /\ session' = SessionWithout(p)
  BY DEF Unlock, SessionAfterUnlock, SessionWithout
<1>2. CASE ExitProcess(p)
  BY <1>1, <1>2, ProcessExits DEF SchemaRows
<1>3. CASE ~ExitProcess(p)
  <2>1. PICK label : label = AfterOpening(proc[p].command)
    OBVIOUS
  <2>2. label \in {"serving", "reporting", "creating"} /\ Goto(p, label) /\ proc[p].ok
    BY <1>3, <2>1 DEF Unlock, AfterOpening
  <2>3. PICK x : x = [proc[p] EXCEPT !.pc = label]
    OBVIOUS
  <2>4. x \in ProcRows /\ x.pc = label /\ x.release = proc[p].release /\ x.ok
    BY <2>2, <2>3 DEF SchemaRows, ProcRows, Labels
  <2>5. proc' = [proc EXCEPT ![p] = x]
    BY <2>2, <2>3 DEF Goto, SchemaRows
  <2>6. Prepared(x)
    BY <2>2, <2>4 DEF Prepared, Covers
  <2> QED
    BY <1>1, <2>2, <2>4, <2>5, <2>6, ProcessMoves DEF SchemaRows, SessionWithout, Locked
<1> QED
  BY <1>2, <1>3

LEMMA ReportStep ==
  ASSUME SchemaInv, NEW p \in Processes, ReportMigration(p)
  PROVE  SchemaInv'
<1>1. CASE Goto(p, "done") /\ Compatible(p)
  BY <1>1, CompatibleCovers, ProcessGoes DEF ReportMigration, Labels, Opened
<1>2. CASE ExitProcess(p)
  BY <1>2, ProcessExits DEF ReportMigration, SchemaInv, SchemaRows
<1> QED
  BY <1>1, <1>2 DEF ReportMigration

LEMMA ProbeStep ==
  ASSUME SchemaInv, NEW p \in Processes, CheckReadiness(p)
  PROVE  SchemaInv'
<1> USE DEF SchemaInv
<1>1. PICK ready \in BOOLEAN : ready = MigrationsReady(p)
  BY DEF MigrationsReady, Compatible, PlatformSchemaValid
<1>2. PICK x : x = [proc[p] EXCEPT !.ready = ready]
  OBVIOUS
<1>3. /\ x \in ProcRows /\ x.pc = "serving" /\ x.pc = proc[p].pc
      /\ x.release = proc[p].release /\ x.ok = proc[p].ok
  BY <1>1, <1>2 DEF CheckReadiness, At, SchemaRows, ProcRows
<1>4. proc' = [proc EXCEPT ![p] = x] /\ UNCHANGED <<log, session, lost, trouble>>
  BY <1>1, <1>2 DEF CheckReadiness, SchemaRows
<1>5. Prepared(x)
  BY <1>3 DEF Prepared, Covers
<1> QED
  BY <1>3, <1>4, <1>5, ProcessMoves DEF SchemaRows, Locked

LEMMA RedeployStep ==
  ASSUME SchemaInv, NEW p \in Processes, Redeploy(p)
  PROVE  SchemaInv'
<1> USE DEF SchemaInv
<1>1. PICK x : x = Down(NewRelease, "run --migrate")
  OBVIOUS
<1>2. x \in ProcRows /\ Prepared(x) /\ x.pc = "down"
  BY <1>1, DownOk DEF Releases, Commands
<1>3. proc' = [proc EXCEPT ![p] = x] /\ session' = SessionWithout(p) /\ UNCHANGED <<log, lost, trouble>>
  BY <1>1 DEF Redeploy
<1> QED
  BY <1>2, <1>3, ProcessMoves DEF SchemaRows, SessionWithout, Locked

LEMMA DiesStep ==
  ASSUME SchemaInv, NEW p \in Processes, Dies(p)
  PROVE  SchemaInv'
BY SchemaAssumption, ProcessExits DEF Dies, SchemaInv, SchemaRows

(* Without its lock a migrator goes on, and promises less.                  *)
LEMMA DisturbStep ==
  ASSUME SchemaInv, LoseSession \/ AlterLeases
  PROVE  SchemaInv'
<1> USE DEF SchemaInv
<1>1. UNCHANGED <<log, proc>> /\ trouble' \in 0 .. MaxTrouble
  BY SchemaAssumption DEF LoseSession, AlterLeases, SchemaRows
<1>2. \/ session' = NoOne /\ lost' = TRUE
      \/ UNCHANGED <<session, lost>>
  BY DEF LoseSession, AlterLeases
<1>3. lost' \in BOOLEAN
  BY <1>2, Zenon DEF SchemaRows
<1>4. SchemaRows'
  BY <1>1, <1>2, <1>3 DEF SchemaRows
<1>5. LogInv'
  BY <1>1, <1>2 DEF LogInv, NoVersionIsSkipped, Applied, InOrder
<1>6. ASSUME NEW p \in Processes
      PROVE  Prepared(proc[p])' /\ Exclusive(p)'
  BY <1>1, <1>2 DEF Prepared, Covers, Applied, Exclusive, CurrentVersion
<1> QED
  BY <1>4, <1>5, <1>6

LEMMA SchemaKept == ASSUME SchemaInv, UNCHANGED schemaVars PROVE SchemaInv'
BY DEF SchemaInv, SchemaRows, LogInv, NoVersionIsSkipped, InOrder, Prepared, Covers, Applied,
       Exclusive, CurrentVersion, schemaVars

------------------------------------------------------------------------------
(* What holds of the issuers and of the transactions that change them.      *)

IssuerRows == {NoRow} \cup [status : {"active", "disabled"}, default : BOOLEAN]
TxRows ==
  [at : {"idle", "begun", "register", "account", "update", "commit"},
   op : {"none", "create", "patch"}, name : Names \cup {Nobody},
   status : {"active", "disabled", "keep"}, default : {"yes", "no", "keep"},
   row : IssuerRows, url : Urls \cup {Nobody}, owns : BOOLEAN]

(* A transaction has an issuer, a new row until it updates it, and an account *)
(* that it inserted only after the CA named it.                             *)
Shaped(x) ==
  /\ x.at # "idle" => x.name \in Names
  /\ x.at = "begun" => x.row = NoRow
  /\ x.at \in {"register", "account", "update"} => x.row = NewRow
  /\ x.at = "commit" => x.row # NoRow
  /\ x.at = "idle" => x.row = NoRow
  /\ x.at = "account" => x.url \in Urls
  /\ x.owns => x.at \in {"update", "commit"} /\ x.url \in Urls

(* What a transaction wrote is one row beside the committed ones, and those *)
(* of the other transactions.                                               *)
OtherDefaults(p, others) ==
  IsActiveDefault(tx[p].row) =>
    /\ \A n \in Names \ {tx[p].name} : ~IsActiveDefault(issuers[n])
    /\ \A q \in others : ~IsActiveDefault(tx[q].row)
InsertsAccount(p, others) ==
  tx[p].owns =>
    /\ accounts[tx[p].url] = Nobody
    /\ \A q \in others : ~(tx[q].owns /\ tx[q].url = tx[p].url)
HasAccount(p) ==
  tx[p].row.status = "active" => tx[p].owns \/ \E u \in Urls : accounts[u] = tx[p].name

Pending(p) ==
  /\ Shaped(tx[p])
  /\ OtherDefaults(p, Workers \ {p})
  /\ InsertsAccount(p, Workers \ {p})
  /\ HasAccount(p)

IssuersRowsOk ==
  /\ issuers \in [Names -> IssuerRows]
  /\ accounts \in [Urls -> Names \cup {Nobody}]
  /\ tx \in [Workers -> TxRows]

TransactionsInv ==
  /\ IssuersRowsOk
  /\ IssuersInv
  /\ \A p \in Workers : Pending(p)

LEMMA NoTxOk == NoTx \in TxRows /\ Shaped(NoTx) /\ ~IsActiveDefault(NoTx.row) /\ NoTx.row = NoRow
BY DEF NoTx, TxRows, IssuerRows, NoRow, Shaped, IsActiveDefault

LEMMA NewRowOk == NewRow \in IssuerRows /\ NewRow.status = "disabled" /\ ~IsActiveDefault(NewRow)
BY DEF NewRow, IssuerRows, IsActiveDefault

LEMMA NoTxPends ==
  ASSUME NEW p \in Workers, tx[p] = NoTx
  PROVE  Pending(p)
BY NoTxOk DEF Pending, NoTx, NoRow, Shaped, IsActiveDefault, OtherDefaults, InsertsAccount, HasAccount

LEMMA IssuersInitHolds == IssuersInit \/ EarlierIssuers => TransactionsInv
<1>1. ASSUME IssuersInit \/ EarlierIssuers
      PROVE  tx \in [Workers -> TxRows] /\ \A p \in Workers : Pending(p)
  BY <1>1, NoTxOk, NoTxPends DEF IssuersInit, EarlierIssuers
<1>2. ASSUME IssuersInit
      PROVE  /\ issuers \in [Names -> IssuerRows] /\ accounts \in [Urls -> Names \cup {Nobody}]
             /\ IssuersInv
  BY <1>2 DEF IssuersInit, IssuerRows, NoRow, IssuersInv, OneActiveDefault, ActiveIssuersHaveAccounts,
              IsActiveDefault
<1>3. ASSUME EarlierIssuers
      PROVE  /\ issuers \in [Names -> IssuerRows] /\ accounts \in [Urls -> Names \cup {Nobody}]
             /\ IssuersInv
  <2>1. PICK made \in SUBSET Names :
          /\ issuers \in [Names -> IssuerRows]
          /\ \A n \in Names : issuers[n] # NoRow <=> n \in made
          /\ accounts = CHOOSE a \in [Urls -> made \cup {Nobody}] : AccountEach(made, a)
    BY <1>3 DEF EarlierIssuers, IssuerRows
  <2>2. accounts \in [Urls -> made \cup {Nobody}] /\ AccountEach(made, accounts)
    BY <2>1, StartupAssumption
  <2>3. ASSUME NEW n \in Names, issuers[n].status = "active"
        PROVE  \E u \in Urls : accounts[u] = n
    <3>1. n \in made
      BY <2>1, <2>3 DEF NoRow
    <3>2. PICK u \in Urls : {v \in Urls : accounts[v] = n} = {u}
      BY <2>2, <3>1 DEF AccountEach
    <3> QED
      BY <3>2
  <2>4. OneActiveDefault
    BY <1>3 DEF EarlierIssuers, OneActiveDefault
  <2> QED
    BY <2>1, <2>2, <2>3, <2>4 DEF IssuersInv, ActiveIssuersHaveAccounts
<1> QED
  BY <1>1, <1>2, <1>3 DEF TransactionsInv, IssuersRowsOk

(* A statement writes its own transaction only: enough that the row and the *)
(* account of that one agree with the others.                               *)
LEMMA TransactionMoves ==
  ASSUME TransactionsInv, NEW p \in Workers, NEW x \in TxRows,
         UNCHANGED <<issuers, accounts>>, tx' = [tx EXCEPT ![p] = x],
         Shaped(x),
         IsActiveDefault(x.row) =>
           /\ \A n \in Names \ {x.name} : ~IsActiveDefault(issuers[n])
           /\ \A q \in Workers \ {p} : ~IsActiveDefault(tx[q].row),
         x.owns =>
           /\ accounts[x.url] = Nobody
           /\ \A q \in Workers \ {p} : ~(tx[q].owns /\ tx[q].url = x.url),
         x.row.status = "active" => x.owns \/ \E u \in Urls : accounts[u] = x.name
  PROVE  TransactionsInv'
<1> USE DEF TransactionsInv
<1>1. IssuersRowsOk'
  BY DEF IssuersRowsOk
<1>2. tx'[p] = x /\ \A q \in Workers \ {p} : tx'[q] = tx[q]
  BY DEF IssuersRowsOk
<1>3. IssuersInv'
  BY DEF IssuersInv, OneActiveDefault, ActiveIssuersHaveAccounts
<1>4. Pending(p)'
  BY <1>2 DEF Pending, OtherDefaults, InsertsAccount, HasAccount
<1>5. ASSUME NEW q \in Workers, q # p
      PROVE  Pending(q)'
  <2>1. Pending(q) /\ tx'[q] = tx[q]
    BY <1>2, <1>5
  <2>2. OtherDefaults(q, Workers \ {q})'
    BY <1>2, <1>5, <2>1 DEF Pending, OtherDefaults
  <2>3. InsertsAccount(q, Workers \ {q})'
    BY <1>2, <1>5, <2>1 DEF Pending, InsertsAccount
  <2> QED
    BY <2>1, <2>2, <2>3 DEF Pending, HasAccount
<1> QED
  BY <1>1, <1>3, <1>4, <1>5

LEMMA TransactionEnds ==
  ASSUME TransactionsInv, NEW p \in Workers, RollbackTx(p)
  PROVE  TransactionsInv'
BY NoTxOk, TransactionMoves DEF RollbackTx, EndTx, NoTx, NoRow

LEMMA BeginStep ==
  ASSUME TransactionsInv, NEW p \in Workers, NEW r \in Creations \cup Patches,
         BeginRequest(p, r)
  PROVE  TransactionsInv'
<1>1. /\ r.op \in {"create", "patch"} /\ r.name \in Names
      /\ r.status \in {"active", "disabled", "keep"} /\ r.default \in {"yes", "no", "keep"}
  BY DEF Creations, Patches
<1>2. PICK x : x = [NoTx EXCEPT !.at = "begun", !.op = r.op, !.name = r.name,
                                !.status = r.status, !.default = r.default]
  OBVIOUS
<1>3. /\ x \in TxRows /\ Shaped(x) /\ x.row = NoRow /\ ~x.owns
      /\ ~IsActiveDefault(x.row) /\ x.row.status = "none"
  BY <1>1, <1>2 DEF NoTx, TxRows, IssuerRows, NoRow, Shaped, IsActiveDefault
<1>4. tx' = [tx EXCEPT ![p] = x] /\ UNCHANGED <<issuers, accounts>>
  BY <1>2 DEF BeginRequest
<1> QED
  BY <1>3, <1>4, TransactionMoves

LEMMA InsertStep ==
  ASSUME TransactionsInv, NEW p \in Workers, InsertIssuer(p)
  PROVE  TransactionsInv'
<1> USE DEF TransactionsInv
<1>1. CASE EndTx(p)
  BY <1>1, TransactionEnds DEF InsertIssuer, RollbackTx
<1>2. CASE tx' = [tx EXCEPT ![p].at = "register", ![p].row = NewRow]
  <2>1. PICK x : x = [tx[p] EXCEPT !.at = "register", !.row = NewRow]
    OBVIOUS
  <2>2. tx[p] \in TxRows /\ Shaped(tx[p]) /\ tx[p].at = "begun"
    BY DEF InsertIssuer, IssuersRowsOk, Pending
  <2>3. x \in TxRows /\ Shaped(x) /\ ~x.owns /\ x.row = NewRow
    BY <2>1, <2>2, NewRowOk DEF TxRows, Shaped
  <2>4. tx' = [tx EXCEPT ![p] = x]
    BY <1>2, <2>1 DEF IssuersRowsOk
  <2> QED
    BY <2>3, <2>4, NewRowOk, TransactionMoves DEF InsertIssuer
<1> QED
  BY <1>1, <1>2 DEF InsertIssuer

LEMMA RegisterStep ==
  ASSUME TransactionsInv, NEW p \in Workers, NEW u \in Urls, RegisterAccount(p, u)
  PROVE  TransactionsInv'
<1> USE DEF TransactionsInv
<1>1. PICK x : x = [tx[p] EXCEPT !.at = "account", !.url = u]
  OBVIOUS
<1>2. tx[p] \in TxRows /\ Shaped(tx[p]) /\ tx[p].at = "register"
  BY DEF RegisterAccount, IssuersRowsOk, Pending
<1>3. x \in TxRows /\ Shaped(x) /\ ~x.owns /\ x.row = NewRow
  BY <1>1, <1>2 DEF TxRows, Shaped
<1>4. tx' = [tx EXCEPT ![p] = x] /\ UNCHANGED <<issuers, accounts>>
  BY <1>1 DEF RegisterAccount, IssuersRowsOk
<1> QED
  BY <1>3, <1>4, NewRowOk, TransactionMoves

(* The account is inserted unless there is one, or another transaction has  *)
(* inserted it.                                                             *)
LEMMA EnsureStep ==
  ASSUME TransactionsInv, NEW p \in Workers, EnsureACMEAccount(p)
  PROVE  TransactionsInv'
<1> USE DEF TransactionsInv
<1>1. PICK owns \in BOOLEAN : owns = (accounts[tx[p].url] = Nobody)
  OBVIOUS
<1>2. PICK x : x = [tx[p] EXCEPT !.at = "update", !.owns = owns]
  OBVIOUS
<1>3. tx[p] \in TxRows /\ Shaped(tx[p]) /\ tx[p].at = "account"
  BY DEF EnsureACMEAccount, IssuersRowsOk, Pending
<1>4. x \in TxRows /\ x.at = "update" /\ x.owns = owns /\ x.url = tx[p].url /\ x.row = tx[p].row /\ x.name = tx[p].name
  BY <1>1, <1>2, <1>3 DEF TxRows
<1>5. Shaped(x) /\ x.row = NewRow
  BY <1>3, <1>4 DEF Shaped
<1>6. tx' = [tx EXCEPT ![p] = x] /\ UNCHANGED <<issuers, accounts>>
  BY <1>1, <1>2 DEF EnsureACMEAccount, IssuersRowsOk
<1>7. x.owns => /\ accounts[x.url] = Nobody
                /\ \A q \in Workers \ {p} : ~(tx[q].owns /\ tx[q].url = x.url)
  BY <1>1, <1>4 DEF EnsureACMEAccount
<1> QED
  BY <1>4, <1>5, <1>6, <1>7, NewRowOk, TransactionMoves

(* The index waits for, and sees, every other active default.               *)
LEMMA UpdateStep ==
  ASSUME TransactionsInv, NEW p \in Workers, UpdateIssuer(p)
  PROVE  TransactionsInv'
<1> USE DEF TransactionsInv
<1>1. CASE EndTx(p)
  BY <1>1, TransactionEnds DEF UpdateIssuer, RollbackTx
<1>2. CASE ~EndTx(p)
  <2>1. /\ ~Refused(p) /\ UNCHANGED <<issuers, accounts>>
        /\ IsActiveDefault(Wanted(p)) => ~DefaultInFlight(p) /\ ~DefaultTaken(p)
        /\ tx' = [tx EXCEPT ![p].at = "commit", ![p].row = Wanted(p)]
    BY <1>2 DEF UpdateIssuer
  <2>2. /\ tx[p] \in TxRows /\ Pending(p) /\ Shaped(tx[p]) /\ tx[p].name \in Names
        /\ tx[p].at \in {"update", "begun"}
    BY DEF UpdateIssuer, IssuersRowsOk, Pending, Shaped
  <2>3. RowSeen(p) \in IssuerRows \ {NoRow}
    BY <2>1, <2>2 DEF Refused, RowSeen, IssuersRowsOk, TxRows
  <2>4. PICK row : row = Wanted(p)
    OBVIOUS
  <2>5. row.status = (IF tx[p].status = "keep" THEN RowSeen(p).status ELSE tx[p].status)
    BY <2>4 DEF Wanted
  <2>6. row \in IssuerRows \ {NoRow}
    <3>1. RowSeen(p).status \in {"active", "disabled"} /\ RowSeen(p).default \in BOOLEAN
      BY <2>3 DEF IssuerRows
    <3>2. tx[p].status \in {"active", "disabled", "keep"}
      BY <2>2 DEF TxRows
    <3> QED
      BY <2>4, <3>1, <3>2 DEF Wanted, IssuerRows, NoRow
  <2>7. PICK x : x = [tx[p] EXCEPT !.at = "commit", !.row = row]
    OBVIOUS
  <2>8. /\ x \in TxRows /\ x.at = "commit" /\ x.row = row /\ x.name = tx[p].name
        /\ x.owns = tx[p].owns /\ x.url = tx[p].url
    BY <2>2, <2>6, <2>7 DEF TxRows
  <2>9. Shaped(x)
    BY <2>2, <2>6, <2>8 DEF Shaped
  <2>10. tx' = [tx EXCEPT ![p] = x]
    BY <2>1, <2>4, <2>7 DEF IssuersRowsOk
  <2>11. ASSUME IsActiveDefault(row)
         PROVE  /\ \A n \in Names \ {x.name} : ~IsActiveDefault(issuers[n])
                /\ \A q \in Workers \ {p} : ~IsActiveDefault(tx[q].row)
    <3>1. \A n \in Names \ {x.name} : ~IsActiveDefault(issuers[n])
      BY <2>1, <2>4, <2>8, <2>11 DEF DefaultTaken
    <3>2. \A q \in Workers \ {p} : IsActiveDefault(tx[q].row) => q \in OtherWriters(p)
      BY DEF OtherWriters, IsActiveDefault, NoRow
    <3> QED
      BY <2>1, <2>4, <2>11, <3>1, <3>2 DEF DefaultInFlight
  <2>12. x.row.status = "active" => x.owns \/ \E u \in Urls : accounts[u] = x.name
    <3>1. CASE tx[p].status = "keep"
      BY <2>2, <2>5, <2>8, <3>1
         DEF RowSeen, Pending, HasAccount, IssuersInv, ActiveIssuersHaveAccounts
    <3>2. CASE tx[p].status # "keep"
      BY <2>1, <2>5, <2>8, <3>2 DEF Refused, HasActiveAccount
    <3> QED
      BY <3>1, <3>2
  <2>13. x.owns => /\ accounts[x.url] = Nobody
                   /\ \A q \in Workers \ {p} : ~(tx[q].owns /\ tx[q].url = x.url)
    BY <2>2, <2>8 DEF Pending, InsertsAccount
  <2> QED
    BY <2>1, <2>8, <2>9, <2>10, <2>11, <2>12, <2>13, TransactionMoves
<1> QED
  BY <1>1, <1>2

(* The row and the account of a transaction become everybody's.             *)
LEMMA CommitStep ==
  ASSUME TransactionsInv, NEW p \in Workers, CommitTx(p)
  PROVE  TransactionsInv'
<1> USE DEF TransactionsInv
<1>1. /\ tx[p] \in TxRows /\ Pending(p) /\ Shaped(tx[p]) /\ tx[p].at = "commit"
      /\ tx[p].name \in Names /\ tx[p].row \in IssuerRows
  BY DEF CommitTx, IssuersRowsOk, Pending, Shaped, TxRows
<1>2. PICK m \in Names, row \in IssuerRows : m = tx[p].name /\ row = tx[p].row
  BY <1>1
<1>3. /\ issuers' \in [Names -> IssuerRows]
      /\ issuers'[m] = row /\ \A n \in Names \ {m} : issuers'[n] = issuers[n]
  BY <1>2 DEF CommitTx, IssuersRowsOk
<1>4. /\ accounts' \in [Urls -> Names \cup {Nobody}]
      /\ \A u \in Urls : accounts'[u] = IF tx[p].owns /\ u = tx[p].url THEN m ELSE accounts[u]
  <2>1. CASE tx[p].owns
    BY <1>1, <1>2, <2>1 DEF CommitTx, IssuersRowsOk, Shaped
  <2>2. CASE ~tx[p].owns
    BY <1>2, <2>2 DEF CommitTx, IssuersRowsOk
  <2> QED
    BY <2>1, <2>2
<1>5. tx' \in [Workers -> TxRows] /\ tx'[p] = NoTx /\ \A q \in Workers \ {p} : tx'[q] = tx[q]
  BY NoTxOk DEF CommitTx, EndTx, IssuersRowsOk
<1>6. \A u \in Urls : accounts[u] # Nobody => accounts'[u] = accounts[u]
  BY <1>1, <1>4 DEF Pending, InsertsAccount
<1>7. \A n \in Names : (\E u \in Urls : accounts[u] = n) => \E u \in Urls : accounts'[u] = n
  BY <1>6, IssuersAssumption
<1>8. OneActiveDefault'
  <2>1. SUFFICES ASSUME NEW k \in Names, NEW n \in Names,
                        IsActiveDefault(issuers'[k]), IsActiveDefault(issuers'[n])
                 PROVE  k = n
    BY DEF OneActiveDefault, IsActiveDefault
  <2>2. CASE IsActiveDefault(row)
    BY <1>1, <1>2, <1>3, <2>1, <2>2 DEF Pending, OtherDefaults
  <2>3. CASE ~IsActiveDefault(row)
    <3>1. k # m /\ n # m
      BY <1>3, <2>1, <2>3
    <3> QED
      BY <1>3, <2>1, <3>1 DEF IssuersInv, OneActiveDefault
  <2> QED
    BY <2>2, <2>3
<1>9. ASSUME NEW n \in Names, issuers'[n].status = "active"
      PROVE  \E u \in Urls : accounts'[u] = n
  <2>1. CASE n # m
    BY <1>3, <1>7, <1>9, <2>1 DEF IssuersInv, ActiveIssuersHaveAccounts
  <2>2. CASE n = m
    <3>1. CASE tx[p].owns
      <4>1. tx[p].url \in Urls /\ accounts'[tx[p].url] = m
        BY <1>1, <1>4, <3>1 DEF Shaped
      <4> QED
        BY <2>2, <4>1
    <3>2. CASE ~tx[p].owns
      BY <1>1, <1>2, <1>3, <1>7, <1>9, <2>2, <3>2 DEF Pending, HasAccount
    <3> QED
      BY <3>1, <3>2
  <2> QED
    BY <2>1, <2>2
<1>10. ASSUME NEW q \in Workers, q # p
       PROVE  Pending(q)'
  <2>1. Pending(q) /\ tx'[q] = tx[q] /\ tx[q] \in TxRows
    BY <1>5, <1>10 DEF IssuersRowsOk
  <2>2. OtherDefaults(q, Workers \ {q})'
    <3>1. SUFFICES ASSUME IsActiveDefault(tx[q].row)
                   PROVE  /\ \A n \in Names \ {tx[q].name} : ~IsActiveDefault(issuers'[n])
                          /\ \A r \in Workers \ {q} : ~IsActiveDefault(tx'[r].row)
      BY <2>1 DEF OtherDefaults, IsActiveDefault
    <3>2. ~IsActiveDefault(row)
      BY <1>1, <1>2, <1>10, <2>1, <3>1 DEF Pending, OtherDefaults
    <3>3. \A n \in Names \ {tx[q].name} : ~IsActiveDefault(issuers'[n])
      BY <1>3, <2>1, <3>1, <3>2 DEF Pending, OtherDefaults
    <3>4. \A r \in Workers \ {q} : ~IsActiveDefault(tx'[r].row)
      BY <1>5, <2>1, <3>1, NoTxOk DEF Pending, OtherDefaults
    <3> QED
      BY <3>3, <3>4
  <2>3. InsertsAccount(q, Workers \ {q})'
    <3>1. SUFFICES ASSUME tx[q].owns
                   PROVE  /\ accounts'[tx[q].url] = Nobody
                          /\ \A r \in Workers \ {q} : ~(tx'[r].owns /\ tx'[r].url = tx[q].url)
      BY <2>1 DEF InsertsAccount
    <3>2. /\ tx[q].url \in Urls /\ accounts[tx[q].url] = Nobody
          /\ \A r \in Workers \ {q} : ~(tx[r].owns /\ tx[r].url = tx[q].url)
      BY <2>1, <3>1 DEF Pending, Shaped, InsertsAccount
    <3>3. accounts'[tx[q].url] = Nobody
      BY <1>4, <1>10, <3>2
    <3>4. \A r \in Workers \ {q} : ~(tx'[r].owns /\ tx'[r].url = tx[q].url)
      BY <1>5, <3>2 DEF NoTx
    <3> QED
      BY <3>3, <3>4
  <2>4. HasAccount(q)'
    <3>1. tx[q].row.status = "active" => tx[q].at # "idle"
      BY <2>1 DEF Pending, Shaped, NoRow
    <3> QED
      BY <1>7, <2>1, <3>1 DEF Pending, HasAccount, Shaped
  <2> QED
    BY <2>1, <2>2, <2>3, <2>4 DEF Pending
<1>11. Pending(p)'
  BY <1>5, NoTxOk DEF Pending, NoTx, NoRow, IsActiveDefault, OtherDefaults, InsertsAccount, HasAccount
<1> QED
  BY <1>3, <1>4, <1>5, <1>8, <1>9, <1>10, <1>11
     DEF IssuersRowsOk, IssuersInv, ActiveIssuersHaveAccounts

LEMMA TransactionsKept == ASSUME TransactionsInv, UNCHANGED issuerVars PROVE TransactionsInv'
BY DEF TransactionsInv, IssuersRowsOk, IssuersInv, OneActiveDefault, ActiveIssuersHaveAccounts, Pending,
       OtherDefaults, InsertsAccount, HasAccount, issuerVars

------------------------------------------------------------------------------
(* The upgrade and the administrators.                                      *)

StartupInv == SchemaInv /\ TransactionsInv /\ requests \in 0 .. MaxRequests

LEMMA InitHolds == Init => StartupInv
BY SchemaInitHolds, IssuersInitHolds, StartupAssumption DEF Init, StartupInv

(* Steps of the processes and of the database, beside the issuers.          *)
LEMMA ProcessStep ==
  ASSUME StartupInv, NEW p \in Processes, Starting(p) \/ Locking(p) \/ Opening(p) \/ Probe(p)
  PROVE  StartupInv'
<1> USE DEF StartupInv
<1>1. SchemaInv'
  BY StartStep, LockStep, ProbeStep, CheckOnlyStep, ReadVersionStep, RunMigrationStep, ValidateStep,
     UnlockStep, ReportStep DEF Starting, Locking, Opening, Probe, OpeningStep
<1>2. UNCHANGED <<issuerVars, requests>>
  BY DEF Starting, Locking, Opening, Probe
<1> QED
  BY <1>1, <1>2, TransactionsKept

LEMMA StopsStep ==
  ASSUME StartupInv, NEW p \in Processes, Stops(p)
  PROVE  StartupInv'
BY StartupAssumption, DiesStep, RedeployStep, TransactionEnds DEF Stops, StartupInv

LEMMA DisturbedStep == ASSUME StartupInv, Disturb PROVE StartupInv'
BY DisturbStep, TransactionsKept DEF Disturb, StartupInv

LEMMA ServeStep ==
  ASSUME StartupInv, NEW p \in Processes, Serve(p)
  PROVE  StartupInv'
<1> USE DEF StartupInv
<1>1. PICK r \in Creations \cup Patches : BeginRequest(p, r)
  BY DEF Serve
<1>2. requests' \in 0 .. MaxRequests
  BY StartupAssumption DEF Serve
<1>3. UNCHANGED schemaVars
  BY DEF Serve
<1> QED
  BY <1>1, <1>2, <1>3, StartupAssumption, BeginStep, SchemaKept

LEMMA BootstrapStep ==
  ASSUME StartupInv, NEW p \in Processes, BeginBootstrap(p) \/ EndBootstrap(p)
  PROVE  StartupInv'
<1> USE DEF StartupInv
<1>1. UNCHANGED <<log, session, lost, trouble, requests>>
  BY DEF BeginBootstrap, EndBootstrap
<1>2. TransactionsInv'
  <2>1. CASE BeginBootstrap(p)
    BY <2>1, StartupAssumption, BeginStep DEF BeginBootstrap, BootRequests
  <2>2. CASE EndBootstrap(p)
    BY <2>2, TransactionsKept DEF EndBootstrap
  <2> QED
    BY <2>1, <2>2
<1>3. SchemaInv'
  <2>1. CASE ExitProcess(p)
    BY <1>1, <2>1, ProcessExits DEF SchemaInv, SchemaRows
  <2>2. ASSUME NEW label \in {"created", "done"}, Goto(p, label), proc[p].pc \in Opened
        PROVE  SchemaInv'
    <3>1. Covers(proc[p])
      BY <2>2 DEF SchemaInv, Prepared
    <3> QED
      BY <1>1, <2>2, <3>1, ProcessGoes DEF Labels
  <2> QED
    BY <2>1, <2>2 DEF BeginBootstrap, EndBootstrap, At, Opened
<1> QED
  BY <1>1, <1>2, <1>3

LEMMA TransactionStep ==
  ASSUME StartupInv, NEW p \in Processes, Transaction(p) \/ RegistrationTrouble(p)
  PROVE  StartupInv'
<1> USE DEF StartupInv
<1>1. p \in Workers
  BY StartupAssumption
<1>2. TransactionsInv'
  BY <1>1, InsertStep, EnsureStep, UpdateStep, CommitStep, RegisterStep, TransactionEnds
     DEF Transaction, TxStep, RegistrationTrouble, NewAccounts
<1>3. UNCHANGED requests
  BY DEF Transaction, RegistrationTrouble
<1>4. CASE Transaction(p)
  BY <1>2, <1>3, <1>4, SchemaKept DEF Transaction
<1>5. CASE RegistrationTrouble(p)
  <2>1. UNCHANGED <<log, session, proc, lost>> /\ trouble' \in 0 .. MaxTrouble
    BY <1>5, SchemaAssumption DEF RegistrationTrouble, SchemaInv, SchemaRows
  <2>2. SchemaInv'
    BY <2>1 DEF SchemaInv, SchemaRows, LogInv, NoVersionIsSkipped, InOrder, Prepared, Covers, Applied,
                Exclusive, CurrentVersion
  <2> QED
    BY <1>2, <1>3, <2>2
<1> QED
  BY <1>4, <1>5

LEMMA NextHolds ==
  ASSUME StartupInv, [Next]_vars
  PROVE  StartupInv'
<1>1. ASSUME NEW p \in Processes, Starting(p) \/ Locking(p) \/ Opening(p) \/ Probe(p)
      PROVE  StartupInv'
  BY <1>1, ProcessStep
<1>2. ASSUME NEW p \in Processes, Serve(p)
      PROVE  StartupInv'
  BY <1>2, ServeStep
<1>3. ASSUME NEW p \in Processes, BeginBootstrap(p) \/ EndBootstrap(p)
      PROVE  StartupInv'
  BY <1>3, BootstrapStep
<1>4. ASSUME NEW p \in Processes, Transaction(p) \/ RegistrationTrouble(p)
      PROVE  StartupInv'
  BY <1>4, TransactionStep
<1>5. ASSUME NEW p \in Processes, Stops(p)
      PROVE  StartupInv'
  BY <1>5, StopsStep
<1>6. CASE Disturb
  BY <1>6, DisturbedStep
<1>7. CASE UNCHANGED vars
  BY <1>7, SchemaKept, TransactionsKept DEF vars, StartupInv
<1> QED
  BY <1>1, <1>2, <1>3, <1>4, <1>5, <1>6, <1>7 DEF Next

(* Migrations, processes and transactions keep what they rely on.           *)
THEOREM StartupHolds == Spec => []StartupInv
BY InitHolds, NextHolds, PTL DEF Spec

(* Whichever transactions run at once, one issuer at most is the active     *)
(* default, and every active one has an account of its own.                 *)
THEOREM IssuersSafe == Spec => []IssuersInv
<1>1. StartupInv => IssuersInv
  BY DEF StartupInv, TransactionsInv
<1> QED
  BY <1>1, StartupHolds, PTL

(* The migrations are applied in order while the lock is not lost, none is  *)
(* ever missing below one that is applied, and nobody is opened on less.    *)
THEOREM UpgradeSafe == Spec => []UpgradeInv
<1>1. ASSUME StartupInv
      PROVE  UpgradeInv
  <2> USE <1>1 DEF StartupInv, SchemaInv
  <2>1. AppliedInOrder
    BY InOrderSuffices DEF SchemaRows, LogInv
  <2>2. CurrentVersion \in 0 .. Shipped[NewRelease]
    <3>1. Shipped[NewRelease] \in Nat
      BY SchemaAssumption DEF Releases
    <3> QED
      BY <3>1, VersionApplied DEF SchemaRows, LogInv
  <2>3. \A n \in Names : issuers[n].status \in {"none", "active", "disabled"}
    BY DEF TransactionsInv, IssuersRowsOk, IssuerRows, NoRow
  <2>4. TypeOK
    BY <2>2, <2>3 DEF TypeOK, SchemaRows, TransactionsInv, IssuersRowsOk
  <2>5. OpenedOnItsSchema
    BY DEF Prepared, Covers, Opened, OpenedOnItsSchema, LatestVersion
  <2> QED
    BY <2>1, <2>4, <2>5 DEF UpgradeInv, LogInv
<1> QED
  BY <1>1, StartupHolds, PTL

(* Whoever serves, reports or creates does so on a schema that holds every  *)
(* migration of its release.                                                *)
THEOREM OpenedSafe == Spec => []OpenedOnItsSchema
<1>1. StartupInv => OpenedOnItsSchema
  BY DEF StartupInv, SchemaInv, Prepared, Covers, Opened, OpenedOnItsSchema, LatestVersion
<1> QED
  BY <1>1, StartupHolds, PTL
=============================================================================
