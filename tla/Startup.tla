------------------------------ MODULE Startup ------------------------------
(* A rolling upgrade: servers of two releases and the direct commands open  *)
(* one database; the servers and "bootstrap create-issuer" then change the  *)
(* issuers.                                                                 *)
EXTENDS SchemaMigrations, Issuers

CONSTANTS BootName,    \* issuer that bootstrap create-issuer creates
          MaxRequests  \* bound on the requests to the servers

(* The issuers that were created before can have had an account each.       *)
ASSUME StartupAssumption ==
    /\ Workers = Processes /\ BootName \in Names /\ MaxRequests \in Nat
    /\ \A made \in SUBSET Names : \E a \in [Urls -> made \cup {Nobody}] : AccountEach(made, a)

VARIABLE requests    \* requests that administrators still make
vars == <<schemaVars, issuerVars, requests>>

(* Either an upgrade (or a first start) is at hand, or servers of the new    *)
(* release run, untroubled, and administrators change issuers.              *)
Init ==
    \/ SchemaInit /\ IssuersInit /\ requests = 0
    \/ SteadyInit /\ EarlierIssuers /\ requests = MaxRequests

BootRequests == {r \in Creations : r.name = BootName /\ r.status = "active"}

Starting(p) == StartProcess(p) /\ UNCHANGED <<issuerVars, requests>>
Locking(p) == AcquireMigrationLock(p) /\ UNCHANGED <<issuerVars, requests>>
Opening(p) == OpeningStep(p) /\ UNCHANGED <<issuerVars, requests>>
Probe(p) == CheckReadiness(p) /\ UNCHANGED <<issuerVars, requests>>

(* A handler of a serving process takes a request of an administrator.      *)
Serve(p) ==
    /\ At(p, "serving") /\ requests > 0
    /\ \E r \in Creations \cup Patches : BeginRequest(p, r)
    /\ requests' = requests - 1 /\ UNCHANGED schemaVars

(* bootstrap create-issuer: its process ends with the transaction, and an    *)
(* operator repeats the command until the issuer is there.                  *)
BeginBootstrap(p) ==
    /\ At(p, "creating") /\ \E r \in BootRequests : BeginRequest(p, r)
    /\ Goto(p, "created") /\ UNCHANGED <<log, session, drift, lost, trouble, requests>>
EndBootstrap(p) ==
    /\ At(p, "created") /\ tx[p] = NoTx
    /\ IF issuers[BootName] # NoRow THEN Goto(p, "done") ELSE ExitProcess(p)
    /\ UNCHANGED <<log, session, drift, lost, trouble, issuerVars, requests>>

(* The CA makes a new account for the new key that every call brings.       *)
NewAccounts == {u \in Urls : accounts[u] = Nobody /\ \A q \in Workers : tx[q].url # u}
Transaction(p) ==
    /\ TxStep(p) \/ \E u \in NewAccounts : RegisterAccount(p, u)
    /\ UNCHANGED <<schemaVars, requests>>

(* The CA refuses, or names an account that exists; a direct command, which  *)
(* is repeated, meets that as often as the bound allows.                    *)
RegistrationTrouble(p) ==
    /\ tx[p].at = "register" /\ (At(p, "serving") \/ trouble < MaxTrouble)
    /\ trouble' = IF At(p, "serving") THEN trouble ELSE trouble + 1
    /\ RollbackTx(p) \/ \E u \in Urls \ NewAccounts : RegisterAccount(p, u)
    /\ UNCHANGED <<log, session, drift, proc, lost, requests>>

Stops(p) ==
    /\ Dies(p) \/ Redeploy(p)
    /\ RollbackTx(p) /\ UNCHANGED requests

Disturb == (LoseSession \/ AlterLeases) /\ UNCHANGED <<issuerVars, requests>>

Next ==
    \/ \E p \in Processes :
          \/ Starting(p) \/ Locking(p) \/ Opening(p) \/ Probe(p) \/ Serve(p)
          \/ BeginBootstrap(p) \/ EndBootstrap(p) \/ Transaction(p)
          \/ RegistrationTrouble(p) \/ Stops(p)
    \/ Disturb

Progress(p) ==
    Starting(p) \/ Opening(p) \/ BeginBootstrap(p) \/ EndBootstrap(p) \/ Transaction(p)

(* Schedulers, supervisors and operators start a process until it has done  *)
(* its work, probes come back for ever, statements end or fail.  The lock is *)
(* polled ten times a second, without a queue: whoever polls while others   *)
(* take and leave it meets it free at last.                                 *)
Fairness ==
    \A p \in Processes :
        WF_vars(Progress(p)) /\ SF_vars(Locking(p)) /\ WF_vars(Probe(p))

Spec == Init /\ [][Next]_vars /\ Fairness

------------------------------------------------------------------------------
TypeOK ==
    /\ CurrentVersion \in 0..Shipped[NewRelease]
    /\ session \in Processes \cup {NoOne}
    /\ trouble \in 0..MaxTrouble /\ requests \in 0..MaxRequests
    /\ \A n \in Names : issuers[n].status \in {"none", "active", "disabled"}
    /\ \A u \in Urls : accounts[u] \in Names \cup {Nobody}

(* Every process of the newest release serves or has done its work in the   *)
(* end, unless certhub_leases was altered: the losers of the race for the   *)
(* lock, those that died and those that were started before the schema was  *)
(* there too (server.go:openRuntimeResources).                              *)
UpgradeCompletes ==
    [](drift = {}) =>
        <>[](\A p \in Processes :
               proc[p].release = NewRelease => proc[p].pc \in {"serving", "done"})

(* Requests for issuers wait for each other's transactions, never for ever: *)
(* as they are bounded, none is left in the end (service.go:withWriteTx).   *)
RequestsEnd == []<>(\A p \in Workers : tx[p] = NoTx)

(* The log of migrations is in order and without gaps, whichever binaries   *)
(* race for it, and nobody is opened on less than its own schema            *)
(* (runner.go:Up, server.go:openRuntimeResources).                          *)
UpgradeInv == TypeOK /\ AppliedInOrder /\ NoVersionIsSkipped /\ OpenedOnItsSchema

(* Everyone who waits for the lock of the migrations, for a schema or for   *)
(* another transaction gets on in the end.                                  *)
NobodyWaitsForever == LockComesFree /\ UpgradeCompletes /\ RequestsEnd
=============================================================================
