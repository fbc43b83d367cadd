------------------------------ MODULE Delivery ------------------------------
(* Certificate material on its way to where it is used.  One consumer at a  *)
(* time is put beside the rows: processes of the CLI that share an output   *)
(* directory, the server that serves its own certificate, or the operator   *)
(* that keeps a Secret.                                                     *)
EXTENDS CliSync, SelfCertificate, SecretSync

(* The operator and the CLI are readers of their own; nobody owns a Secret  *)
(* and is a resource at once.                                               *)
ASSUME DeliveryAssumption ==
    /\ Processes \cup {Operator} \subseteq Readers /\ Operator \notin Processes
    /\ Absent \notin Processes
    /\ Resources # {} /\ User \notin Resources

VARIABLE deployment
vars == <<endpointVars, faults, directoryVars, cliVars, serverVars,
          operatorVars, deployment>>

Init ==
    /\ EndpointInit /\ DirectoryInit /\ CliInit /\ ServerInit /\ OperatorInit
    /\ deployment \in {"cli", "server", "operator"}
    /\ deployment # "operator" => resources = NoResources

With(consumer) == deployment = consumer /\ UNCHANGED deployment
RowsChange == RowStep /\ UNCHANGED <<directoryVars, cliVars, serverVars, operatorVars>>

CliRequest(p) ==
    With("cli") /\ RequestStep(p)
    /\ UNCHANGED <<directoryVars, cliVars, serverVars, operatorVars>>
CliProgress(p) ==
    With("cli") /\ Progress(p) /\ UNCHANGED <<serverVars, operatorVars>>
CliStarts(p) ==
    With("cli") /\ StartSync(p) /\ UNCHANGED <<serverVars, operatorVars>>
CliTrouble == With("cli") /\ Trouble /\ UNCHANGED <<serverVars, operatorVars>>

ServerStarts ==
    With("server") /\ StartServer /\ UNCHANGED <<cliVars, operatorVars>>
ServerSync == With("server") /\ SyncStep /\ UNCHANGED <<cliVars, operatorVars>>
ServerReloads(t) ==
    With("server") /\ ReloadIfChanged(t) /\ UNCHANGED <<cliVars, operatorVars>>
ServerRows == With("server") /\ ServerRowStep /\ UNCHANGED <<cliVars, operatorVars>>
ServerHasTrouble ==
    With("server") /\ ServerTrouble /\ UNCHANGED <<cliVars, operatorVars>>

OperatorRequest ==
    With("operator") /\ RequestStep(Operator)
    /\ UNCHANGED <<directoryVars, cliVars, serverVars, operatorVars>>
OperatorPass ==
    With("operator") /\ PassStep /\ UNCHANGED <<directoryVars, cliVars, serverVars>>
OperatorUsers ==
    With("operator") /\ UserStep /\ UNCHANGED <<directoryVars, cliVars, serverVars>>
OperatorTrouble ==
    With("operator") /\ OperatorFails /\ UNCHANGED <<directoryVars, cliVars, serverVars>>

Next ==
    \/ deployment # "server" /\ UNCHANGED deployment /\ RowsChange
    \/ \E p \in Processes : CliStarts(p) \/ CliRequest(p) \/ CliProgress(p)
    \/ CliTrouble
    \/ ServerStarts \/ ServerSync \/ ServerRows \/ ServerHasTrouble
    \/ \E t \in Threads : ServerReloads(t)
    \/ OperatorRequest \/ OperatorPass \/ OperatorUsers \/ OperatorTrouble

(* Schedulers, timers, supervisors and clients of TLS come back for ever;   *)
(* nothing is assumed of issuance, users or faults.                         *)
Fairness ==
    /\ \A p \in Processes :
          WF_vars(CliStarts(p) \/ CliProgress(p) \/ CliRequest(p))
    /\ WF_vars(ServerStarts) /\ WF_vars(ServerSync)
    /\ \A t \in Threads : WF_vars(ServerReloads(t))
    /\ WF_vars(OperatorPass \/ OperatorRequest)

Spec == Init /\ [][Next]_vars /\ Fairness

------------------------------------------------------------------------------
TypeOK ==
    /\ certificate \in {"none", "open", "failed"}
    /\ versions \in [Versions -> {"none", "issuing", "valid", "failed", "ended"}]
    /\ keyReads \subseteq Versions
    /\ faults \in 0..MaxFaults
    /\ lock \in Processes \cup {Absent}
    /\ cached.mat \in {0} \cup Versions

(* Every key in the directory of the CLI or in the Secret of the operator   *)
(* was read by a request whose private_key_read event names its version,    *)
(* whatever became valid or was revoked while the request ran               *)
(* (httpapi/certificates.go:handleSyncMaterial).                            *)
InstalledKeysWereAudited ==
    /\ deployment = "cli" /\ current # Absent => current.mat \in keyReads
    /\ secret # None /\ secret.owner # User /\ secret.mat # 0 =>
           secret.mat \in keyReads

(* The scheduler of the CLI starts rounds for ever: lost answers, crashes,  *)
(* power cuts and processes that publish late leave the directory, in the   *)
(* end, with the latest valid material.                                     *)
DirectoryFollowsMaterial ==
    deployment = "cli" => <>[](GetLatestValidMaterial \in {0, Published})

(* The rows keep their types, what is installed was audited, and the owner  *)
(* that a Secret refers to is held (selfcert, operator, the CLI).           *)
DeliveryInv == TypeOK /\ InstalledKeysWereAudited /\ ReferencedOwnersAreHeld
=============================================================================
