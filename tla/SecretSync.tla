----------------------------- MODULE SecretSync -----------------------------
(* The Kubernetes operator: one goroutine lists the CerthubCertificates and *)
(* reconciles each with the Secret it names.  The resources here name the   *)
(* same Secret, which users may also create, take over or delete.  Objects  *)
(* are values, and a write whose resourceVersion is stale is refused.       *)
EXTENDS MaterialEndpoint

CONSTANTS Resources,   \* CerthubCertificates with one spec.secretName
          Retaining,   \* those with secretDeletionPolicy Retain
          Operator,    \* its name as a reader of the endpoint
          User,        \* whoever else owns a Secret
          None

VARIABLES resources,   \* life, finalizer and Ready condition of each resource
          secret,
          op           \* the pass of the operator
operatorVars == <<resources, secret, op>>

Waiting == [pc |-> "idle", todo |-> {}, it |-> None, seen |-> None, mat |-> 0,
            ready |-> FALSE]

NoResource == [life |-> "absent", finalizer |-> FALSE, ready |-> FALSE]

NoResources == [c \in Resources |-> NoResource]

(* An operator that wrote no owner references has left a Secret with older  *)
(* material, version 0, to a resource that had no finalizer.                *)
FromEarlierOperator(c) ==
    /\ resources = [NoResources EXCEPT ![c] =
                      [life |-> "live", finalizer |-> FALSE, ready |-> TRUE]]
    /\ secret = [owner |-> c, refs |-> FALSE, mat |-> 0]

OperatorInit ==
    /\ \/ /\ resources = NoResources
          /\ secret = None
       \/ FromEarlierOperator(CHOOSE c \in Resources : TRUE)
    /\ op = Waiting

OpAt(pc) == op.pc = pc
OpGoes(pc) == op' = [op EXCEPT !.pc = pc]
Skip == op' = [Waiting EXCEPT !.pc = "next", !.todo = op.todo]
Show(ready) == op' = [Waiting EXCEPT !.pc = "status", !.todo = op.todo,
                                     !.it = op.it, !.ready = ready]
Me == op.it.r

Fresher(c) == [r |-> c, life |-> resources[c].life,
               finalizer |-> resources[c].finalizer,
               ready |-> resources[c].ready]
Unmodified == Fresher(Me) = op.it
Owned(s) == s.owner = Me
SecretUnmodified == secret = op.seen

------------------------------------------------------------------------------
(* What users do with the resources and the Secret.                         *)
CreateResource(c) ==
    /\ resources[c].life = "absent"
    /\ resources' = [resources EXCEPT ![c].life = "live"]
    /\ UNCHANGED <<secret, faults>>

DeleteResource(c) ==
    /\ resources[c].life = "live"
    /\ resources' = [resources EXCEPT ![c].life =
                       IF resources[c].finalizer THEN "deleting" ELSE "gone"]
    /\ UNCHANGED <<secret, faults>>

UserWritesSecret ==
    /\ Fault
    /\ secret' \in {None, [owner |-> User, refs |-> FALSE, mat |-> 0]} \ {secret}
    /\ UNCHANGED resources

UserStep ==
    /\ \/ \E c \in Resources : CreateResource(c) \/ DeleteResource(c)
       \/ UserWritesSecret
    /\ UNCHANGED <<op, endpointVars>>

------------------------------------------------------------------------------
(* A pass over the resources as they were listed.                           *)
ListCertificates ==
    /\ OpAt("idle")
    /\ op' = [Waiting EXCEPT !.pc = "next",
                !.todo = {Fresher(c) : c \in {d \in Resources :
                            resources[d].life \in {"live", "deleting"}}}]
    /\ UNCHANGED <<resources, secret, requests>>

ReconcileNext ==
    /\ OpAt("next")
    /\ \/ op.todo = {} /\ op' = Waiting
       \/ \E it \in op.todo :
            op' = [op EXCEPT !.todo = @ \ {it}, !.it = it,
                     !.pc = IF it.life = "deleting" THEN "read for deletion"
                            ELSE IF it.finalizer THEN "read"
                            ELSE "finalizer"]
    /\ UNCHANGED <<resources, secret, requests>>

AddFinalizer ==
    /\ OpAt("finalizer")
    /\ IF Unmodified
       THEN /\ op' = [op EXCEPT !.pc = "read", !.it.finalizer = TRUE]
            /\ resources' = [resources EXCEPT ![Me].finalizer = TRUE]
       ELSE Skip /\ UNCHANGED resources
    /\ UNCHANGED <<secret, requests>>

AskFor(kind, etag) ==
    /\ op' = [op EXCEPT !.pc = "answer", !.seen = None]
    /\ Ask(Operator, kind, etag)

ReadSecret ==
    /\ OpAt("read")
    /\ \/ secret = None /\ AskFor("material", 0)
       \/ secret # None /\ ~Owned(secret) /\ Show(FALSE) /\ UNCHANGED requests
       \/ /\ secret # None /\ Owned(secret) /\ ~secret.refs
          /\ op' = [op EXCEPT !.pc = "migrate", !.seen = secret]
          /\ UNCHANGED requests
       \/ secret # None /\ Owned(secret) /\ secret.refs /\ AskFor("material", secret.mat)
    /\ UNCHANGED <<resources, secret>>

(* A Secret without an owner reference was written by an earlier operator.  *)
AddOwnerReference ==
    /\ OpAt("migrate")
    /\ IF SecretUnmodified
       THEN /\ secret' = [secret EXCEPT !.refs = TRUE]
            /\ AskFor("material", secret.mat)
       ELSE Show(FALSE) /\ UNCHANGED <<secret, requests>>
    /\ UNCHANGED resources

TakeAnswerOf(answer) ==
    /\ OpAt("answer")
    /\ At(Operator, "answered")
    /\ requests[Operator].answer = answer

ReceiveMaterial ==
    /\ TakeAnswerOf("material")
    /\ op' = [op EXCEPT !.pc = "reread", !.mat = requests[Operator].version]
    /\ Done(Operator)
    /\ UNCHANGED <<resources, secret>>

ReceiveNotFound ==
    /\ TakeAnswerOf("not_found")
    /\ AskFor("ensure", 0)
    /\ UNCHANGED <<resources, secret>>

(* handleBackendError, and markReady when the entity tag is current.        *)
ReceiveOther ==
    /\ \E answer \in {"unchanged", "accepted", "not_ready", "issuance_failed",
                      "no_active_version", "request_failed"} :
          TakeAnswerOf(answer) /\ Show(answer = "unchanged")
    /\ Done(Operator)
    /\ UNCHANGED <<resources, secret>>

(* CreateOrUpdateSecret.  Mutant: a Secret that is gone is not created.     *)
RereadSecretUpdates ==
    /\ OpAt("reread")
    /\ IF secret = None \/ ~Owned(secret) THEN Show(FALSE)
       ELSE op' = [op EXCEPT !.pc = "put", !.seen = secret]
    /\ UNCHANGED <<resources, secret, requests>>

RereadSecret ==
    /\ OpAt("reread")
    /\ IF secret # None /\ ~Owned(secret) THEN Show(FALSE)
       ELSE op' = [op EXCEPT !.pc = "put", !.seen = secret]
    /\ UNCHANGED <<resources, secret, requests>>

(* Mutant: the Secret is written without its resourceVersion.               *)
PutSecretBlindly ==
    /\ OpAt("put")
    /\ secret' = [owner |-> Me, refs |-> TRUE, mat |-> op.mat]
    /\ Show(TRUE)
    /\ UNCHANGED <<resources, requests>>

PutSecret ==
    /\ OpAt("put")
    /\ IF SecretUnmodified
       THEN /\ secret' = [owner |-> Me, refs |-> TRUE, mat |-> op.mat]
            /\ Show(TRUE)
       ELSE Show(FALSE) /\ UNCHANGED secret
    /\ UNCHANGED <<resources, requests>>

(* The status is written with the resourceVersion of the listing, so that a *)
(* resource modified since keeps its status until the next pass.            *)
UpdateStatus ==
    /\ OpAt("status")
    /\ resources' = IF Unmodified THEN [resources EXCEPT ![Me].ready = op.ready]
                    ELSE resources
    /\ Skip
    /\ UNCHANGED <<secret, requests>>

------------------------------------------------------------------------------
(* reconcileDelete.  Mutant: a Secret that users have deleted is an error.  *)
ReadForDeletionNeeded ==
    /\ OpAt("read for deletion")
    /\ IF secret = None \/ ~Owned(secret) THEN Skip
       ELSE op' = [op EXCEPT !.seen = secret,
                     !.pc = IF Me \notin Retaining THEN "reread for deletion"
                            ELSE IF secret.refs THEN "detach" ELSE "release"]
    /\ UNCHANGED <<resources, secret, requests>>

ReadForDeletion ==
    /\ OpAt("read for deletion")
    /\ IF secret = None THEN OpGoes("release")
       ELSE IF ~Owned(secret) THEN Skip
       ELSE op' = [op EXCEPT !.seen = secret,
                     !.pc = IF Me \notin Retaining THEN "reread for deletion"
                            ELSE IF secret.refs THEN "detach" ELSE "release"]
    /\ UNCHANGED <<resources, secret, requests>>

RereadForDeletion ==
    /\ OpAt("reread for deletion")
    /\ IF secret = None THEN OpGoes("release")
       ELSE IF ~Owned(secret) THEN Show(FALSE)
       ELSE op' = [op EXCEPT !.pc = "delete", !.seen = secret]
    /\ UNCHANGED <<resources, secret, requests>>

DeleteSecret ==
    /\ OpAt("delete")
    /\ IF SecretUnmodified THEN secret' = None /\ OpGoes("confirm")
       ELSE Show(FALSE) /\ UNCHANGED secret
    /\ UNCHANGED <<resources, requests>>

ConfirmDeletion ==
    /\ OpAt("confirm")
    /\ IF secret = None THEN OpGoes("release") ELSE Show(FALSE)
    /\ UNCHANGED <<resources, secret, requests>>

DetachSecret ==
    /\ OpAt("detach")
    /\ IF SecretUnmodified
       THEN secret' = [secret EXCEPT !.refs = FALSE] /\ OpGoes("release")
       ELSE Show(FALSE) /\ UNCHANGED secret
    /\ UNCHANGED <<resources, requests>>

ReleaseFinalizer ==
    /\ OpAt("release")
    /\ IF Unmodified
       THEN resources' = [resources EXCEPT ![Me] =
                            [life |-> "gone", finalizer |-> FALSE,
                             ready |-> FALSE]]
       ELSE UNCHANGED resources
    /\ Skip
    /\ UNCHANGED <<secret, requests>>

(* The operator restarts, or one of its calls fails.                        *)
OperatorFails ==
    /\ ~OpAt("idle")
    /\ Fault
    /\ \/ op' = Waiting
       \/ OpAt("finalizer") /\ Skip
       \/ OpAt("release") /\ Skip
       \/ OpAt("status") /\ Skip
       \/ op.pc \notin {"next", "finalizer", "release", "status"} /\ Show(FALSE)
    /\ Done(Operator)
    /\ UNCHANGED <<resources, secret, Rows, keyReads>>

PassStep ==
    /\ \/ ListCertificates \/ ReconcileNext \/ AddFinalizer \/ ReadSecret
       \/ AddOwnerReference \/ ReceiveMaterial \/ ReceiveNotFound
       \/ ReceiveOther \/ RereadSecret \/ PutSecret \/ UpdateStatus \/ ReadForDeletion
       \/ RereadForDeletion \/ DeleteSecret \/ ConfirmDeletion
       \/ DetachSecret \/ ReleaseFinalizer
    /\ UNCHANGED <<Rows, keyReads, faults>>

------------------------------------------------------------------------------
(* An owner reference names a resource that is there and held by its        *)
(* finalizer, whatever users delete between two calls of the operator: the  *)
(* garbage collector never takes a Secret away.                             *)
ReferencedOwnersAreHeld ==
    secret # None /\ secret.refs => resources[secret.owner].finalizer

(* The operator overwrites, detaches and deletes only what the resource it  *)
(* reconciles owns at that moment, even when users replace the Secret       *)
(* between its read and its write.                                          *)
OnlyOwnSecretsChange ==
    [][op' # op /\ secret' # secret => secret = None \/ Owned(secret)]_<<operatorVars>>

(* In the end there is a Secret for a live resource, and it holds the latest*)
(* valid material unless somebody else owns it; then the resource does not  *)
(* stay Ready, although it was before users put a Secret of their own in    *)
(* the place of the managed one.                                            *)
Live(c) == resources[c].life = "live"
SecretFollowsMaterial ==
    <>[](\A c \in Resources : Live(c) /\ GetLatestValidMaterial # 0 =>
           /\ secret # None
           /\ secret.owner = c => secret.mat = GetLatestValidMaterial
           /\ resources[c].ready => secret.owner = c)

(* No deletion hangs unless somebody else owns the Secret: the finalizer is *)
(* released after failures, and when users have deleted the Secret.         *)
DeletionsEnd ==
    <>[](\A c \in Resources : resources[c].life = "deleting" =>
            secret # None /\ secret.owner # c)
=============================================================================
