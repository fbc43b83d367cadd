----------------------------- MODULE AcmeRetries -----------------------------
(***************************************************************************)
(* What one attempt at an issuance leaves to the next, and the last one to *)
(* dns_cleanup: AcmeIssuance with a record of the faults that have         *)
(* happened, which no action reads.                                        *)
(***************************************************************************)
EXTENDS AcmeIssuance

VARIABLE faults   \* history: the kinds of faults that have happened

RetryInit == Init /\ faults = {}

RetryNext ==
    \/ Work /\ UNCHANGED faults
    \/ \E fault \in Faults : Fault(fault) /\ faults' = faults \cup {fault}

RetrySpec == RetryInit /\ [][RetryNext]_<<vars, faults>>

----------------------------------------------------------------------------
(* Properties.                                                             *)

AllIdle == \A a \in Workers \cup Cleaners : actor[a].pc \in {"off", "idle"}

(* When a job has ended without a fault, each of its rows is cleaned or    *)
(* will be listed by dns_cleanup: none is left presented or pending, which *)
(* no clean-up would find again and which keeps the certificate from being *)
(* deleted.                                                                *)
RowsSettled ==
    faults = {} /\ job.status \in {"succeeded", "failed"} /\ AllIdle
        => \A r \in Rows : row[r] \in {"none", "cleanup_pending", "cleanup_failed", "cleaned"}

(* Nobody works on without the lease, and no clean-up has gone unrecorded. *)
Traced == faults \cap {"expiry", "mark"} = {}

(* A retry, after a failure or in place of a worker that stopped, does not *)
(* wait for a value that an earlier attempt removed: the statuses of the   *)
(* rows that it reuses say what there is to publish again                  *)
(* (certificate_issuance.go:presentAndValidate), whichever clean-up calls  *)
(* failed, did their work all the same, or were never made.  This is so as *)
(* long as no dns_cleanup job comes up, each clean-up call is recorded     *)
(* (its statement does not fail, and the process does not die before it)   *)
(* and no worker whose lease ran out is still at work.                     *)
RetriesPublishAgain ==
    Traced /\ (\A c \in Cleaners : At(c, "off")) => PublishedUntilValidated
=============================================================================
