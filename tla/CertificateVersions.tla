------------------------ MODULE CertificateVersions ------------------------
(***************************************************************************)
(* What certhub promises about the versions of one certificate, whatever   *)
(* workers, leases, crashes and concurrent requests do underneath.         *)
(*                                                                         *)
(* A version is begun, is settled once (it becomes valid or failed), may   *)
(* be revoked once it is valid, and never moves backwards.  At most one    *)
(* version is being issued, and at most MaxActive versions are valid and   *)
(* unexpired.  Deleting the certificate removes every version for good.    *)
(***************************************************************************)
EXTENDS Naturals, FiniteSets

CONSTANTS
    MaxVersion,  \* bound on the version numbers of one certificate
    MaxActive    \* how many valid, unexpired versions may coexist

(* What the theorems assume of the constants.                              *)
VersionsAssumption == MaxVersion \in Nat /\ MaxActive \in Nat \ {0}

Versions == 1..MaxVersion

VersionStates == {"none", "issuing", "valid", "failed", "revoked"}

VARIABLES
    state,    \* the state of each version, "none" before it is begun
    expired,  \* the versions past their not_after
    deleted   \* TRUE once the certificate row is gone

avars == <<state, expired, deleted>>

Begun == {v \in Versions : state[v] # "none"}
InProgress == {v \in Versions : state[v] = "issuing"}
Usable == {v \in Versions : state[v] = "valid" /\ v \notin expired}

AInit ==
    /\ state = [v \in Versions |-> "none"]
    /\ expired = {}
    /\ deleted = FALSE

(* Number v is the next one: every lower number has been used.             *)
Begin(v) ==
    /\ ~deleted
    /\ InProgress = {}
    /\ Begun = 1..(v - 1)
    /\ state' = [state EXCEPT ![v] = "issuing"]
    /\ UNCHANGED <<expired, deleted>>

Complete(v) ==
    /\ state[v] = "issuing"
    /\ Cardinality(Usable) < MaxActive
    /\ state' = [state EXCEPT ![v] = "valid"]
    /\ UNCHANGED <<expired, deleted>>

Abandon(v) ==
    /\ state[v] = "issuing"
    /\ state' = [state EXCEPT ![v] = "failed"]
    /\ UNCHANGED <<expired, deleted>>

Revoke(v) ==
    /\ state[v] = "valid"
    /\ state' = [state EXCEPT ![v] = "revoked"]
    /\ UNCHANGED <<expired, deleted>>

(* Only issued material has a not_after to pass.                           *)
Expire(v) ==
    /\ state[v] \in {"valid", "revoked"}
    /\ expired' = expired \cup {v}
    /\ UNCHANGED <<state, deleted>>

(* The row goes only when no version is being issued.                      *)
Delete ==
    /\ ~deleted
    /\ InProgress = {}
    /\ state' = [v \in Versions |-> "none"]
    /\ expired' = {}
    /\ deleted' = TRUE

ANext ==
    \/ \E v \in Versions :
          Begin(v) \/ Complete(v) \/ Abandon(v) \/ Revoke(v) \/ Expire(v)
    \/ Delete

ASpec == AInit /\ [][ANext]_avars

----------------------------------------------------------------------------

ATypeOK ==
    /\ state \in [Versions -> VersionStates]
    /\ expired \subseteq Versions
    /\ deleted \in BOOLEAN

(* There is never a second version in progress, and it is always the       *)
(* newest one: a version begun later was begun after the earlier settled.  *)
NewestInProgress ==
    \A v \in InProgress : \A u \in Begun : u <= v

(* The overlap limit: an old version and its replacement, never a third.   *)
OverlapBounded == Cardinality(Usable) <= MaxActive

=============================================================================
