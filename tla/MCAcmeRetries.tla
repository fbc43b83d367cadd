---------------------------- MODULE MCAcmeRetries ----------------------------
(* Model values, symmetry and the constraint of the run of AcmeRetries.    *)
EXTENDS AcmeRetries, TLC

Symmetric == Permutations(Workers) \cup Permutations(Orders) \cup
             Permutations(Keys) \cup Permutations(Names)

(* After a fault beside a dns_cleanup job neither property of the run says *)
(* anything, and never will again.                                         *)
Speaking == faults = {} \/ \A c \in Cleaners : At(c, "off")
=============================================================================
