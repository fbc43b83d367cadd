--------------------------- MODULE MCAcmeIssuance ---------------------------
(* Model values and symmetry for the runs of AcmeIssuance.                 *)
EXTENDS AcmeIssuance, TLC

Symmetric == Permutations(Workers) \cup Permutations(Orders) \cup
             Permutations(Keys) \cup Permutations(Names)
=============================================================================
