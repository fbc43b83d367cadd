----------------------- MODULE MCCertificateIssuance -----------------------
(* Instances of CertificateIssuance for TLC.                               *)
EXTENDS CertificateIssuance, TLC

CONSTANTS j1, j2, j3, j4, w1, w2, c1, c2, r1

(* One replica: each goroutine has a worker id of its own.                 *)
OwnNames == [w \in Workers |-> w]

JobSymmetry == Permutations(Jobs)
=============================================================================
