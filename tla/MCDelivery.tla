----------------------------- MODULE MCDelivery -----------------------------
(* Instances of Delivery for TLC.                                           *)
EXTENDS Delivery

CONSTANTS p1, p2, operator
MCProcesses == {p1, p2}
MCReaders == {p1, p2, operator}
=============================================================================
