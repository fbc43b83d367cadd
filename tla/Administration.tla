--------------------------- MODULE Administration ---------------------------
(* What administrators and users do over the API: accounts and invites, and  *)
(* applications with what belongs to them.  The two are checked side by side *)
(* and do not cross: the actors of Applications are accounts that stay.      *)
EXTENDS Accounts, Applications

VARIABLE domain
vars == <<accountVars, applicationVars, domain>>

Init == AccountsInit /\ ApplicationsInit /\ domain \in {"users", "applications"}

Next ==
    /\ UNCHANGED domain
    /\ \/ domain = "users" /\ AccountsNext /\ UNCHANGED applicationVars
       \/ domain = "applications" /\ ApplicationsNext /\ UNCHANGED accountVars

Spec == Init /\ [][Next]_vars
=============================================================================
