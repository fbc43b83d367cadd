------------------------------ MODULE MCLogins ------------------------------
EXTENDS Logins, TLC
Symmetric == Permutations(Sessions) \cup Permutations(Calls) \cup Permutations(Secrets)
             \cup Permutations(Setups) \cup Permutations(Links)
=============================================================================
