-------------------------- MODULE MCAdministration --------------------------
EXTENDS Administration, TLC

CONSTANTS wildcard, apex, shallow, deep

\* A wildcard scope and an exact one; a certificate the wildcard is enough
\* for, and one that names the apex and a name two labels below it.
MCLabels == [s \in {wildcard, apex} |-> IF s = wildcard THEN <<"*", "example">> ELSE <<"example">>]
MCNames == [k \in {shallow, deep} |->
              IF k = shallow THEN {<<"www", "example">>} ELSE {<<"example">>, <<"a", "www", "example">>}]

Symmetry == Permutations(Emails) \cup Permutations(Invites) \cup Permutations(Calls)
            \cup Permutations(Requests)
=============================================================================
