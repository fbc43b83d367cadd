---------------------------- MODULE SessionTokens ----------------------------
(***************************************************************************)
(* What certhub promises about login sessions, whatever refreshes, logouts *)
(* and resets run at once: a session accepts one token at a time, each     *)
(* token is exchanged once, for one that was never given out before, and a *)
(* session that has ended accepts none any more.                           *)
(***************************************************************************)
CONSTANTS Sessions, Tokens, None

VARIABLES life,   \* "none", "active" or "revoked"
          live,   \* the token that a session accepts, None if it accepts none
          given,  \* the tokens that were ever given out
          from    \* what a token was exchanged for, None if for a login

chainVars == <<life, live, given, from>>

ChainInit ==
  /\ life = [s \in Sessions |-> "none"]
  /\ live = [s \in Sessions |-> None]
  /\ given = {}
  /\ from = [t \in Tokens |-> None]

Give(s, t) ==
  /\ t \notin given
  /\ live' = [live EXCEPT ![s] = t]
  /\ given' = given \cup {t}

Open(s, t) ==
  /\ life[s] = "none"
  /\ life' = [life EXCEPT ![s] = "active"]
  /\ Give(s, t)
  /\ UNCHANGED from

Exchange(s, t) ==
  /\ live[s] # None
  /\ Give(s, t)
  /\ from' = [from EXCEPT ![t] = live[s]]
  /\ UNCHANGED life

\* A token that was presented too late is not accepted again.
Lapse(s) ==
  /\ live[s] # None
  /\ live' = [live EXCEPT ![s] = None]
  /\ UNCHANGED <<life, given, from>>

\* A logout and a token that came back end one session, a reset all of a user.
Close(S) ==
  /\ S # {} /\ \A s \in S : life[s] = "active"
  /\ life' = [s \in Sessions |-> IF s \in S THEN "revoked" ELSE life[s]]
  /\ live' = [s \in Sessions |-> IF s \in S THEN None ELSE live[s]]
  /\ UNCHANGED <<given, from>>

ChainNext ==
  \/ \E s \in Sessions, t \in Tokens : Open(s, t) \/ Exchange(s, t)
  \/ \E s \in Sessions : Lapse(s)
  \/ \E S \in SUBSET Sessions : Close(S)

ChainSpec == ChainInit /\ [][ChainNext]_chainVars

-----------------------------------------------------------------------------
ChainTypeOK ==
  /\ life \in [Sessions -> {"none", "active", "revoked"}]
  /\ live \in [Sessions -> Tokens \cup {None}]
  /\ given \subseteq Tokens
  /\ from \in [Tokens -> given \cup {None}]

\* Only what is active accepts a token, no token is accepted twice or after it
\* was exchanged, and none was exchanged for two.
SingleUse ==
  /\ \A s \in Sessions : live[s] # None =>
       /\ life[s] = "active" /\ live[s] \in given
       /\ \A x \in Sessions \ {s} : live[x] # live[s]
       /\ \A t \in Tokens : from[t] # live[s]
  /\ \A t \in Tokens, u \in Tokens : t # u /\ from[t] # None => from[t] # from[u]
=============================================================================
