---------------------------- MODULE UserSessions ----------------------------
(***************************************************************************)
(* The login sessions of internal/auth and the access tokens that replace  *)
(* each other in a session.  Every request is a PostgreSQL transaction at  *)
(* READ COMMITTED: it waits for the rows it locks, it keeps them until it  *)
(* ends, its writes are seen by the others when it commits, and a          *)
(* statement that waited re-checks its WHERE clause on the rows it found   *)
(* in its snapshot, and on no row that was inserted since.                 *)
(***************************************************************************)
EXTENDS FiniteSets

CONSTANTS Users,     \* accounts
          Sessions,  \* rows of user_sessions
          Tokens,    \* rows of user_session_token_history
          Requests,  \* requests the server runs at the same time
          None

ASSUME RowsAssumption ==
  /\ None \notin Users \cup Sessions \cup Tokens
  /\ Users \cap Sessions = {} /\ Users \cap Tokens = {} /\ Sessions \cap Tokens = {}

VARIABLES session, token, request

sessionVars == <<session, token, request>>

SessionRows == [status: {"none", "active", "revoked"}, user: Users \cup {None},
                token: Tokens \cup {None}, late: BOOLEAN]

\* from is the token that was rotated away for this one: history only.
TokenRows == [status: {"none", "active", "rotated", "revoked", "reused", "expired"},
              session: Sessions \cup {None}, late: BOOLEAN, from: Tokens \cup {None}]

\* tok is the token that was presented, rows what the statement in progress
\* found in its snapshot, holds the rows the transaction has locked.
Transactions == [pc: {"idle", "token", "session", "siblings", "reuse", "sessions", "tokens"},
                 tok: Tokens \cup {None}, rows: SUBSET (Sessions \cup Tokens),
                 holds: SUBSET (Users \cup Sessions \cup Tokens)]

Idle == [pc |-> "idle", tok |-> None, rows |-> {}, holds |-> {}]

SessionsInit ==
  /\ session = [s \in Sessions |-> [status |-> "none", user |-> None, token |-> None, late |-> FALSE]]
  /\ token = [t \in Tokens |-> [status |-> "none", session |-> None, late |-> FALSE, from |-> None]]
  /\ request = [r \in Requests |-> Idle]

TokensOf(s) == {t \in Tokens : token[t].session = s}
ActiveTokens(S) == {t \in Tokens : token[t].session \in S /\ token[t].status = "active"}
ActiveSessions(u) == {s \in Sessions : session[s].user = u /\ session[s].status = "active"}

\* A row that is inserted: one unused row is as good as another.
Unused == {t \in Tokens : token[t].status = "none"}
NewToken == IF Unused = {} THEN {} ELSE {CHOOSE t \in Unused : TRUE}

SessionOf(r) == token[request[r].tok].session

\* The rows the next statement of a transaction has to lock.
Wants(r) ==
  CASE request[r].pc = "token"                            -> {request[r].tok}
    [] request[r].pc \in {"session", "reuse"}             -> {SessionOf(r)}
    [] request[r].pc \in {"siblings", "sessions", "tokens"} -> request[r].rows
    [] OTHER                                              -> {}

Free(r, rows) == \A q \in Requests \ {r} : request[q].holds \cap rows = {}
Waits(r, q) == r # q /\ Wants(r) \cap request[q].holds # {}

Becomes(r, pc, rows, locked) ==
  request' = [request EXCEPT ![r] = [pc |-> pc, tok |-> @.tok, rows |-> rows,
                                     holds |-> @.holds \cup locked]]
Ends(r) == request' = [request EXCEPT ![r] = Idle]

RevokeTokens(tokens, T) ==
  [t \in Tokens |-> IF t \in T /\ tokens[t].status = "active"
                    THEN [tokens[t] EXCEPT !.status = "revoked"] ELSE tokens[t]]
RevokeRows(S) ==
  [s \in Sessions |-> IF s \in S /\ session[s].status = "active"
                      THEN [session[s] EXCEPT !.status = "revoked"] ELSE session[s]]

-----------------------------------------------------------------------------
\* A login inserts the session and its first token.  The foreign key makes the
\* insert wait for a transaction that holds the account's row FOR UPDATE.
CreateSession(s, t, u) ==
  /\ session[s].status = "none" /\ token[t].status = "none"
  /\ \A q \in Requests : u \notin request[q].holds
  /\ session' = [session EXCEPT ![s] = [status |-> "active", user |-> u, token |-> t, late |-> FALSE]]
  /\ token' = [token EXCEPT ![t] = [status |-> "active", session |-> s, late |-> FALSE, from |-> None]]
  /\ UNCHANGED request

Refresh(r, t) ==
  /\ request[r] = Idle /\ token[t].status # "none"
  /\ request' = [request EXCEPT ![r] = [Idle EXCEPT !.pc = "token", !.tok = t]]
  /\ UNCHANGED <<session, token>>

\* RotateAccessTokenTx locks the token first.  A token that is not active any
\* more was used before: the rest of the transaction punishes the session.
LockToken(r) ==
  LET t == request[r].tok IN
  /\ request[r].pc = "token" /\ Free(r, {t})
  /\ IF token[t].status = "active"
     THEN Becomes(r, "session", {}, {t})
     ELSE Becomes(r, "siblings", ActiveTokens({token[t].session}) \ {t}, {t})
  /\ UNCHANGED <<session, token>>

\* Mutant: the session's status is not looked at.
CurrentToken(r) == session[SessionOf(r)].token = request[r].tok

Current(r) ==
  /\ session[SessionOf(r)].status = "active"
  /\ session[SessionOf(r)].token = request[r].tok

AtSession(r) == request[r].pc = "session" /\ Free(r, {SessionOf(r)})

SessionMovedOn(r) ==
  /\ AtSession(r) /\ ~Current(r)
  /\ Becomes(r, "siblings", ActiveTokens({SessionOf(r)}) \ {request[r].tok}, {SessionOf(r)})
  /\ UNCHANGED <<session, token>>

\* The refresh of an expired token or session is refused, and the verdict on
\* the token is committed.
ExpireToken(r) ==
  /\ AtSession(r) /\ Current(r)
  /\ session[SessionOf(r)].late \/ token[request[r].tok].late
  /\ token' = [token EXCEPT ![request[r].tok].status = "expired"]
  /\ Ends(r)
  /\ UNCHANGED session

\* Mutant: the presented token is exchanged without a look at its status.
RotateUnchecked(r, new) ==
  LET t == request[r].tok
      s == SessionOf(r) IN
  /\ request[r].pc \in {"token", "session"} /\ Free(r, {s, t})
  /\ token[new].status = "none"
  /\ token' = [token EXCEPT ![t].status = "rotated",
                            ![new] = [status |-> "active", session |-> s, late |-> FALSE, from |-> t]]
  /\ session' = [session EXCEPT ![s].token = new]
  /\ Ends(r)

RotateAccessToken(r, new) ==
  LET t == request[r].tok
      s == SessionOf(r) IN
  /\ AtSession(r) /\ Current(r)
  /\ ~session[s].late /\ ~token[t].late
  /\ token[new].status = "none"
  /\ token' = [token EXCEPT ![t].status = "rotated",
                            ![new] = [status |-> "active", session |-> s, late |-> FALSE, from |-> t]]
  /\ session' = [session EXCEPT ![s].token = new]
  /\ Ends(r)

\* The account is disabled, or the audit event cannot be written: everything
\* the refresh did is rolled back.
RefreshRollsBack(r) ==
  /\ AtSession(r) /\ Current(r)
  /\ Ends(r)
  /\ UNCHANGED <<session, token>>

\* markTokenReuse: the other tokens of the session, then the session.
RevokeSiblings(r) ==
  /\ request[r].pc = "siblings" /\ Free(r, request[r].rows)
  /\ LET T == {t \in request[r].rows : token[t].status = "active"} IN Becomes(r, "reuse", T, T)
  /\ UNCHANGED <<session, token>>

\* Mutant: only the tokens are punished.
MarkTokenOnly(r) ==
  /\ request[r].pc = "reuse" /\ Free(r, {SessionOf(r)})
  /\ token' = RevokeTokens([token EXCEPT ![request[r].tok].status = "reused"], request[r].rows)
  /\ Ends(r)
  /\ UNCHANGED session

MarkTokenReuse(r) ==
  /\ request[r].pc = "reuse" /\ Free(r, {SessionOf(r)})
  /\ token' = RevokeTokens([token EXCEPT ![request[r].tok].status = "reused"], request[r].rows)
  /\ session' = RevokeRows({SessionOf(r)})
  /\ Ends(r)

-----------------------------------------------------------------------------
\* A logout revokes the session of the token it came with, a password reset
\* or a reset of the second factor all sessions of the account it has locked.
Logout(r, s) ==
  /\ request[r] = Idle /\ session[s].status = "active"
  /\ request' = [request EXCEPT ![r] = [Idle EXCEPT !.pc = "sessions", !.rows = {s}]]
  /\ UNCHANGED <<session, token>>

ResetUser(r, u) ==
  /\ request[r] = Idle /\ Free(r, {u})
  /\ request' = [request EXCEPT ![r] = [Idle EXCEPT !.pc = "sessions", !.rows = ActiveSessions(u),
                                                    !.holds = {u}]]
  /\ UNCHANGED <<session, token>>

\* Mutant: a session that is no longer active is waited for.
RevokeWaitsForActive(r) ==
  /\ request[r].pc = "sessions" /\ Free(r, request[r].rows)
  /\ LET S == {s \in request[r].rows : session[s].status = "active"} IN
       S # {} /\ Becomes(r, "tokens", ActiveTokens(S), S)
  /\ UNCHANGED <<session, token>>

RevokeLocksSessions(r) ==
  /\ request[r].pc = "sessions" /\ Free(r, request[r].rows)
  /\ LET S == {s \in request[r].rows : session[s].status = "active"} IN
       IF S = {} THEN Ends(r) ELSE Becomes(r, "tokens", ActiveTokens(S), S)
  /\ UNCHANGED <<session, token>>

RevokeUserSessions(r) ==
  /\ request[r].pc = "tokens" /\ Free(r, request[r].rows)
  /\ token' = RevokeTokens(token, request[r].rows)
  /\ session' = RevokeRows(request[r].holds \cap Sessions)
  /\ Ends(r)

\* A rotation holds a token and waits for its session, a revocation holds the
\* session and waits for its tokens.  PostgreSQL ends one of the two.
DeadlockAborts(r) ==
  /\ \E q \in Requests : Waits(r, q) /\ Waits(q, r)
  /\ Ends(r)
  /\ UNCHANGED <<session, token>>

AccessExpires(t) ==
  /\ token[t].status # "none" /\ ~token[t].late
  /\ token' = [token EXCEPT ![t].late = TRUE]
  /\ UNCHANGED <<session, request>>

\* The expiry of a token is capped at the expiry of its session.
SessionExpires(s) ==
  /\ session[s].status # "none" /\ ~session[s].late
  /\ session' = [session EXCEPT ![s].late = TRUE]
  /\ token' = [t \in Tokens |-> [token[t] EXCEPT !.late = @ \/ token[t].session = s]]
  /\ UNCHANGED request

-----------------------------------------------------------------------------
Step(r) ==
  \/ LockToken(r)
  \/ SessionMovedOn(r)
  \/ ExpireToken(r)
  \/ \E new \in NewToken : RotateAccessToken(r, new)
  \/ RefreshRollsBack(r)
  \/ RevokeSiblings(r)
  \/ MarkTokenReuse(r)
  \/ RevokeLocksSessions(r)
  \/ RevokeUserSessions(r)
  \/ DeadlockAborts(r)

SessionsNext ==
  \/ \E s \in Sessions, t \in NewToken, u \in Users : CreateSession(s, t, u)
  \/ \E r \in Requests, t \in Tokens : Refresh(r, t)
  \/ \E r \in Requests, s \in Sessions : Logout(r, s)
  \/ \E r \in Requests, u \in Users : ResetUser(r, u)
  \/ \E r \in Requests : Step(r)
  \/ \E t \in Tokens : AccessExpires(t)
  \/ \E s \in Sessions : SessionExpires(s)

\* PostgreSQL grants a row lock to those who wait for it in turn, finds every
\* cycle of waiting transactions, and the server runs every request: a
\* transaction that can go on again and again does go on.
Spec == SessionsInit /\ [][SessionsNext]_sessionVars /\ \A r \in Requests : SF_sessionVars(Step(r))

-----------------------------------------------------------------------------
TypeOK ==
  /\ session \in [Sessions -> SessionRows]
  /\ token \in [Tokens -> TokenRows]
  /\ request \in [Requests -> Transactions]

\* A session that can be used has one token to use it with: whatever refreshes
\* were interleaved, every other token of it was taken out of use.
OneAcceptedToken ==
  \A s \in Sessions : session[s].status = "active" =>
    /\ session[s].token \in TokensOf(s)
    /\ token[session[s].token].status \in {"active", "expired"}
    /\ \A t \in TokensOf(s) : t # session[s].token => token[t].status # "active"

\* No token is exchanged for two: of two refreshes with the same token the
\* second is refused, so that a copied token never lives on beside its copy.
RotatedOnce ==
  \A t1, t2 \in Tokens : t1 # t2 /\ token[t1].from # None => token[t1].from # token[t2].from

\* What keeps a copied token from being used beside its copy, in a session that
\* may be refreshed, logged out of and reset at once (auth/repository.go).
TokensAreExclusive == OneAcceptedToken /\ RotatedOnce

\* When a token that was rotated away comes back, its session is over with
\* the same commit, whichever refresh or logout it crossed.
ReuseEndsSession ==
  \A t \in Tokens : token[t].status = "reused" => session[token[t].session].status = "revoked"

\* A revoked session stays revoked and gets no token, not even for one that a
\* refresh left behind in the history while the session was revoked.
RevokedForGood ==
  [][\A s \in Sessions : session[s].status = "revoked" =>
       /\ session'[s].status = "revoked" /\ session'[s].token = session[s].token
       /\ \A t \in Tokens : token[t].status = "none" => token'[t].session # s]_sessionVars

\* The token with which a refresh of the session gets a new one.
Accepted(s) ==
  IF session[s].status = "active" /\ token[session[s].token].status = "active"
  THEN session[s].token ELSE None

\* The promise of SessionTokens, kept by the rows: across all interleavings of
\* the transactions a session is a chain of tokens that are used once, a token
\* that is out of use never comes back into use, and a session that is over
\* gets none (auth/repository.go:RotateAccessTokenTx, RevokeUserSessionsTx).
Chain == INSTANCE SessionTokens WITH
  life <- [s \in Sessions |-> session[s].status],
  live <- [s \in Sessions |-> Accepted(s)],
  given <- {t \in Tokens : token[t].status # "none"},
  from <- [t \in Tokens |-> token[t].from]

KeepsChains == Chain!ChainSpec

\* Two transactions never hold the same row.
LocksExclude ==
  \A r, q \in Requests : r # q => request[r].holds \cap request[q].holds = {}

\* Refreshes, logouts and resets lock tokens and sessions in different orders,
\* and still every request ends.
EveryRequestEnds == \A r \in Requests : request[r] # Idle ~> request[r] = Idle
=============================================================================
