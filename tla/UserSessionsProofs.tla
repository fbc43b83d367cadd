------------------------- MODULE UserSessionsProofs -------------------------
(***************************************************************************)
(* Proofs about UserSessions, for any number of accounts, sessions, tokens *)
(* and concurrent requests.                                                *)
(***************************************************************************)
EXTENDS UserSessions, TLAPS

\* A token belongs to a session that exists from its insertion on.
TokensBelong ==
  \A t \in Tokens :
    IF token[t].status = "none"
    THEN token[t].session = None /\ token[t].from = None
    ELSE token[t].session \in Sessions /\ session[token[t].session].status # "none"

\* A token that has a successor was taken out of use.
PredecessorsSpent ==
  \A t \in Tokens : token[t].from # None =>
    token[t].from \in Tokens /\ token[token[t].from].status \in {"rotated", "reused"}

RowsInv ==
  /\ TokensBelong
  /\ OneAcceptedToken
  /\ PredecessorsSpent
  /\ RotatedOnce
  /\ ReuseEndsSession

\* What a transaction has locked and found so far is what its next statement
\* relies on.
Prepared(r) ==
  /\ request[r].pc \in {"token", "session", "siblings", "reuse"} =>
       request[r].tok \in Tokens /\ token[request[r].tok].status # "none"
  /\ request[r].pc \in {"session", "siblings", "reuse"} => request[r].tok \in request[r].holds
  /\ request[r].pc = "session" => token[request[r].tok].status = "active"
  /\ request[r].pc \in {"siblings", "reuse"} => request[r].rows \subseteq TokensOf(SessionOf(r))
  /\ request[r].pc = "reuse" => request[r].rows \subseteq request[r].holds
  /\ request[r].pc = "sessions" => request[r].rows \subseteq Sessions
  /\ request[r].pc = "tokens" =>
       \A t \in request[r].rows : t \in Tokens /\ token[t].session \in request[r].holds \cap Sessions

SessionsInv ==
  /\ TypeOK
  /\ LocksExclude
  /\ RowsInv
  /\ \A r \in Requests : Prepared(r)

-----------------------------------------------------------------------------
\* Nothing holds at first, and nothing is wrong.
LEMMA InitHolds == SessionsInit => SessionsInv
<1> SUFFICES ASSUME SessionsInit
             PROVE  SessionsInv
  OBVIOUS
<1> USE RowsAssumption DEF SessionsInit
<1>1. TypeOK
  BY DEF TypeOK, SessionRows, TokenRows, Transactions, Idle
<1>2. LocksExclude
  BY DEF LocksExclude, Idle
<1>3. RowsInv
  BY DEF RowsInv, TokensBelong, OneAcceptedToken, PredecessorsSpent, RotatedOnce, ReuseEndsSession
<1>4. \A r \in Requests : Prepared(r)
  BY DEF Prepared, Idle
<1> QED
  BY <1>1, <1>2, <1>3, <1>4 DEF SessionsInv

-----------------------------------------------------------------------------
\* A step that leaves the rows alone changes one transaction.

LEMMA RowsKept ==
  ASSUME RowsInv, UNCHANGED <<session, token>>
  PROVE  RowsInv'
BY DEF RowsInv, TokensBelong, OneAcceptedToken, TokensOf, PredecessorsSpent, RotatedOnce,
       ReuseEndsSession

LEMMA OthersKept ==
  ASSUME NEW q \in Requests, Prepared(q), TokensBelong, request'[q] = request[q],
         \A t \in Tokens : token[t].status # "none" =>
             token'[t].status # "none" /\ token'[t].session = token[t].session,
         request[q].pc = "session" => token'[request[q].tok].status = "active"
  PROVE  Prepared(q)'
<1>1. ASSUME request[q].pc \in {"siblings", "reuse"}
      PROVE  request[q].rows \subseteq {t \in Tokens : token'[t].session = token'[request[q].tok].session}
  BY <1>1, RowsAssumption DEF Prepared, TokensBelong, TokensOf, SessionOf
<1>2. ASSUME request[q].pc = "tokens", NEW t \in request[q].rows
      PROVE  t \in Tokens /\ token'[t].session \in request[q].holds \cap Sessions
  BY <1>2, RowsAssumption DEF Prepared, TokensBelong
<1> QED
  BY <1>1, <1>2 DEF Prepared, TokensOf, SessionOf

LEMMA LocksGranted ==
  ASSUME LocksExclude, NEW r \in Requests, NEW x, NEW locked, Free(r, locked),
         request \in [Requests -> Transactions],
         request' = [request EXCEPT ![r] = x],
         x.holds \subseteq request[r].holds \cup locked
  PROVE  LocksExclude'
<1> SUFFICES ASSUME NEW p \in Requests, NEW q \in Requests, p # q
             PROVE  request'[p].holds \cap request'[q].holds = {}
  BY DEF LocksExclude
<1>1. request[p].holds \cap request[q].holds = {}
  BY DEF LocksExclude
<1>2. CASE p = r
  <2>1. request[q].holds \cap locked = {}
    BY <1>2 DEF Free
  <2>2. request'[p] = x /\ request'[q] = request[q]
    BY <1>2
  <2> QED
    BY <1>1, <1>2, <2>1, <2>2
<1>3. CASE q = r
  <2>1. request[p].holds \cap locked = {}
    BY <1>3 DEF Free
  <2>2. request'[q] = x /\ request'[p] = request[p]
    BY <1>3
  <2> QED
    BY <1>1, <1>3, <2>1, <2>2
<1>4. CASE p # r /\ q # r
  BY <1>1, <1>4
<1> QED
  BY <1>2, <1>3, <1>4

\* The steps that change nothing but their own transaction.
LEMMA TransactionStep ==
  ASSUME SessionsInv, NEW r \in Requests, NEW x, NEW locked, Free(r, locked),
         UNCHANGED <<session, token>>,
         request' = [request EXCEPT ![r] = x],
         x \in Transactions,
         x.holds \subseteq request[r].holds \cup locked,
         Prepared(r)'
  PROVE  SessionsInv'
<1> USE DEF SessionsInv
<1>1. TypeOK'
  BY DEF TypeOK
<1>2. LocksExclude'
  BY LocksGranted DEF TypeOK
<1>3. RowsInv'
  BY RowsKept
<1>4. ASSUME NEW q \in Requests, q # r
      PROVE  Prepared(q)'
  <2>1. request'[q] = request[q]
    BY <1>4 DEF TypeOK
  <2>2. request[q].pc = "session" => token'[request[q].tok].status = "active"
    BY DEF Prepared
  <2> QED
    BY <2>1, <2>2, OthersKept DEF RowsInv
<1> QED
  BY <1>1, <1>2, <1>3, <1>4

\* A transaction that ends, whatever it did, holds nothing.
LEMMA IdlePrepared ==
  ASSUME NEW r \in Requests, request \in [Requests -> Transactions], Ends(r)
  PROVE  /\ Prepared(r)'
         /\ \A q \in Requests : q # r => request'[q] = request[q]
         /\ request' \in [Requests -> Transactions]
<1>1. Idle \in Transactions
  BY DEF Idle, Transactions
<1> QED
  BY <1>1 DEF Ends, Idle, Prepared

LEMMA EndStep ==
  ASSUME SessionsInv, NEW r \in Requests, Ends(r), UNCHANGED <<session, token>>
  PROVE  SessionsInv'
<1>1. Idle \in Transactions /\ Idle.holds = {}
  BY DEF Idle, Transactions
<1>2. Free(r, {})
  BY DEF Free
<1>3. Prepared(r)'
  BY IdlePrepared DEF SessionsInv, TypeOK
<1> QED
  BY <1>1, <1>2, <1>3, TransactionStep DEF Ends

LEMMA RefreshStep ==
  ASSUME SessionsInv, NEW r \in Requests, NEW t \in Tokens, Refresh(r, t)
  PROVE  SessionsInv'
<1> DEFINE x == [Idle EXCEPT !.pc = "token", !.tok = t]
<1>1. x \in Transactions /\ x.holds = {} /\ x.pc = "token" /\ x.tok = t
  BY DEF Idle, Transactions
<1>2. Free(r, {})
  BY DEF Free
<1>3. request' = [request EXCEPT ![r] = x] /\ UNCHANGED <<session, token>>
  BY DEF Refresh
<1> HIDE DEF x
<1>4. Prepared(r)'
  BY <1>1, <1>3 DEF Prepared, Refresh, SessionsInv, TypeOK
<1> QED
  BY <1>1, <1>2, <1>3, <1>4, TransactionStep

LEMMA LogoutStep ==
  ASSUME SessionsInv, NEW r \in Requests, NEW s \in Sessions, Logout(r, s)
  PROVE  SessionsInv'
<1> DEFINE x == [Idle EXCEPT !.pc = "sessions", !.rows = {s}]
<1>1. x \in Transactions /\ x.holds = {} /\ x.pc = "sessions" /\ x.rows = {s}
  BY DEF Idle, Transactions
<1>2. Free(r, {})
  BY DEF Free
<1>3. request' = [request EXCEPT ![r] = x] /\ UNCHANGED <<session, token>>
  BY DEF Logout
<1> HIDE DEF x
<1>4. Prepared(r)'
  BY <1>1, <1>3 DEF Prepared, SessionsInv, TypeOK
<1> QED
  BY <1>1, <1>2, <1>3, <1>4, TransactionStep

LEMMA ResetStep ==
  ASSUME SessionsInv, NEW r \in Requests, NEW u \in Users, ResetUser(r, u)
  PROVE  SessionsInv'
<1> DEFINE x == [Idle EXCEPT !.pc = "sessions", !.rows = ActiveSessions(u), !.holds = {u}]
<1>1. x \in Transactions /\ x.holds = {u} /\ x.pc = "sessions" /\ x.rows \subseteq Sessions
  BY DEF Idle, Transactions, ActiveSessions
<1>2. Free(r, {u})
  BY DEF ResetUser
<1>3. request' = [request EXCEPT ![r] = x] /\ UNCHANGED <<session, token>>
  BY DEF ResetUser
<1> HIDE DEF x
<1>4. Prepared(r)'
  BY <1>1, <1>3 DEF Prepared, SessionsInv, TypeOK
<1> QED
  BY <1>1, <1>2, <1>3, <1>4, TransactionStep

\* What Becomes leaves of the transaction.
LEMMA BecomesStep ==
  ASSUME SessionsInv, NEW r \in Requests, NEW pc, NEW rows, NEW locked,
         Becomes(r, pc, rows, locked), Free(r, locked), UNCHANGED <<session, token>>,
         pc \in {"idle", "token", "session", "siblings", "reuse", "sessions", "tokens"},
         rows \subseteq Sessions \cup Tokens,
         locked \subseteq Users \cup Sessions \cup Tokens,
         request'[r] = [pc |-> pc, tok |-> request[r].tok, rows |-> rows,
                        holds |-> request[r].holds \cup locked] => Prepared(r)'
  PROVE  SessionsInv'
<1> DEFINE x == [pc |-> pc, tok |-> request[r].tok, rows |-> rows,
                 holds |-> request[r].holds \cup locked]
<1>1. request[r] \in Transactions
  BY DEF SessionsInv, TypeOK
<1>2. x \in Transactions
  BY <1>1 DEF Transactions
<1>3. request' = [request EXCEPT ![r] = x]
  BY DEF Becomes
<1>4. request'[r] = x
  BY <1>3 DEF SessionsInv, TypeOK
<1>5. x.holds \subseteq request[r].holds \cup locked
  OBVIOUS
<1>6. Prepared(r)'
  BY <1>4
<1> HIDE DEF x
<1> QED
  BY <1>2, <1>3, <1>5, <1>6, TransactionStep

LEMMA LockTokenStep ==
  ASSUME SessionsInv, NEW r \in Requests, LockToken(r)
  PROVE  SessionsInv'
<1> DEFINE t == request[r].tok
<1>1. t \in Tokens /\ token[t].status # "none" /\ Free(r, {t}) /\ UNCHANGED <<session, token>>
  BY DEF LockToken, SessionsInv, Prepared
<1>2. CASE token[t].status = "active"
  <2>1. Becomes(r, "session", {}, {t})
    BY <1>2 DEF LockToken
  <2>2. request'[r] = [pc |-> "session", tok |-> t, rows |-> {},
                       holds |-> request[r].holds \cup {t}] => Prepared(r)'
    BY <1>1, <1>2 DEF Prepared
  <2> QED
    BY <1>1, <2>1, <2>2, BecomesStep
<1>3. CASE token[t].status # "active"
  <2> DEFINE rows == ActiveTokens({token[t].session}) \ {t}
  <2>1. Becomes(r, "siblings", rows, {t})
    BY <1>3 DEF LockToken
  <2>2. rows \subseteq TokensOf(token[t].session)
    BY DEF ActiveTokens, TokensOf
  <2>3. rows \subseteq Tokens
    BY DEF ActiveTokens
  <2> HIDE DEF rows
  <2>4. request'[r] = [pc |-> "siblings", tok |-> t, rows |-> rows,
                       holds |-> request[r].holds \cup {t}] => Prepared(r)'
    BY <1>1, <2>2 DEF Prepared, TokensOf, SessionOf
  <2> QED
    BY <1>1, <2>1, <2>3, <2>4, BecomesStep
<1> QED
  BY <1>2, <1>3

LEMMA SessionMovedOnStep ==
  ASSUME SessionsInv, NEW r \in Requests, SessionMovedOn(r)
  PROVE  SessionsInv'
<1> DEFINE t == request[r].tok
<1> DEFINE s == SessionOf(r)
<1> DEFINE rows == ActiveTokens({s}) \ {t}
<1>1. t \in Tokens /\ token[t].status # "none" /\ t \in request[r].holds
  BY DEF SessionMovedOn, AtSession, SessionsInv, Prepared
<1>2. Free(r, {s}) /\ UNCHANGED <<session, token>> /\ Becomes(r, "siblings", rows, {s})
  BY DEF SessionMovedOn, AtSession
<1>3. s \in Sessions
  BY <1>1 DEF SessionOf, SessionsInv, RowsInv, TokensBelong
<1>4. rows \subseteq TokensOf(s) /\ rows \subseteq Tokens
  BY DEF ActiveTokens, TokensOf
<1>5. s = token[t].session
  BY DEF SessionOf
<1> HIDE DEF rows, s
<1>6. request'[r] = [pc |-> "siblings", tok |-> t, rows |-> rows,
                     holds |-> request[r].holds \cup {s}] => Prepared(r)'
  BY <1>1, <1>2, <1>4, <1>5 DEF Prepared, TokensOf, SessionOf
<1> QED
  BY <1>2, <1>3, <1>4, <1>6, BecomesStep

LEMMA RevokeSiblingsStep ==
  ASSUME SessionsInv, NEW r \in Requests, RevokeSiblings(r)
  PROVE  SessionsInv'
<1> DEFINE T == {t \in request[r].rows : token[t].status = "active"}
<1>1. request[r].tok \in Tokens /\ request[r].tok \in request[r].holds
        /\ token[request[r].tok].status # "none"
  BY DEF RevokeSiblings, SessionsInv, Prepared
<1>2. request[r].rows \subseteq TokensOf(SessionOf(r))
  BY DEF RevokeSiblings, SessionsInv, Prepared
<1>3. UNCHANGED <<session, token>> /\ Becomes(r, "reuse", T, T)
  BY DEF RevokeSiblings
<1>4. Free(r, T)
  BY DEF RevokeSiblings, Free
<1>5. T \subseteq Tokens /\ T \subseteq TokensOf(SessionOf(r))
  BY <1>2 DEF TokensOf
<1> HIDE DEF T
<1>6. request'[r] = [pc |-> "reuse", tok |-> request[r].tok, rows |-> T,
                     holds |-> request[r].holds \cup T] => Prepared(r)'
  BY <1>1, <1>3, <1>5 DEF Prepared, TokensOf, SessionOf
<1> QED
  BY <1>3, <1>4, <1>5, <1>6, BecomesStep

LEMMA RevokeLocksSessionsStep ==
  ASSUME SessionsInv, NEW r \in Requests, RevokeLocksSessions(r)
  PROVE  SessionsInv'
<1> DEFINE S == {s \in request[r].rows : session[s].status = "active"}
<1>1. request[r].rows \subseteq Sessions
  BY DEF RevokeLocksSessions, SessionsInv, Prepared
<1>2. UNCHANGED <<session, token>>
  BY DEF RevokeLocksSessions
<1>3. Free(r, S)
  BY DEF RevokeLocksSessions, Free
<1>4. S \subseteq Sessions
  BY <1>1
<1>5. CASE S = {}
  BY <1>2, <1>5, EndStep DEF RevokeLocksSessions
<1>6. CASE S # {}
  <2>1. Becomes(r, "tokens", ActiveTokens(S), S)
    BY <1>6 DEF RevokeLocksSessions
  <2> HIDE DEF S
  <2>2. ActiveTokens(S) \subseteq Tokens /\ \A t \in ActiveTokens(S) : token[t].session \in S
    BY DEF ActiveTokens
  <2>3. request'[r] = [pc |-> "tokens", tok |-> request[r].tok, rows |-> ActiveTokens(S),
                       holds |-> request[r].holds \cup S] => Prepared(r)'
    BY <1>2, <1>4, <2>2 DEF Prepared
  <2> QED
    BY <1>2, <1>3, <1>4, <2>1, <2>2, <2>3, BecomesStep
<1> QED
  BY <1>5, <1>6

-----------------------------------------------------------------------------
\* The steps that change rows.  Each is first put as what becomes of every
\* row, then as what that keeps.

\* When transactions end or stay as they are, the others stay prepared as long
\* as no token is taken from under a lock.
LEMMA RowStep ==
  ASSUME SessionsInv, TypeOK', RowsInv',
         \A r \in Requests : request'[r] = request[r] \/ request'[r] = Idle,
         \A t \in Tokens : token[t].status # "none" =>
             token'[t].status # "none" /\ token'[t].session = token[t].session,
         \A r \in Requests : request'[r] = request[r] /\ request[r].pc = "session" =>
             token'[request[r].tok].status = "active"
  PROVE  SessionsInv'
<1>1. LocksExclude'
  BY DEF SessionsInv, LocksExclude, Idle
<1>2. ASSUME NEW r \in Requests
      PROVE  Prepared(r)'
  <2>1. CASE request'[r] = Idle
    BY <2>1 DEF Prepared, Idle
  <2>2. CASE request'[r] = request[r]
    BY <2>2, OthersKept DEF SessionsInv, RowsInv
  <2> QED
    BY <2>1, <2>2
<1> QED
  BY <1>1, <1>2 DEF SessionsInv

LEMMA CreateSessionStep ==
  ASSUME SessionsInv, NEW s \in Sessions, NEW t \in Tokens, NEW u \in Users, CreateSession(s, t, u)
  PROVE  SessionsInv'
<1> DEFINE s1 == [status |-> "active", user |-> u, token |-> t, late |-> FALSE]
<1> DEFINE t1 == [status |-> "active", session |-> s, late |-> FALSE, from |-> None]
<1>1. /\ session[s].status = "none" /\ token[t].status = "none"
      /\ session' = [session EXCEPT ![s] = s1]
      /\ token' = [token EXCEPT ![t] = t1]
      /\ request' = request
  BY DEF CreateSession
<1>2. s1 \in SessionRows /\ t1 \in TokenRows
  BY RowsAssumption DEF SessionRows, TokenRows
<1>3. s1.status = "active" /\ s1.token = t /\ t1.status = "active" /\ t1.session = s /\ t1.from = None
  OBVIOUS
<1> HIDE DEF s1, t1
<1>4. TypeOK'
  BY <1>1, <1>2 DEF SessionsInv, TypeOK
<1>5. /\ session'[s] = s1 /\ \A x \in Sessions : x # s => session'[x] = session[x]
      /\ token'[t] = t1 /\ \A x \in Tokens : x # t => token'[x] = token[x]
  BY <1>1 DEF SessionsInv, TypeOK
<1>6. \A x \in Tokens : token[x].session # s
  BY <1>1, RowsAssumption DEF SessionsInv, RowsInv, TokensBelong
<1>7. TokensBelong'
  BY <1>3, <1>5 DEF SessionsInv, RowsInv, TokensBelong
<1>8. OneAcceptedToken'
  <2>1. ASSUME NEW x \in Sessions, x # s, session'[x].status = "active"
        PROVE  /\ session'[x].token \in TokensOf(x)'
               /\ token'[session'[x].token].status \in {"active", "expired"}
               /\ \A y \in TokensOf(x)' : y # session'[x].token => token'[y].status # "active"
    BY <1>1, <1>3, <1>5, <2>1 DEF SessionsInv, RowsInv, OneAcceptedToken, TokensOf
  <2>2. \A y \in TokensOf(s)' : y = t
    BY <1>3, <1>5, <1>6 DEF TokensOf
  <2> QED
    BY <1>3, <1>5, <2>1, <2>2 DEF OneAcceptedToken, TokensOf
<1>9. PredecessorsSpent'
  BY <1>1, <1>3, <1>5 DEF SessionsInv, RowsInv, PredecessorsSpent
<1>10. RotatedOnce'
  BY <1>3, <1>5 DEF SessionsInv, RowsInv, RotatedOnce
<1>11. ReuseEndsSession'
  <2> SUFFICES ASSUME NEW x \in Tokens, token'[x].status = "reused"
               PROVE  session'[token'[x].session].status = "revoked"
    BY DEF ReuseEndsSession
  <2>1. x # t
    BY <1>3, <1>5
  <2>2. token[x].session \in Sessions /\ token[x].session # s
    BY <1>5, <1>6, <2>1 DEF SessionsInv, RowsInv, TokensBelong
  <2> QED
    BY <1>5, <2>1, <2>2 DEF SessionsInv, RowsInv, ReuseEndsSession
<1>12. \A x \in Tokens : token[x].status # "none" => x # t
  BY <1>1
<1>13. \A r \in Requests : request[r].pc = "session" => token'[request[r].tok].status = "active"
  BY <1>1, <1>5 DEF SessionsInv, Prepared
<1> QED
  BY <1>1, <1>4, <1>5, <1>7, <1>8, <1>9, <1>10, <1>11, <1>12, <1>13, RowStep DEF RowsInv

\* A token that a transaction changes is one it has locked, or waits for no
\* longer: no other transaction relies on it.
LEMMA HeldByOne ==
  ASSUME SessionsInv, NEW r \in Requests, NEW q \in Requests, q # r,
         request[q].pc = "session",
         NEW t, t \in request[r].holds \/ \E rows : t \in rows /\ Free(r, rows)
  PROVE  request[q].tok # t
BY DEF SessionsInv, LocksExclude, Prepared, Free

\* What the refusal of an expired token writes.
ExpiryRows(t, s) ==
  /\ t \in Tokens /\ token[t].status = "active"
  /\ token[t].session = s /\ session[s].status = "active" /\ session[s].token = t
  /\ session' = session
  /\ token' \in [Tokens -> TokenRows]
  /\ token'[t].status = "expired"
  /\ \A x \in Tokens : x # t => token'[x] = token[x]
  /\ \A x \in Tokens : token'[x].session = token[x].session /\ token'[x].from = token[x].from

LEMMA ExpireTokenWrites ==
  ASSUME SessionsInv, NEW r \in Requests, ExpireToken(r),
         NEW t, NEW s, t = request[r].tok, s = SessionOf(r)
  PROVE  ExpiryRows(t, s) /\ t \in request[r].holds /\ Ends(r)
<1>1. /\ t \in Tokens /\ token[t].status = "active" /\ t \in request[r].holds
      /\ token[t].session = s /\ session[s].status = "active" /\ session[s].token = t
      /\ session' = session /\ token' = [token EXCEPT ![t].status = "expired"]
      /\ Ends(r)
  BY DEF ExpireToken, AtSession, Current, SessionOf, SessionsInv, Prepared
<1>2. /\ token' \in [Tokens -> TokenRows]
      /\ token'[t].status = "expired"
      /\ \A x \in Tokens : x # t => token'[x] = token[x]
      /\ \A x \in Tokens : token'[x].session = token[x].session /\ token'[x].from = token[x].from
  BY <1>1 DEF SessionsInv, TypeOK, TokenRows
<1> QED
  BY <1>1, <1>2 DEF ExpiryRows

LEMMA ExpireTokenStep ==
  ASSUME SessionsInv, NEW r \in Requests, ExpireToken(r)
  PROVE  SessionsInv'
<1>0. PICK t, s : t = request[r].tok /\ s = SessionOf(r)
  OBVIOUS
<1>1. ExpiryRows(t, s) /\ t \in request[r].holds /\ Ends(r)
  BY <1>0, ExpireTokenWrites
<1>2. request' \in [Requests -> Transactions] /\ \A q \in Requests : q # r => request'[q] = request[q]
  BY <1>1, IdlePrepared DEF SessionsInv, TypeOK
<1>3. TypeOK'
  BY <1>1, <1>2 DEF SessionsInv, TypeOK, ExpiryRows
<1>5. RowsInv'
  <2>1. TokensBelong'
    BY <1>1 DEF SessionsInv, RowsInv, TokensBelong, ExpiryRows
  <2>2. OneAcceptedToken'
    BY <1>1 DEF SessionsInv, RowsInv, OneAcceptedToken, TokensOf, ExpiryRows
  <2>3. PredecessorsSpent'
    BY <1>1 DEF SessionsInv, RowsInv, PredecessorsSpent, ExpiryRows
  <2>4. RotatedOnce'
    BY <1>1 DEF SessionsInv, RowsInv, RotatedOnce, ExpiryRows
  <2>5. ReuseEndsSession'
    BY <1>1 DEF SessionsInv, RowsInv, ReuseEndsSession, ExpiryRows
  <2> QED
    BY <2>1, <2>2, <2>3, <2>4, <2>5 DEF RowsInv
<1>6. \A q \in Requests : request'[q] = request[q] \/ request'[q] = Idle
  BY <1>1, <1>2 DEF Ends, SessionsInv, TypeOK
<1>7. ASSUME NEW q \in Requests, request'[q] = request[q], request[q].pc = "session"
      PROVE  token'[request[q].tok].status = "active"
  <2>1. request'[r].pc = "idle"
    BY <1>1 DEF Ends, Idle, SessionsInv, TypeOK
  <2>2. q # r
    BY <1>7, <2>1
  <2>3. request[q].tok # t
    BY <1>1, <1>7, <2>2, HeldByOne
  <2> QED
    BY <1>1, <1>7, <2>3 DEF SessionsInv, Prepared, ExpiryRows
<1>8. \A x \in Tokens : token[x].status # "none" =>
          token'[x].status # "none" /\ token'[x].session = token[x].session
  BY <1>1 DEF ExpiryRows
<1> QED
  BY <1>3, <1>5, <1>6, <1>7, <1>8, RowStep

\* What a rotation writes: the token it spends, and a fresh one.
RotationRows(t, s, new) ==
  /\ t \in Tokens /\ token[t].status = "active"
  /\ token[t].session = s /\ session[s].status = "active" /\ session[s].token = t
  /\ token[new].status = "none" /\ t # new /\ s \in Sessions
  /\ token' \in [Tokens -> TokenRows]
  /\ token'[t].status = "rotated" /\ token'[t].session = s /\ token'[t].from = token[t].from
  /\ token'[new].status = "active" /\ token'[new].session = s /\ token'[new].from = t
  /\ \A x \in Tokens \ {t, new} : token'[x] = token[x]
  /\ session' \in [Sessions -> SessionRows]
  /\ session'[s].token = new
  /\ \A x \in Sessions : session'[x].status = session[x].status
  /\ \A x \in Sessions : x # s => session'[x].token = session[x].token

LEMMA RotationWrites ==
  ASSUME SessionsInv, NEW r \in Requests, NEW new \in Tokens, RotateAccessToken(r, new),
         NEW t, NEW s, t = request[r].tok, s = SessionOf(r)
  PROVE  RotationRows(t, s, new) /\ t \in request[r].holds /\ Ends(r)
<1> DEFINE spent == [token[t] EXCEPT !.status = "rotated"]
<1> DEFINE fresh == [status |-> "active", session |-> s, late |-> FALSE, from |-> t]
<1>1. /\ t \in Tokens /\ token[t].status = "active" /\ t \in request[r].holds
      /\ token[t].session = s /\ session[s].status = "active" /\ session[s].token = t
      /\ token[new].status = "none"
      /\ session' = [session EXCEPT ![s].token = new]
      /\ Ends(r)
  BY DEF RotateAccessToken, AtSession, Current, SessionOf, SessionsInv, Prepared
<1>2. t # new /\ s \in Sessions
  BY <1>1 DEF SessionsInv, RowsInv, TokensBelong
<1>3. token' = [token EXCEPT ![t] = spent, ![new] = fresh]
  BY Zenon DEF RotateAccessToken
<1>4. /\ spent.status = "rotated" /\ spent.session = s /\ spent.from = token[t].from
      /\ spent \in TokenRows
  BY <1>1 DEF SessionsInv, TypeOK, TokenRows
<1>5. /\ fresh.status = "active" /\ fresh.session = s /\ fresh.from = t
      /\ fresh \in TokenRows
  BY <1>1, <1>2 DEF TokenRows
<1> HIDE DEF spent, fresh
<1>6. /\ token' \in [Tokens -> TokenRows]
      /\ token'[t] = spent /\ token'[new] = fresh
      /\ \A x \in Tokens \ {t, new} : token'[x] = token[x]
  BY <1>1, <1>2, <1>3, <1>4, <1>5 DEF SessionsInv, TypeOK
<1>7. /\ session' \in [Sessions -> SessionRows]
      /\ session'[s].token = new
      /\ \A x \in Sessions : session'[x].status = session[x].status
      /\ \A x \in Sessions : x # s => session'[x].token = session[x].token
  BY <1>1, <1>2 DEF SessionsInv, TypeOK, SessionRows
<1> QED
  BY <1>1, <1>2, <1>4, <1>5, <1>6, <1>7 DEF RotationRows

LEMMA RotateStep ==
  ASSUME SessionsInv, NEW r \in Requests, NEW new \in Tokens, RotateAccessToken(r, new)
  PROVE  SessionsInv'
<1>0. PICK t, s : t = request[r].tok /\ s = SessionOf(r)
  OBVIOUS
<1>1. RotationRows(t, s, new) /\ t \in request[r].holds /\ Ends(r)
  BY <1>0, RotationWrites
<1>2. t # new /\ s \in Sessions
  BY <1>1 DEF RotationRows
<1>4. token'[t].status = "rotated" /\ token'[t].session = s /\ token'[t].from = token[t].from
  BY <1>1 DEF RotationRows
<1>5. token'[new].status = "active" /\ token'[new].session = s /\ token'[new].from = t
  BY <1>1 DEF RotationRows
<1>6. request' \in [Requests -> Transactions] /\ \A q \in Requests : q # r => request'[q] = request[q]
  BY <1>1, IdlePrepared DEF SessionsInv, TypeOK
<1>7. /\ token' \in [Tokens -> TokenRows]
      /\ \A x \in Tokens \ {t, new} : token'[x] = token[x]
  BY <1>1 DEF RotationRows
<1>8. /\ session' \in [Sessions -> SessionRows]
      /\ session'[s].token = new
      /\ \A x \in Sessions : session'[x].status = session[x].status
      /\ \A x \in Sessions : x # s => session'[x].token = session[x].token
  BY <1>1 DEF RotationRows
<1>9. TypeOK'
  BY <1>6, <1>7, <1>8 DEF TypeOK
<1>10. RowsInv'
  <2>1. TokensBelong'
    BY <1>1, <1>2, <1>4, <1>5, <1>7, <1>8 DEF SessionsInv, RowsInv, TokensBelong, RotationRows
  <2>2. OneAcceptedToken'
    <3>1. ASSUME NEW x \in Sessions, x # s, session'[x].status = "active"
          PROVE  /\ session'[x].token \in TokensOf(x)'
                 /\ token'[session'[x].token].status \in {"active", "expired"}
                 /\ \A y \in TokensOf(x)' : y # session'[x].token => token'[y].status # "active"
      <4>1. session[x].token \in TokensOf(x) /\ token[session[x].token].status \in {"active", "expired"}
        BY <1>8, <3>1 DEF SessionsInv, RowsInv, OneAcceptedToken
      <4>2. session[x].token \notin {t, new}
        BY <1>1, <3>1, <4>1 DEF TokensOf, RotationRows
      <4>3. TokensOf(x)' = TokensOf(x)
        BY <1>1, <1>2, <1>4, <1>5, <1>7, <3>1, RowsAssumption
        DEF TokensOf, SessionsInv, RowsInv, TokensBelong, RotationRows
      <4>4. \A y \in TokensOf(x) : y \notin {t, new} /\ token'[y] = token[y]
        BY <1>1, <1>2, <1>7, <3>1, RowsAssumption DEF TokensOf, SessionsInv, RowsInv, TokensBelong, RotationRows
      <4> QED
        BY <1>8, <3>1, <4>1, <4>3, <4>4 DEF SessionsInv, RowsInv, OneAcceptedToken
    <3>2. new \in TokensOf(s)'
      BY <1>5, <1>7 DEF TokensOf
    <3>3. ASSUME NEW y \in TokensOf(s)', y # new
          PROVE  token'[y].status # "active"
      <4>1. CASE y = t
        BY <1>4, <1>7, <4>1
      <4>2. CASE y # t
        <5>1. y \in TokensOf(s) /\ token'[y] = token[y]
          BY <1>7, <3>3, <4>2 DEF TokensOf
        <5> QED
          BY <1>1, <1>2, <4>2, <5>1 DEF SessionsInv, RowsInv, OneAcceptedToken, RotationRows
      <4> QED
        BY <4>1, <4>2
    <3> QED
      BY <1>5, <1>7, <1>8, <3>1, <3>2, <3>3 DEF OneAcceptedToken
  <2>3. PredecessorsSpent'
    BY <1>1, <1>2, <1>4, <1>5, <1>7 DEF SessionsInv, RowsInv, PredecessorsSpent, RotationRows
  <2>4. RotatedOnce'
    <3>1. \A x \in Tokens : token[x].from # t
      BY <1>1, RowsAssumption DEF SessionsInv, RowsInv, PredecessorsSpent, RotationRows
    <3>2. \A x \in Tokens \ {new} : token'[x].from = token[x].from
      BY <1>4, <1>7
    <3> QED
      BY <1>5, <1>7, <3>1, <3>2 DEF SessionsInv, RowsInv, RotatedOnce
  <2>5. ReuseEndsSession'
    <3>1. \A x \in Tokens : token'[x].status = "reused" => token'[x] = token[x]
      BY <1>1, <1>4, <1>5, <1>7 DEF RotationRows
    <3> QED
      BY <1>8, <3>1 DEF SessionsInv, RowsInv, ReuseEndsSession, TokensBelong
  <2> QED
    BY <2>1, <2>2, <2>3, <2>4, <2>5 DEF RowsInv
<1>11. \A q \in Requests : request'[q] = request[q] \/ request'[q] = Idle
  BY <1>1, <1>6 DEF Ends, SessionsInv, TypeOK, RotationRows
<1>12. ASSUME NEW q \in Requests, request'[q] = request[q], request[q].pc = "session"
       PROVE  token'[request[q].tok].status = "active"
  <2>1. request'[r].pc = "idle"
    BY <1>1 DEF Ends, Idle, SessionsInv, TypeOK, RotationRows
  <2>2. q # r
    BY <1>12, <2>1
  <2>3. request[q].tok # t
    BY <1>1, <1>12, <2>2, HeldByOne DEF RotationRows
  <2>4. request[q].tok # new /\ request[q].tok \in Tokens /\ token[request[q].tok].status = "active"
    BY <1>1, <1>12 DEF SessionsInv, Prepared, RotationRows
  <2> QED
    BY <1>7, <2>3, <2>4
<1>13. \A x \in Tokens : token[x].status # "none" =>
          token'[x].status # "none" /\ token'[x].session = token[x].session
  BY <1>1, <1>4, <1>7 DEF RotationRows
<1> QED
  BY <1>9, <1>10, <1>11, <1>12, <1>13, RowStep

\* Revoking the rows of sessions and tokens of those sessions keeps what the
\* rows promise, with or without the mark of a reuse.
LEMMA RevocationKeepsRows ==
  ASSUME TypeOK, RowsInv, NEW S \in SUBSET Sessions,
         session' = RevokeRows(S),
         token' \in [Tokens -> TokenRows],
         \A t \in Tokens : token'[t].session = token[t].session /\ token'[t].from = token[t].from,
         \A t \in Tokens : token'[t].status # token[t].status =>
             /\ token[t].status # "none" /\ token[t].session \in S
             /\ \/ token'[t].status = "reused"
                \/ token[t].status = "active" /\ token'[t].status = "revoked"
  PROVE  RowsInv' /\ session' \in [Sessions -> SessionRows]
<1>1. /\ session' \in [Sessions -> SessionRows]
      /\ \A s \in Sessions : session'[s].token = session[s].token
      /\ \A s \in Sessions \ S : session'[s] = session[s]
      /\ \A s \in S : session'[s].status # "active"
      /\ \A s \in S : session[s].status \notin {"none"} => session'[s].status = "revoked"
      /\ \A s \in Sessions : session[s].status = "revoked" => session'[s].status = "revoked"
      /\ \A s \in Sessions : session[s].status # "none" => session'[s].status # "none"
  BY DEF RevokeRows, TypeOK, SessionRows
<1>2. TokensBelong'
  BY <1>1 DEF RowsInv, TokensBelong
<1>3. OneAcceptedToken'
  <2> SUFFICES ASSUME NEW s \in Sessions, session'[s].status = "active"
               PROVE  /\ session'[s].token \in TokensOf(s)'
                      /\ token'[session'[s].token].status \in {"active", "expired"}
                      /\ \A t \in TokensOf(s)' : t # session'[s].token => token'[t].status # "active"
    BY DEF OneAcceptedToken
  <2>1. s \notin S /\ session[s].status = "active"
    BY <1>1
  <2>2. \A t \in TokensOf(s) : token'[t].status = token[t].status
    BY <2>1 DEF TokensOf
  <2>3. TokensOf(s)' = TokensOf(s)
    BY DEF TokensOf
  <2> QED
    BY <1>1, <2>1, <2>2, <2>3 DEF RowsInv, OneAcceptedToken
<1>4. PredecessorsSpent'
  BY DEF RowsInv, PredecessorsSpent
<1>5. RotatedOnce'
  BY DEF RowsInv, RotatedOnce
<1>6. ReuseEndsSession'
  <2> SUFFICES ASSUME NEW t \in Tokens, token'[t].status = "reused"
               PROVE  session'[token[t].session].status = "revoked"
    BY DEF ReuseEndsSession
  <2>1. CASE token[t].status = "reused"
    BY <1>1, <2>1 DEF RowsInv, ReuseEndsSession, TokensBelong
  <2>2. CASE token[t].status # "reused"
    BY <1>1, <2>2 DEF RowsInv, TokensBelong
  <2> QED
    BY <2>1, <2>2
<1> QED
  BY <1>1, <1>2, <1>3, <1>4, <1>5, <1>6 DEF RowsInv

\* What the revocation of the sessions S writes.
RevocationRows(S) ==
  /\ session' = RevokeRows(S)
  /\ token' \in [Tokens -> TokenRows]
  /\ \A x \in Tokens : token'[x].session = token[x].session /\ token'[x].from = token[x].from
  /\ \A x \in Tokens : token'[x].status # token[x].status =>
        /\ token[x].status # "none" /\ token[x].session \in S
        /\ \/ token'[x].status = "reused"
           \/ token[x].status = "active" /\ token'[x].status = "revoked"

LEMMA MarkTokenReuseWrites ==
  ASSUME SessionsInv, NEW r \in Requests, MarkTokenReuse(r),
         NEW t, NEW s, NEW T, t = request[r].tok, s = SessionOf(r), T = request[r].rows
  PROVE  /\ RevocationRows({s}) /\ Ends(r)
         /\ s \in Sessions /\ t \in request[r].holds /\ T \subseteq request[r].holds
         /\ \A x \in Tokens \ (T \cup {t}) : token'[x].status = token[x].status
<1> DEFINE marked == [token EXCEPT ![t].status = "reused"]
<1>1. /\ t \in Tokens /\ token[t].status # "none" /\ t \in request[r].holds
      /\ token[t].session = s /\ T \subseteq request[r].holds
      /\ T \subseteq Tokens /\ \A x \in T : token[x].session = s
      /\ Ends(r) /\ session' = RevokeRows({s}) /\ token' = RevokeTokens(marked, T)
  BY DEF MarkTokenReuse, SessionOf, SessionsInv, Prepared, TokensOf
<1>2. s \in Sessions
  BY <1>1 DEF SessionsInv, RowsInv, TokensBelong
<1>3. /\ marked \in [Tokens -> TokenRows]
      /\ marked[t].status = "reused"
      /\ \A x \in Tokens : marked[x].session = token[x].session /\ marked[x].from = token[x].from
      /\ \A x \in Tokens : x # t => marked[x] = token[x]
  BY <1>1 DEF SessionsInv, TypeOK, TokenRows
<1> HIDE DEF marked
<1>4. /\ token' \in [Tokens -> TokenRows]
      /\ \A x \in Tokens : token'[x].session = marked[x].session /\ token'[x].from = marked[x].from
      /\ \A x \in Tokens : token'[x].status # marked[x].status =>
             x \in T /\ marked[x].status = "active" /\ token'[x].status = "revoked"
  BY <1>1, <1>3 DEF RevokeTokens, TokenRows
<1>5. \A x \in Tokens : token'[x].status # token[x].status =>
        /\ token[x].status # "none" /\ token[x].session \in {s}
        /\ \/ token'[x].status = "reused"
           \/ token[x].status = "active" /\ token'[x].status = "revoked"
  BY <1>1, <1>3, <1>4
<1> QED
  BY <1>1, <1>2, <1>3, <1>4, <1>5 DEF RevocationRows

LEMMA MarkTokenReuseStep ==
  ASSUME SessionsInv, NEW r \in Requests, MarkTokenReuse(r)
  PROVE  SessionsInv'
<1>0. PICK t, s, T : t = request[r].tok /\ s = SessionOf(r) /\ T = request[r].rows
  OBVIOUS
<1>1. /\ RevocationRows({s}) /\ Ends(r)
      /\ s \in Sessions /\ t \in request[r].holds /\ T \subseteq request[r].holds
      /\ \A x \in Tokens \ (T \cup {t}) : token'[x].status = token[x].status
  BY <1>0, MarkTokenReuseWrites
<1>6. RowsInv' /\ session' \in [Sessions -> SessionRows]
  <2>1. {s} \in SUBSET Sessions
    BY <1>1
  <2> QED
    BY <1>1, <2>1, RevocationKeepsRows DEF SessionsInv, RevocationRows
<1>7. request' \in [Requests -> Transactions] /\ \A q \in Requests : q # r => request'[q] = request[q]
  BY <1>1, IdlePrepared DEF SessionsInv, TypeOK
<1>8. \A q \in Requests : request'[q] = request[q] \/ request'[q] = Idle
  BY <1>1, <1>7 DEF Ends, SessionsInv, TypeOK
<1>9. ASSUME NEW q \in Requests, request'[q] = request[q], request[q].pc = "session"
      PROVE  token'[request[q].tok].status = "active"
  <2>1. request'[r].pc = "idle"
    BY <1>1 DEF Ends, Idle, SessionsInv, TypeOK
  <2>2. q # r
    BY <1>9, <2>1
  <2>3. request[q].tok # t /\ request[q].tok \notin T
    BY <1>1, <1>9, <2>2, HeldByOne
  <2>4. request[q].tok \in Tokens /\ token[request[q].tok].status = "active"
    BY <1>9 DEF SessionsInv, Prepared
  <2> QED
    BY <1>1, <2>3, <2>4
<1>10. \A x \in Tokens : token[x].status # "none" =>
          token'[x].status # "none" /\ token'[x].session = token[x].session
  BY <1>1 DEF RevocationRows
<1>11. TypeOK'
  BY <1>1, <1>6, <1>7 DEF TypeOK, RevocationRows
<1> QED
  BY <1>6, <1>8, <1>9, <1>10, <1>11, RowStep

LEMMA RevokeUserSessionsWrites ==
  ASSUME SessionsInv, NEW r \in Requests, RevokeUserSessions(r),
         NEW S, NEW T, S = request[r].holds \cap Sessions, T = request[r].rows
  PROVE  /\ RevocationRows(S) /\ Ends(r) /\ Free(r, T)
         /\ \A x \in Tokens \ T : token'[x].status = token[x].status
<1>1. /\ S \subseteq Sessions /\ T \subseteq Tokens /\ \A t \in T : token[t].session \in S
      /\ Free(r, T) /\ Ends(r) /\ session' = RevokeRows(S) /\ token' = RevokeTokens(token, T)
  BY DEF RevokeUserSessions, SessionsInv, Prepared
<1>2. /\ token' \in [Tokens -> TokenRows]
      /\ \A x \in Tokens : token'[x].session = token[x].session /\ token'[x].from = token[x].from
      /\ \A x \in Tokens : token'[x].status # token[x].status =>
             x \in T /\ token[x].status = "active" /\ token'[x].status = "revoked"
  BY <1>1 DEF RevokeTokens, SessionsInv, TypeOK, TokenRows
<1>3. \A x \in Tokens : token'[x].status # token[x].status =>
        /\ token[x].status # "none" /\ token[x].session \in S
        /\ \/ token'[x].status = "reused"
           \/ token[x].status = "active" /\ token'[x].status = "revoked"
  BY <1>1, <1>2
<1> QED
  BY <1>1, <1>2, <1>3 DEF RevocationRows

LEMMA RevokeUserSessionsStep ==
  ASSUME SessionsInv, NEW r \in Requests, RevokeUserSessions(r)
  PROVE  SessionsInv'
<1>0. PICK S, T : S = request[r].holds \cap Sessions /\ T = request[r].rows
  OBVIOUS
<1>1. /\ RevocationRows(S) /\ Ends(r) /\ Free(r, T)
      /\ \A x \in Tokens \ T : token'[x].status = token[x].status
  BY <1>0, RevokeUserSessionsWrites
<1>3. RowsInv' /\ session' \in [Sessions -> SessionRows]
  <2>1. S \in SUBSET Sessions
    BY <1>0
  <2> QED
    BY <1>1, <2>1, RevocationKeepsRows DEF SessionsInv, RevocationRows
<1>4. request' \in [Requests -> Transactions] /\ \A q \in Requests : q # r => request'[q] = request[q]
  BY <1>1, IdlePrepared DEF SessionsInv, TypeOK
<1>5. \A q \in Requests : request'[q] = request[q] \/ request'[q] = Idle
  BY <1>1, <1>4 DEF Ends, SessionsInv, TypeOK
<1>6. ASSUME NEW q \in Requests, request'[q] = request[q], request[q].pc = "session"
      PROVE  token'[request[q].tok].status = "active"
  <2>1. request'[r].pc = "idle"
    BY <1>1 DEF Ends, Idle, SessionsInv, TypeOK
  <2>2. q # r
    BY <1>6, <2>1
  <2>3. request[q].tok \notin T
    BY <1>1, <1>6, <2>2, HeldByOne
  <2>4. request[q].tok \in Tokens /\ token[request[q].tok].status = "active"
    BY <1>6 DEF SessionsInv, Prepared
  <2> QED
    BY <1>1, <2>3, <2>4
<1>7. \A x \in Tokens : token[x].status # "none" =>
          token'[x].status # "none" /\ token'[x].session = token[x].session
  BY <1>1 DEF RevocationRows
<1>8. TypeOK'
  BY <1>1, <1>3, <1>4 DEF TypeOK, RevocationRows
<1> QED
  BY <1>3, <1>5, <1>6, <1>7, <1>8, RowStep

\* An expiry changes no status.
LatenessRows ==
  /\ request' = request
  /\ session' \in [Sessions -> SessionRows] /\ token' \in [Tokens -> TokenRows]
  /\ \A s \in Sessions : session'[s].status = session[s].status /\ session'[s].token = session[s].token
  /\ \A t \in Tokens : /\ token'[t].status = token[t].status /\ token'[t].session = token[t].session
                       /\ token'[t].from = token[t].from

LEMMA LatenessKeepsRows ==
  ASSUME SessionsInv, LatenessRows
  PROVE  SessionsInv'
<1> USE DEF LatenessRows
<1>1. TypeOK'
  BY DEF SessionsInv, TypeOK
<1>2. RowsInv'
  <2>1. TokensBelong'
    BY DEF SessionsInv, RowsInv, TokensBelong
  <2>2. OneAcceptedToken'
    BY DEF SessionsInv, RowsInv, OneAcceptedToken, TokensOf
  <2>3. PredecessorsSpent' /\ RotatedOnce'
    BY DEF SessionsInv, RowsInv, PredecessorsSpent, RotatedOnce
  <2>4. ReuseEndsSession'
    BY DEF SessionsInv, RowsInv, ReuseEndsSession, TokensBelong
  <2> QED
    BY <2>1, <2>2, <2>3, <2>4 DEF RowsInv
<1>3. \A q \in Requests : request[q].pc = "session" => token'[request[q].tok].status = "active"
  BY DEF SessionsInv, Prepared
<1> QED
  BY <1>1, <1>2, <1>3, RowStep

LEMMA ExpiryWrites ==
  ASSUME SessionsInv,
         \/ \E t \in Tokens : AccessExpires(t)
         \/ \E s \in Sessions : SessionExpires(s)
  PROVE  LatenessRows
<1>1. ASSUME NEW t \in Tokens, AccessExpires(t)
      PROVE  LatenessRows
  <2>1. /\ token' \in [Tokens -> TokenRows]
        /\ \A x \in Tokens : /\ token'[x].status = token[x].status
                             /\ token'[x].session = token[x].session
                             /\ token'[x].from = token[x].from
    BY <1>1 DEF AccessExpires, SessionsInv, TypeOK, TokenRows
  <2> QED
    BY <1>1, <2>1 DEF LatenessRows, AccessExpires, SessionsInv, TypeOK
<1>2. ASSUME NEW s \in Sessions, SessionExpires(s)
      PROVE  LatenessRows
  <2>1. \A x \in Tokens : token'[x] = [token[x] EXCEPT !.late = token[x].late \/ token[x].session = s]
    BY <1>2 DEF SessionExpires
  <2>2. \A x \in Tokens : token[x] \in TokenRows
    BY DEF SessionsInv, TypeOK
  <2>3. ASSUME NEW x \in Tokens, NEW late \in BOOLEAN
        PROVE  /\ [token[x] EXCEPT !.late = late] \in TokenRows
               /\ [token[x] EXCEPT !.late = late].status = token[x].status
               /\ [token[x] EXCEPT !.late = late].session = token[x].session
               /\ [token[x] EXCEPT !.late = late].from = token[x].from
    BY <2>2 DEF TokenRows
  <2>4. \A x \in Tokens : (token[x].late \/ token[x].session = s) \in BOOLEAN
    BY Zenon
  <2>5. token' = [x \in Tokens |-> token'[x]]
    BY <1>2 DEF SessionExpires
  <2>6. \A x \in Tokens : /\ token'[x] \in TokenRows
                          /\ token'[x].status = token[x].status
                          /\ token'[x].session = token[x].session
                          /\ token'[x].from = token[x].from
    BY <2>1, <2>3, <2>4, Zenon
  <2>7. token' \in [Tokens -> TokenRows]
    BY <2>5, <2>6, Zenon
  <2>8. session' = [session EXCEPT ![s].late = TRUE]
    BY <1>2 DEF SessionExpires
  <2>9. /\ session' \in [Sessions -> SessionRows]
        /\ \A x \in Sessions : session'[x].status = session[x].status /\ session'[x].token = session[x].token
    BY <2>8 DEF SessionsInv, TypeOK, SessionRows
  <2> QED
    BY <1>2, <2>6, <2>7, <2>9 DEF LatenessRows, SessionExpires
<1> QED
  BY <1>1, <1>2

-----------------------------------------------------------------------------
\* One step for every action of SessionsNext.
LEMMA NextHolds == SessionsInv /\ [SessionsNext]_sessionVars => SessionsInv'
<1> SUFFICES ASSUME SessionsInv, [SessionsNext]_sessionVars
             PROVE  SessionsInv'
  OBVIOUS
<1>1. ASSUME NEW s \in Sessions, NEW t \in NewToken, NEW u \in Users, CreateSession(s, t, u)
      PROVE  SessionsInv'
  BY <1>1, CreateSessionStep DEF NewToken, Unused
<1>2. ASSUME NEW r \in Requests, NEW t \in Tokens, Refresh(r, t)
      PROVE  SessionsInv'
  BY <1>2, RefreshStep
<1>3. ASSUME NEW r \in Requests, NEW s \in Sessions, Logout(r, s)
      PROVE  SessionsInv'
  BY <1>3, LogoutStep
<1>4. ASSUME NEW r \in Requests, NEW u \in Users, ResetUser(r, u)
      PROVE  SessionsInv'
  BY <1>4, ResetStep
<1>5. ASSUME NEW r \in Requests, Step(r)
      PROVE  SessionsInv'
  <2>1. CASE LockToken(r)
    BY <2>1, LockTokenStep
  <2>2. CASE SessionMovedOn(r)
    BY <2>2, SessionMovedOnStep
  <2>3. CASE ExpireToken(r)
    BY <2>3, ExpireTokenStep
  <2>4. ASSUME NEW new \in NewToken, RotateAccessToken(r, new)
        PROVE  SessionsInv'
    BY <2>4, RotateStep DEF NewToken, Unused
  <2>5. CASE RefreshRollsBack(r)
    BY <2>5, EndStep DEF RefreshRollsBack
  <2>6. CASE RevokeSiblings(r)
    BY <2>6, RevokeSiblingsStep
  <2>7. CASE MarkTokenReuse(r)
    BY <2>7, MarkTokenReuseStep
  <2>8. CASE RevokeLocksSessions(r)
    BY <2>8, RevokeLocksSessionsStep
  <2>9. CASE RevokeUserSessions(r)
    BY <2>9, RevokeUserSessionsStep
  <2>10. CASE DeadlockAborts(r)
    BY <2>10, EndStep DEF DeadlockAborts
  <2> QED
    BY <1>5, <2>1, <2>2, <2>3, <2>4, <2>5, <2>6, <2>7, <2>8, <2>9, <2>10 DEF Step
<1>6. CASE UNCHANGED sessionVars
  <2>1. \A s \in Sessions : session'[s].status = session[s].status /\ session'[s].token = session[s].token
    BY <1>6 DEF sessionVars
  <2> QED
    BY <1>6, <2>1, LatenessKeepsRows DEF LatenessRows, sessionVars, SessionsInv, TypeOK
<1> QED
  BY <1>1, <1>2, <1>3, <1>4, <1>5, <1>6, ExpiryWrites, LatenessKeepsRows DEF SessionsNext

\* The invariant that everything below follows from.
THEOREM SessionsInvariant == Spec => []SessionsInv
  BY InitHolds, NextHolds, PTL DEF Spec

\* Every row and every transaction keeps its type.
THEOREM TypesHold == Spec => []TypeOK
<1>1. SessionsInv => TypeOK
  BY DEF SessionsInv
<1> QED
  BY <1>1, SessionsInvariant, PTL

\* Row locks exclude each other, whatever is locked in whatever order.
THEOREM LocksAreExclusive == Spec => []LocksExclude
<1>1. SessionsInv => LocksExclude
  BY DEF SessionsInv
<1> QED
  BY <1>1, SessionsInvariant, PTL

\* A session in use accepts one token, whichever refreshes, logouts and resets
\* cross (auth/repository.go:RotateAccessTokenTx).
THEOREM AcceptsOneToken == Spec => []OneAcceptedToken
<1>1. SessionsInv => OneAcceptedToken
  BY DEF SessionsInv, RowsInv
<1> QED
  BY <1>1, SessionsInvariant, PTL

\* No token is exchanged for two, however many requests present it at once.
THEOREM RotatesOnce == Spec => []RotatedOnce
<1>1. SessionsInv => RotatedOnce
  BY DEF SessionsInv, RowsInv
<1> QED
  BY <1>1, SessionsInvariant, PTL

\* Of a session in use one token is accepted, and none was exchanged for two.
THEOREM TokensExclude == Spec => []TokensAreExclusive
<1>1. OneAcceptedToken /\ RotatedOnce => TokensAreExclusive
  BY DEF TokensAreExclusive
<1> QED
  BY <1>1, AcceptsOneToken, RotatesOnce, PTL

\* A token that came back after its rotation has ended its session.
THEOREM ReuseIsPunished == Spec => []ReuseEndsSession
<1>1. SessionsInv => ReuseEndsSession
  BY DEF SessionsInv, RowsInv
<1> QED
  BY <1>1, SessionsInvariant, PTL

-----------------------------------------------------------------------------
\* No step brings a revoked session back, or gives it a token.
KeepsRevoked(s) ==
  /\ session'[s].status = "revoked" /\ session'[s].token = session[s].token
  /\ \A t \in Tokens : token[t].status = "none" => token'[t].session # s

LEMMA RevocationIsFinal ==
  ASSUME SessionsInv, SessionsNext, NEW s \in Sessions, session[s].status = "revoked"
  PROVE  KeepsRevoked(s)
<1>0. \A t \in Tokens : token[t].status = "none" => token[t].session # s
  BY RowsAssumption DEF SessionsInv, RowsInv, TokensBelong
<1>1. ASSUME UNCHANGED <<session, token>>
      PROVE  KeepsRevoked(s)
  BY <1>0, <1>1 DEF KeepsRevoked
<1>2. ASSUME NEW x \in Sessions, NEW t \in NewToken, NEW u \in Users, CreateSession(x, t, u)
      PROVE  KeepsRevoked(s)
  <2>1. t \in Tokens /\ x # s
    BY <1>2 DEF NewToken, Unused, CreateSession
  <2>2. session'[s] = session[s] /\ \A y \in Tokens : y # t => token'[y] = token[y]
    BY <1>2, <2>1 DEF CreateSession, SessionsInv, TypeOK
  <2>3. token'[t].session = x
    BY <1>2, <2>1 DEF CreateSession, SessionsInv, TypeOK
  <2> QED
    BY <1>0, <2>1, <2>2, <2>3 DEF KeepsRevoked
<1>3. ASSUME NEW r \in Requests, NEW new \in NewToken, RotateAccessToken(r, new)
      PROVE  KeepsRevoked(s)
  <2>0. PICK t, x : t = request[r].tok /\ x = SessionOf(r)
    OBVIOUS
  <2>1. /\ x # s /\ new \in Tokens /\ t \in Tokens /\ token[t].status = "active"
        /\ token[new].status = "none" /\ session' = [session EXCEPT ![x].token = new]
    BY <1>3, <2>0 DEF RotateAccessToken, AtSession, Current, NewToken, Unused, SessionsInv, Prepared
  <2> DEFINE spent == [token[t] EXCEPT !.status = "rotated"]
  <2> DEFINE fresh == [status |-> "active", session |-> x, late |-> FALSE, from |-> t]
  <2>2. token' = [token EXCEPT ![t] = spent, ![new] = fresh]
    BY <1>3, <2>0, Zenon DEF RotateAccessToken
  <2>3. fresh.session = x
    OBVIOUS
  <2> HIDE DEF spent, fresh
  <2>4. session'[s] = session[s]
    BY <2>1 DEF SessionsInv, TypeOK
  <2>5. \A y \in Tokens : token[y].status = "none" => token'[y] = token[y] \/ token'[y] = fresh
    BY <2>1, <2>2 DEF SessionsInv, TypeOK
  <2> QED
    BY <1>0, <2>1, <2>3, <2>4, <2>5 DEF KeepsRevoked
<1>4. ASSUME NEW S, session' = RevokeRows(S) \/ session' = session,
             \A t \in Tokens : token[t].status = "none" => token'[t].session = token[t].session
      PROVE  KeepsRevoked(s)
  BY <1>0, <1>4 DEF KeepsRevoked, RevokeRows
<1>5. ASSUME NEW r \in Requests, Step(r)
      PROVE  KeepsRevoked(s)
  <2>1. CASE ExpireToken(r)
    <3>1. request[r].tok \in Tokens
      BY <2>1 DEF ExpireToken, AtSession, SessionsInv, Prepared
    <3>2. \A t \in Tokens : token'[t].session = token[t].session
      BY <2>1, <3>1 DEF ExpireToken, SessionsInv, TypeOK, TokenRows
    <3> QED
      BY <1>4, <2>1, <3>2 DEF ExpireToken
  <2>2. CASE MarkTokenReuse(r)
    <3> DEFINE marked == [token EXCEPT ![request[r].tok].status = "reused"]
    <3>1. \A t \in Tokens : marked[t].session = token[t].session
      BY DEF SessionsInv, TypeOK, TokenRows
    <3>2. token' = RevokeTokens(marked, request[r].rows)
      BY <2>2 DEF MarkTokenReuse
    <3> HIDE DEF marked
    <3>3. \A t \in Tokens : marked[t] \in TokenRows
      BY DEF marked, SessionsInv, TypeOK, TokenRows
    <3>4. \A t \in Tokens : token'[t].session = marked[t].session
      BY <3>2, <3>3 DEF RevokeTokens, TokenRows
    <3> QED
      BY <1>4, <2>2, <3>1, <3>4 DEF MarkTokenReuse
  <2>3. CASE RevokeUserSessions(r)
    <3>1. \A t \in Tokens : token'[t].session = token[t].session
      BY <2>3 DEF RevokeUserSessions, RevokeTokens, SessionsInv, TypeOK, TokenRows
    <3> QED
      BY <1>4, <2>3, <3>1 DEF RevokeUserSessions
  <2>4. CASE \E new \in NewToken : RotateAccessToken(r, new)
    BY <1>3, <2>4
  <2>5. CASE UNCHANGED <<session, token>>
    BY <1>1, <2>5
  <2> QED
    BY <1>5, <2>1, <2>2, <2>3, <2>4, <2>5 DEF Step, LockToken, SessionMovedOn, RefreshRollsBack,
       RevokeSiblings, RevokeLocksSessions, DeadlockAborts
<1>6. ASSUME NEW t \in Tokens, AccessExpires(t)
      PROVE  KeepsRevoked(s)
  <2>1. \A x \in Tokens : token'[x].session = token[x].session
    BY <1>6 DEF AccessExpires, SessionsInv, TypeOK, TokenRows
  <2> QED
    BY <1>4, <1>6, <2>1 DEF AccessExpires
<1>7. ASSUME NEW x \in Sessions, SessionExpires(x)
      PROVE  KeepsRevoked(s)
  <2>1. session' = [session EXCEPT ![x].late = TRUE]
    BY <1>7 DEF SessionExpires
  <2>2. session'[s].status = session[s].status /\ session'[s].token = session[s].token
    BY <2>1 DEF SessionsInv, TypeOK, SessionRows
  <2>3. ASSUME NEW t \in Tokens, token[t].status = "none"
        PROVE  token'[t].session # s
    <3>1. token'[t] = [token[t] EXCEPT !.late = token[t].late \/ token[t].session = x]
      BY <1>7 DEF SessionExpires
    <3>2. token[t] \in TokenRows
      BY DEF SessionsInv, TypeOK
    <3>3. \A late : [token[t] EXCEPT !.late = late].session = token[t].session
      BY <3>2 DEF TokenRows
    <3> QED
      BY <1>0, <2>3, <3>1, <3>3, Zenon
  <2> QED
    BY <2>2, <2>3 DEF KeepsRevoked
<1>8. ASSUME NEW r \in Requests, NEW t \in Tokens, Refresh(r, t)
      PROVE  KeepsRevoked(s)
  BY <1>1, <1>8 DEF Refresh
<1>9. ASSUME NEW r \in Requests, NEW x \in Sessions, Logout(r, x)
      PROVE  KeepsRevoked(s)
  BY <1>1, <1>9 DEF Logout
<1>10. ASSUME NEW r \in Requests, NEW u \in Users, ResetUser(r, u)
      PROVE  KeepsRevoked(s)
  BY <1>1, <1>10 DEF ResetUser
<1> QED
  BY <1>2, <1>5, <1>6, <1>7, <1>8, <1>9, <1>10 DEF SessionsNext

\* A revoked session stays revoked and gets no token, not even for one that a
\* refresh was about to exchange (auth/repository.go:RevokeUserSessionsTx).
THEOREM RevocationHolds == Spec => RevokedForGood
<1>1. SessionsInv /\ [SessionsNext]_sessionVars =>
        [\A s \in Sessions : session[s].status = "revoked" =>
           /\ session'[s].status = "revoked" /\ session'[s].token = session[s].token
           /\ \A t \in Tokens : token[t].status = "none" => token'[t].session # s]_sessionVars
  BY RevocationIsFinal DEF KeepsRevoked
<1> QED
  BY <1>1, SessionsInvariant, PTL DEF Spec, RevokedForGood

-----------------------------------------------------------------------------
\* The rows keep the promise of SessionTokens.

\* Nothing of what SessionTokens is about changes.
SameChains ==
  /\ \A s \in Sessions : session'[s].status = session[s].status /\ Accepted(s)' = Accepted(s)
  /\ \A t \in Tokens : /\ token'[t].status = "none" <=> token[t].status = "none"
                       /\ token'[t].from = token[t].from

ChainStep == Chain!ChainNext \/ UNCHANGED Chain!chainVars

LEMMA ChainsStay == ASSUME SameChains PROVE ChainStep
<1>1. [s \in Sessions |-> session[s].status]' = [s \in Sessions |-> session[s].status]
  BY DEF SameChains
<1>2. [s \in Sessions |-> Accepted(s)]' = [s \in Sessions |-> Accepted(s)]
  BY DEF SameChains
<1>3. {t \in Tokens : token[t].status # "none"}' = {t \in Tokens : token[t].status # "none"}
  BY DEF SameChains
<1>4. [t \in Tokens |-> token[t].from]' = [t \in Tokens |-> token[t].from]
  BY DEF SameChains
<1> QED
  BY <1>1, <1>2, <1>3, <1>4 DEF ChainStep, Chain!chainVars

\* The token that a session accepts is its own.
LEMMA AcceptedIsOwn ==
  ASSUME SessionsInv, NEW s \in Sessions
  PROVE  /\ session[s].status = "active" => session[s].token \in TokensOf(s)
         /\ Accepted(s) # None =>
              /\ session[s].status = "active" /\ Accepted(s) = session[s].token
              /\ Accepted(s) \in TokensOf(s) /\ token[Accepted(s)].status = "active"
         /\ \A t \in TokensOf(s) : session[s].status = "active" /\ token[t].status = "active" =>
              Accepted(s) = t
BY DEF SessionsInv, RowsInv, OneAcceptedToken, Accepted

\* A session that stays as it is, and whose token does, accepts what it did.
LEMMA AcceptedKept ==
  ASSUME SessionsInv, NEW s \in Sessions, session'[s].status = session[s].status,
         session'[s].token = session[s].token,
         session[s].status = "active" => token'[session[s].token].status = token[session[s].token].status
  PROVE  Accepted(s)' = Accepted(s)
BY DEF Accepted

\* Rows that change in nothing but their lateness.
LEMMA LatenessStays ==
  ASSUME SessionsInv,
         \A s \in Sessions : session'[s].status = session[s].status /\ session'[s].token = session[s].token,
         \A t \in Tokens : token'[t].status = token[t].status /\ token'[t].from = token[t].from
  PROVE  ChainStep
<1>1. \A s \in Sessions : Accepted(s)' = Accepted(s)
  BY AcceptedKept, AcceptedIsOwn DEF TokensOf
<1> QED
  BY <1>1, ChainsStay DEF SameChains

LEMMA OpenChain ==
  ASSUME SessionsInv, NEW s \in Sessions, NEW t \in Tokens, NEW u \in Users, CreateSession(s, t, u)
  PROVE  ChainStep
<1> USE RowsAssumption
<1>1. /\ session[s].status = "none" /\ token[t].status = "none"
      /\ session'[s].status = "active" /\ session'[s].token = t
      /\ \A x \in Sessions \ {s} : session'[x] = session[x]
  BY DEF CreateSession, SessionsInv, TypeOK
<1>2. /\ token'[t].status = "active" /\ token'[t].from = None
      /\ \A y \in Tokens \ {t} : token'[y] = token[y]
  BY DEF CreateSession, SessionsInv, TypeOK
<1>3. token[t].from = None
  BY <1>1 DEF SessionsInv, RowsInv, TokensBelong
<1>4. ASSUME NEW x \in Sessions \ {s}
      PROVE  Accepted(x)' = Accepted(x)
  <2>1. session[x].status = "active" => token[session[x].token].status # "none" /\ session[x].token \in Tokens
    BY DEF SessionsInv, RowsInv, OneAcceptedToken, TokensOf
  <2> QED
    BY <1>1, <1>2, <2>1, AcceptedKept
<1>5. Accepted(s)' = t
  BY <1>1, <1>2 DEF Accepted
<1>6. Chain!Open(s, t)
  <2>1. [x \in Sessions |-> session[x].status]' =
          [[x \in Sessions |-> session[x].status] EXCEPT ![s] = "active"]
    BY <1>1
  <2>2. [x \in Sessions |-> Accepted(x)]' = [[x \in Sessions |-> Accepted(x)] EXCEPT ![s] = t]
    BY <1>4, <1>5
  <2>3. {y \in Tokens : token[y].status # "none"}' = {y \in Tokens : token[y].status # "none"} \cup {t}
    BY <1>2
  <2>4. [y \in Tokens |-> token[y].from]' = [y \in Tokens |-> token[y].from]
    BY <1>2, <1>3
  <2> QED
    BY <1>1, <2>1, <2>2, <2>3, <2>4 DEF Chain!Open, Chain!Give
<1> QED
  BY <1>6 DEF ChainStep, Chain!ChainNext

\* A refusal of an expired token takes the token out of use.
LEMMA LapseChain ==
  ASSUME SessionsInv, NEW r \in Requests, ExpireToken(r)
  PROVE  ChainStep
<1> USE RowsAssumption
<1>0. PICK t, s : t = request[r].tok /\ s = SessionOf(r)
  OBVIOUS
<1>1. ExpiryRows(t, s)
  BY <1>0, ExpireTokenWrites
<1>2. t \in Tokens /\ s \in Sessions /\ t # None
  BY <1>1 DEF ExpiryRows, SessionsInv, RowsInv, TokensBelong
<1>3. Accepted(s) = t
  BY <1>1, <1>2 DEF ExpiryRows, Accepted
<1>4. Accepted(s)' = None
  BY <1>1 DEF ExpiryRows, Accepted
<1>5. ASSUME NEW x \in Sessions \ {s}
      PROVE  Accepted(x)' = Accepted(x)
  <2>1. session[x].status = "active" => session[x].token \in Tokens /\ session[x].token # t
    BY <1>1, AcceptedIsOwn DEF ExpiryRows, TokensOf
  <2> QED
    BY <1>1, <2>1, AcceptedKept DEF ExpiryRows
<1>6. Chain!Lapse(s)
  <2>1. [x \in Sessions |-> session[x].status]' = [x \in Sessions |-> session[x].status]
    BY <1>1 DEF ExpiryRows
  <2>2. [x \in Sessions |-> Accepted(x)]' = [[x \in Sessions |-> Accepted(x)] EXCEPT ![s] = None]
    BY <1>4, <1>5
  <2>3. {y \in Tokens : token[y].status # "none"}' = {y \in Tokens : token[y].status # "none"}
    BY <1>1 DEF ExpiryRows
  <2>4. [y \in Tokens |-> token[y].from]' = [y \in Tokens |-> token[y].from]
    BY <1>1 DEF ExpiryRows
  <2>5. [x \in Sessions |-> Accepted(x)][s] # None
    BY <1>2, <1>3
  <2> QED
    BY <2>1, <2>2, <2>3, <2>4, <2>5 DEF Chain!Lapse
<1> QED
  BY <1>2, <1>6 DEF ChainStep, Chain!ChainNext

\* A rotation exchanges the token that the session accepted for a fresh one.
LEMMA ExchangeChain ==
  ASSUME SessionsInv, NEW r \in Requests, NEW new \in Tokens, RotateAccessToken(r, new)
  PROVE  ChainStep
<1> USE RowsAssumption
<1>0. PICK t, s : t = request[r].tok /\ s = SessionOf(r)
  OBVIOUS
<1>1. RotationRows(t, s, new)
  BY <1>0, RotationWrites
<1>2. t \in Tokens /\ s \in Sessions /\ t # None
  BY <1>1 DEF RotationRows
<1>3. Accepted(s) = t
  BY <1>1 DEF RotationRows, Accepted
<1>4. Accepted(s)' = new
  BY <1>1 DEF RotationRows, Accepted
<1>5. ASSUME NEW x \in Sessions \ {s}
      PROVE  Accepted(x)' = Accepted(x)
  <2>1. session[x].status = "active" => session[x].token \in Tokens \ {t, new}
    BY <1>1, AcceptedIsOwn DEF RotationRows, TokensOf, SessionsInv, RowsInv, TokensBelong
  <2> QED
    BY <1>1, <2>1, AcceptedKept DEF RotationRows
<1>6. Chain!Exchange(s, new)
  <2>1. [x \in Sessions |-> session[x].status]' = [x \in Sessions |-> session[x].status]
    BY <1>1 DEF RotationRows
  <2>2. [x \in Sessions |-> Accepted(x)]' = [[x \in Sessions |-> Accepted(x)] EXCEPT ![s] = new]
    BY <1>4, <1>5
  <2>3. {y \in Tokens : token[y].status # "none"}' = {y \in Tokens : token[y].status # "none"} \cup {new}
    BY <1>1 DEF RotationRows
  <2>4. [y \in Tokens |-> token[y].from]' = [[y \in Tokens |-> token[y].from] EXCEPT ![new] = t]
    BY <1>1 DEF RotationRows
  <2>5. [x \in Sessions |-> Accepted(x)][s] = t
    BY <1>2, <1>3
  <2>6. new \notin {y \in Tokens : token[y].status # "none"}
    BY <1>1 DEF RotationRows
  <2> QED
    BY <1>2, <2>1, <2>2, <2>3, <2>4, <2>5, <2>6 DEF Chain!Exchange, Chain!Give
<1> QED
  BY <1>2, <1>6 DEF ChainStep, Chain!ChainNext

\* A revocation ends those of its sessions that had not ended before.
LEMMA CloseChain ==
  ASSUME SessionsInv, NEW S \in SUBSET Sessions, RevocationRows(S)
  PROVE  ChainStep
<1>1. PICK A \in SUBSET Sessions : A = {s \in S : session[s].status = "active"}
  OBVIOUS
<1>2. \A s \in Sessions : session'[s].status = IF s \in A THEN "revoked" ELSE session[s].status
  BY <1>1 DEF RevocationRows, RevokeRows, SessionsInv, TypeOK, SessionRows
<1>3. \A s \in Sessions : session'[s].token = session[s].token
  BY DEF RevocationRows, RevokeRows, SessionsInv, TypeOK, SessionRows
<1>4. ASSUME NEW s \in Sessions
      PROVE  Accepted(s)' = IF s \in A THEN None ELSE Accepted(s)
  <2>1. CASE s \in A
    BY <1>2, <2>1 DEF Accepted
  <2>2. CASE s \notin A /\ session[s].status # "active"
    BY <1>2, <2>2 DEF Accepted
  <2>3. CASE s \notin A /\ session[s].status = "active"
    <3>1. s \notin S /\ session[s].token \in TokensOf(s)
      BY <1>1, <2>3, AcceptedIsOwn
    <3>2. token'[session[s].token].status = token[session[s].token].status
      BY <3>1 DEF RevocationRows, TokensOf
    <3> QED
      BY <1>2, <1>3, <2>3, <3>2, AcceptedKept
  <2> QED
    BY <2>1, <2>2, <2>3
<1>5. \A t \in Tokens : /\ token'[t].status = "none" <=> token[t].status = "none"
                        /\ token'[t].from = token[t].from
  BY DEF RevocationRows
<1>6. CASE A = {}
  BY <1>2, <1>4, <1>5, <1>6, ChainsStay DEF SameChains
<1>7. CASE A # {}
  <2>1. [s \in Sessions |-> session[s].status]' =
          [s \in Sessions |-> IF s \in A THEN "revoked" ELSE [x \in Sessions |-> session[x].status][s]]
    BY <1>2
  <2>2. [s \in Sessions |-> Accepted(s)]' =
          [s \in Sessions |-> IF s \in A THEN None ELSE [x \in Sessions |-> Accepted(x)][s]]
    BY <1>4
  <2>3. {y \in Tokens : token[y].status # "none"}' = {y \in Tokens : token[y].status # "none"}
    BY <1>5
  <2>4. [y \in Tokens |-> token[y].from]' = [y \in Tokens |-> token[y].from]
    BY <1>5
  <2>5. \A s \in A : [x \in Sessions |-> session[x].status][s] = "active"
    BY <1>1
  <2>6. Chain!Close(A)
    BY <1>7, <2>1, <2>2, <2>3, <2>4, <2>5 DEF Chain!Close
  <2> QED
    BY <2>6 DEF ChainStep, Chain!ChainNext
<1> QED
  BY <1>6, <1>7

\* No session has begun, and no token is out.
LEMMA ChainsBegin == SessionsInit => Chain!ChainInit
<1> SUFFICES ASSUME SessionsInit
             PROVE  Chain!ChainInit
  OBVIOUS
<1>1. \A s \in Sessions : session[s].status = "none" /\ Accepted(s) = None
  BY DEF SessionsInit, Accepted
<1>2. \A t \in Tokens : token[t].status = "none" /\ token[t].from = None
  BY DEF SessionsInit
<1> QED
  BY <1>1, <1>2 DEF Chain!ChainInit

\* Every step of the rows is one of the promise, or none.
LEMMA ChainsAdvance == SessionsInv /\ [SessionsNext]_sessionVars => ChainStep
<1> SUFFICES ASSUME SessionsInv, [SessionsNext]_sessionVars
             PROVE  ChainStep
  OBVIOUS
<1>1. CASE UNCHANGED <<session, token>>
  BY <1>1, LatenessStays
<1>2. ASSUME NEW s \in Sessions, NEW t \in NewToken, NEW u \in Users, CreateSession(s, t, u)
      PROVE  ChainStep
  BY <1>2, OpenChain DEF NewToken, Unused
<1>3. CASE (\E t \in Tokens : AccessExpires(t)) \/ (\E s \in Sessions : SessionExpires(s))
  <2>1. LatenessRows
    BY <1>3, ExpiryWrites
  <2> QED
    BY <2>1, LatenessStays DEF LatenessRows
<1>4. ASSUME NEW r \in Requests, Step(r)
      PROVE  ChainStep
  <2>1. CASE ExpireToken(r)
    BY <2>1, LapseChain
  <2>2. ASSUME NEW new \in NewToken, RotateAccessToken(r, new)
        PROVE  ChainStep
    BY <2>2, ExchangeChain DEF NewToken, Unused
  <2>3. CASE MarkTokenReuse(r)
    <3>1. PICK t, s, T : t = request[r].tok /\ s = SessionOf(r) /\ T = request[r].rows
      OBVIOUS
    <3>2. RevocationRows({s}) /\ s \in Sessions
      BY <2>3, <3>1, MarkTokenReuseWrites
    <3>3. {s} \in SUBSET Sessions
      BY <3>2
    <3> QED
      BY <3>2, <3>3, CloseChain
  <2>4. CASE RevokeUserSessions(r)
    <3>1. PICK S, T : S = request[r].holds \cap Sessions /\ T = request[r].rows
      OBVIOUS
    <3>2. RevocationRows(S) /\ S \in SUBSET Sessions
      BY <2>4, <3>1, RevokeUserSessionsWrites
    <3> QED
      BY <3>2, CloseChain
  <2> QED
    BY <1>1, <1>4, <2>1, <2>2, <2>3, <2>4 DEF Step, LockToken, SessionMovedOn, RefreshRollsBack,
       RevokeSiblings, RevokeLocksSessions, DeadlockAborts
<1> QED
  BY <1>1, <1>2, <1>3, <1>4 DEF SessionsNext, sessionVars, Refresh, Logout, ResetUser

\* Whatever refreshes, logouts and resets run at once, and however their locks
\* are granted, the rows are what SessionTokens promises: a session is a chain
\* of tokens that are used once each, and ends for good
\* (auth/repository.go:RotateAccessTokenTx, RevokeUserSessionsTx).
THEOREM ChainsAreKept == Spec => KeepsChains
<1>1. SessionsInv /\ [SessionsNext]_sessionVars => [Chain!ChainNext]_(Chain!chainVars)
  BY ChainsAdvance DEF ChainStep
<1> QED
  BY <1>1, ChainsBegin, SessionsInvariant, PTL DEF Spec, KeepsChains, Chain!ChainSpec

-----------------------------------------------------------------------------
\* What the promise is worth: SessionTokens for itself, over variables of its
\* own.
VARIABLES lives, accepted, handed, origin
Promise == INSTANCE SessionTokens WITH
  life <- lives, live <- accepted, given <- handed, from <- origin

ChainInv == Promise!ChainTypeOK /\ Promise!SingleUse

LEMMA PromiseBegins == Promise!ChainInit => ChainInv
BY RowsAssumption DEF ChainInv, Promise!ChainInit, Promise!ChainTypeOK, Promise!SingleUse

LEMMA PromiseKept == ChainInv /\ [Promise!ChainNext]_(Promise!chainVars) => ChainInv'
<1> SUFFICES ASSUME ChainInv, [Promise!ChainNext]_(Promise!chainVars)
             PROVE  ChainInv'
  OBVIOUS
<1> USE RowsAssumption DEF ChainInv
<1>1. ASSUME NEW s \in Sessions, NEW t \in Tokens, Promise!Open(s, t)
      PROVE  ChainInv'
  <2>1. Promise!ChainTypeOK'
    BY <1>1 DEF Promise!Open, Promise!Give, Promise!ChainTypeOK
  <2>2. Promise!SingleUse'
    BY <1>1 DEF Promise!Open, Promise!Give, Promise!ChainTypeOK, Promise!SingleUse
  <2> QED
    BY <2>1, <2>2
<1>2. ASSUME NEW s \in Sessions, NEW t \in Tokens, Promise!Exchange(s, t)
      PROVE  ChainInv'
  <2>1. accepted[s] # None /\ accepted[s] \in handed /\ t \notin handed
    BY <1>2 DEF Promise!Exchange, Promise!Give, Promise!SingleUse
  <2>2. /\ lives' = lives /\ handed' = handed \cup {t}
        /\ accepted' \in [Sessions -> Tokens \cup {None}]
        /\ accepted'[s] = t /\ \A x \in Sessions \ {s} : accepted'[x] = accepted[x]
        /\ origin' \in [Tokens -> handed' \cup {None}]
        /\ origin'[t] = accepted[s] /\ \A u \in Tokens \ {t} : origin'[u] = origin[u]
    BY <1>2, <2>1 DEF Promise!Exchange, Promise!Give, Promise!ChainTypeOK
  <2>3. Promise!ChainTypeOK'
    BY <2>2 DEF Promise!ChainTypeOK
  <2>4. \A u \in Tokens : origin[u] # accepted[s] /\ origin[u] # t
    BY <2>1 DEF Promise!ChainTypeOK, Promise!SingleUse
  <2>5. ASSUME NEW x \in Sessions, accepted'[x] # None
        PROVE  /\ lives'[x] = "active" /\ accepted'[x] \in handed'
               /\ \A y \in Sessions \ {x} : accepted'[y] # accepted'[x]
               /\ \A u \in Tokens : origin'[u] # accepted'[x]
    <3>1. CASE x = s
      BY <2>1, <2>2, <2>4, <3>1 DEF Promise!SingleUse
    <3>2. CASE x # s
      BY <2>1, <2>2, <2>4, <2>5, <3>2 DEF Promise!SingleUse
    <3> QED
      BY <3>1, <3>2
  <2>6. \A u \in Tokens, w \in Tokens : u # w /\ origin'[u] # None => origin'[u] # origin'[w]
    BY <2>2, <2>4 DEF Promise!SingleUse
  <2> QED
    BY <2>3, <2>5, <2>6 DEF Promise!SingleUse
<1>3. ASSUME NEW s \in Sessions, Promise!Lapse(s)
      PROVE  ChainInv'
  <2>1. Promise!ChainTypeOK'
    BY <1>3 DEF Promise!Lapse, Promise!ChainTypeOK
  <2>2. Promise!SingleUse'
    BY <1>3 DEF Promise!Lapse, Promise!ChainTypeOK, Promise!SingleUse
  <2> QED
    BY <2>1, <2>2
<1>4. ASSUME NEW S \in SUBSET Sessions, Promise!Close(S)
      PROVE  ChainInv'
  <2>1. Promise!ChainTypeOK'
    BY <1>4 DEF Promise!Close, Promise!ChainTypeOK
  <2>2. Promise!SingleUse'
    BY <1>4 DEF Promise!Close, Promise!ChainTypeOK, Promise!SingleUse
  <2> QED
    BY <2>1, <2>2
<1>5. CASE UNCHANGED Promise!chainVars
  BY <1>5 DEF Promise!chainVars, Promise!ChainTypeOK, Promise!SingleUse
<1> QED
  BY <1>1, <1>2, <1>3, <1>4, <1>5 DEF Promise!ChainNext

\* The promise is enough: only a session that is active accepts a token, no
\* token is accepted by two or after it was exchanged, and none is exchanged
\* for two, however many sessions and tokens there are.
THEOREM PromisedTokensAreUsedOnce == Promise!ChainSpec => []Promise!SingleUse
<1>1. ChainInv => Promise!SingleUse
  BY DEF ChainInv
<1> QED
  BY <1>1, PromiseBegins, PromiseKept, PTL DEF Promise!ChainSpec
=============================================================================
