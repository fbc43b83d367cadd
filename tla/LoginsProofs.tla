---------------------------- MODULE LoginsProofs ----------------------------
(***************************************************************************)
(* Proofs about Logins, for any number of accounts, rows and requests that *)
(* are handled at the same time.                                           *)
(***************************************************************************)
EXTENDS Logins, TLAPS

\* Rows that count belong to an account; a setup has its secret.
Owned ==
  /\ \A s \in Sessions : session[s].status = "active" => session[s].user \in Users
  /\ \A x \in Setups : setup[x].status = "active" => setup[x].user \in Users /\ setup[x].secret \in Secrets
  /\ \A h \in Handoffs : handoff[h].status = "active" => handoff[h].user \in Users
  /\ \A l \in Links : link[l].status = "active" => link[l].user \in Users

\* Rows that count were made after the last reset of their account.
Current ==
  /\ \A s \in Sessions : session[s].status = "active" => session[s].resets = account[session[s].user].resets
  /\ \A x \in Setups : setup[x].status = "active" => setup[x].resets = account[setup[x].user].resets
  /\ \A h \in Handoffs : handoff[h].status = "active" => handoff[h].resets = account[handoff[h].user].resets

\* What a session was paid with is spent, and was spent on it.
Spent ==
  /\ \A s \in Sessions : session[s].via \in Setups => setup[session[s].via].status = "consumed"
  /\ \A s \in Sessions : session[s].via \in Handoffs => handoff[session[s].via].status = "consumed"
  /\ SpentOnce

\* A request goes on with the row and the account it read.
Begun(x) ==
  /\ x.op \in {"authenticated", "reset", "setup", "callback", "exchange"} => x.user \in Users
  /\ x.op \in {"authenticated", "callback"} => x.seen \in AccountRows
  /\ x.op = "authenticated" => x.row \in Sessions
  /\ x.op = "reset" <=> x.row \in Links
  /\ x.op = "setup" => x.row \in Setups
  /\ x.op = "callback" => x.row \in States
  /\ x.op = "exchange" => x.row \in Handoffs

RowsInv ==
  /\ account \in [Users -> AccountRows] /\ session \in [Sessions -> SessionRows]
  /\ setup \in [Setups -> SetupRows] /\ handoff \in [Handoffs -> HandoffRows]
  /\ link \in [Links -> LinkRows]
  /\ Owned
  /\ Current
  /\ Spent

RequestsInv ==
  /\ required \in BOOLEAN /\ state \in [States -> Statuses]
  /\ call \in [Calls -> CallRows]
  /\ \A c \in Calls : Begun(call[c])

AccessInv == RowsInv /\ RequestsInv

-----------------------------------------------------------------------------
\* The rows of the three tables are the rows of the property.
LEMMA CurrentSuffices == Current => ResetEndsAccess
BY DEF Current, ResetEndsAccess

\* The fields of an account change one by one.
LEMMA AccountFields ==
  ASSUME NEW a \in AccountRows
  PROVE  /\ [a EXCEPT !.linked = TRUE] \in AccountRows
         /\ [a EXCEPT !.linked = TRUE].resets = a.resets
         /\ \A b \in BOOLEAN : [a EXCEPT !.active = b] \in AccountRows /\ [a EXCEPT !.active = b].resets = a.resets
         /\ WithoutFactor(a) \in AccountRows /\ WithoutFactor(a).resets = a.resets
         /\ a.resets < MaxResets => [a EXCEPT !.resets = a.resets + 1] \in AccountRows
         /\ \A k \in Secrets : [a EXCEPT !.pending = k] \in AccountRows /\ [a EXCEPT !.pending = k].resets = a.resets
<1>1. a.resets < MaxResets => a.resets + 1 \in 0 .. MaxResets
  BY LoginsAssumption DEF AccountRows
<1>2. [a EXCEPT !.linked = TRUE] \in AccountRows /\ [a EXCEPT !.linked = TRUE].resets = a.resets
  BY DEF AccountRows
<1>3. ASSUME NEW b \in BOOLEAN
      PROVE  [a EXCEPT !.active = b] \in AccountRows /\ [a EXCEPT !.active = b].resets = a.resets
  BY DEF AccountRows
<1>4. WithoutFactor(a) \in AccountRows /\ WithoutFactor(a).resets = a.resets
  BY DEF AccountRows, WithoutFactor
<1>5. a.resets < MaxResets => [a EXCEPT !.resets = a.resets + 1] \in AccountRows
  BY <1>1 DEF AccountRows
<1>6. ASSUME NEW k \in Secrets
      PROVE  [a EXCEPT !.pending = k] \in AccountRows /\ [a EXCEPT !.pending = k].resets = a.resets
  BY DEF AccountRows
<1> QED
  BY <1>2, <1>3, <1>4, <1>5, <1>6

\* The row of one account is written.
LEMMA AccountChanged ==
  ASSUME account \in [Users -> AccountRows], NEW u \in Users, NEW row \in AccountRows,
         account' = [account EXCEPT ![u] = row]
  PROVE  /\ account' \in [Users -> AccountRows]
         /\ account'[u] = row /\ \A v \in Users \ {u} : account'[v] = account[v]
OBVIOUS

\* Nobody has anything at first.
LEMMA InitHolds == Init => AccessInv
<1> SUFFICES ASSUME Init
             PROVE  AccessInv
  OBVIOUS
<1> USE LoginsAssumption DEF Init
<1>1. account \in [Users -> AccountRows] /\ session \in [Sessions -> SessionRows]
  BY DEF NewAccount, AccountRows, SessionRows
<1>2. /\ setup \in [Setups -> SetupRows] /\ handoff \in [Handoffs -> HandoffRows]
      /\ link \in [Links -> LinkRows] /\ state \in [States -> Statuses]
  BY DEF SetupRows, HandoffRows, LinkRows, Statuses
<1>3. call \in [Calls -> CallRows] /\ \A c \in Calls : Begun(call[c])
  BY DEF IdleCall, CallRows, Begun
<1>4. Owned /\ Current /\ Spent
  BY DEF Owned, Current, Spent, SpentOnce
<1>5. required \in BOOLEAN
  OBVIOUS
<1> QED
  BY <1>1, <1>2, <1>3, <1>4, <1>5 DEF AccessInv, RowsInv, RequestsInv

-----------------------------------------------------------------------------
\* How the tables change.

\* Rows stay as they are, or stop to count.
Gone == Statuses \ {"none", "active"}
Settles(old, new, ends) ==
  \/ new = old
  \/ old.status = "active" /\ new.status \in ends /\ new = [old EXCEPT !.status = new.status]

LEMMA SupersededSettles ==
  ASSUME NEW S, NEW rows, DOMAIN rows = S, NEW u
  PROVE  /\ DOMAIN Superseded(rows, u) = S
         /\ \A x \in S : Settles(rows[x], Superseded(rows, u)[x], Gone)
         /\ \A x \in S : rows[x].user = u => Superseded(rows, u)[x].status # "active"
BY DEF Superseded, Settles, Gone, Statuses

\* Rows that stop to count break nothing, as long as no account is reset.
LEMMA RowsSettle ==
  ASSUME RowsInv,
         account' \in [Users -> AccountRows],
         \A u \in Users : account'[u].resets = account[u].resets,
         DOMAIN session' = Sessions, DOMAIN setup' = Setups, DOMAIN handoff' = Handoffs, DOMAIN link' = Links,
         session' = [s \in Sessions |-> session'[s]], setup' = [x \in Setups |-> setup'[x]],
         handoff' = [h \in Handoffs |-> handoff'[h]], link' = [l \in Links |-> link'[l]],
         \A s \in Sessions : Settles(session[s], session'[s], {"revoked"}),
         \A x \in Setups : Settles(setup[x], setup'[x], Gone),
         \A h \in Handoffs : Settles(handoff[h], handoff'[h], Gone),
         \A l \in Links : Settles(link[l], link'[l], Gone)
  PROVE  RowsInv'
<1> USE DEF RowsInv
<1>1. \A s \in Sessions : session'[s] \in SessionRows
  BY DEF Settles, SessionRows
<1>2. ASSUME NEW x \in Setups
      PROVE  setup'[x] \in SetupRows
  <2>1. setup[x] \in SetupRows /\ Settles(setup[x], setup'[x], Gone)
    OBVIOUS
  <2> QED
    BY <2>1 DEF Settles, SetupRows, Gone
<1>3. \A h \in Handoffs : handoff'[h] \in HandoffRows
  BY DEF Settles, HandoffRows, Gone
<1>4. \A l \in Links : link'[l] \in LinkRows
  BY DEF Settles, LinkRows, Gone
<1>5. Owned'
  BY DEF Owned, Settles, Gone, SessionRows, SetupRows, HandoffRows, LinkRows
<1>6. Current'
  BY DEF Owned, Current, Settles, Gone, SessionRows, SetupRows, HandoffRows
<1>7. \A s \in Sessions : session'[s].via = session[s].via
  BY DEF Settles, SessionRows
<1>8. /\ \A x \in Setups : setup[x].status = "consumed" => setup'[x] = setup[x]
      /\ \A h \in Handoffs : handoff[h].status = "consumed" => handoff'[h] = handoff[h]
  BY DEF Settles
<1>9. Spent'
  BY <1>7, <1>8 DEF Spent, SpentOnce
<1> QED
  BY <1>1, <1>2, <1>3, <1>4, <1>5, <1>6, <1>9

-----------------------------------------------------------------------------
\* Requests begin with what they read, and end.

LEMMA IdleBegun == IdleCall \in CallRows /\ Begun(IdleCall)
BY LoginsAssumption DEF IdleCall, CallRows, Begun

\* A request that ends leaves an idle one.
LEMMA RequestEnds ==
  ASSUME RequestsInv, NEW c \in Calls, Ends(c), UNCHANGED required, state' \in [States -> Statuses]
  PROVE  RequestsInv'
<1>1. call' \in [Calls -> CallRows] /\ \A d \in Calls : Begun(call'[d])
  BY IdleBegun DEF Ends, RequestsInv
<1> QED
  BY <1>1 DEF RequestsInv

\* A request that starts has an account and a row of the right table.
LEMMA RequestStarts ==
  ASSUME AccessInv, NEW c \in Calls,
         NEW op \in {"authenticated", "reset", "setup", "callback", "exchange"}, NEW u \in Users,
         NEW row, Starts(c, op, u, row),
         CASE op = "authenticated" -> row \in Sessions
           [] op = "reset" -> row \in Links
           [] op = "setup" -> row \in Setups
           [] op = "callback" -> row \in States
           [] op = "exchange" -> row \in Handoffs,
         UNCHANGED <<required, account, session, setup, state, handoff, link>>
  PROVE  AccessInv'
<1> USE DEF AccessInv
<1>1. PICK x : x = [op |-> op, user |-> u, row |-> row, seen |-> account[u]]
  OBVIOUS
<1>2. account[u] \in AccountRows /\ u # None
  BY LoginsAssumption DEF RowsInv
<1>3. x \in CallRows /\ Begun(x)
  BY <1>1, <1>2, LoginsAssumption DEF CallRows, Begun
<1>4. call' = [call EXCEPT ![c] = x]
  BY <1>1, <1>2 DEF Starts
<1>5. RequestsInv'
  BY <1>3, <1>4 DEF RequestsInv
<1>6. RowsInv'
  BY DEF RowsInv, Owned, Current, Spent, SpentOnce
<1> QED
  BY <1>5, <1>6

-----------------------------------------------------------------------------
\* A session is made of something that was not spent before it.
LEMMA SessionCreated ==
  ASSUME RowsInv, NEW s \in Sessions, NEW u \in Users, NEW via, CreateSession(s, u, via),
         account' \in [Users -> AccountRows],
         \A v \in Users : account'[v].resets = account[v].resets,
         UNCHANGED link,
         \/ via = "password" /\ UNCHANGED <<setup, handoff>>
         \/ via \in Setups /\ ConsumePassword2FASetup(via) /\ UNCHANGED handoff
         \/ via \in Handoffs /\ ConsumeOIDCHandoff(via) /\ UNCHANGED setup
  PROVE  RowsInv'
<1> USE DEF RowsInv
<1>1. PICK row : row = [status |-> "active", user |-> u, via |-> via, resets |-> account[u].resets]
  OBVIOUS
<1>2. row \in SessionRows
  BY <1>1 DEF SessionRows, AccountRows
<1>3. /\ session' \in [Sessions -> SessionRows]
      /\ session'[s] = row /\ \A t \in Sessions \ {s} : session'[t] = session[t]
  BY <1>1, <1>2 DEF CreateSession
<1>4. /\ setup' \in [Setups -> SetupRows]
      /\ \A x \in Setups : setup'[x] = setup[x] \/
             (x = via /\ setup[x].status = "active" /\ setup'[x].status = "consumed")
  BY DEF ConsumePassword2FASetup, SetupRows, Statuses
<1>5. /\ handoff' \in [Handoffs -> HandoffRows]
      /\ \A h \in Handoffs : handoff'[h] = handoff[h] \/
             (h = via /\ handoff[h].status = "active" /\ handoff'[h].status = "consumed")
  BY DEF ConsumeOIDCHandoff, HandoffRows, Statuses
<1>6. Owned'
  BY <1>1, <1>3, <1>4, <1>5 DEF Owned
<1>7. Current'
  BY <1>1, <1>3, <1>4, <1>5 DEF Current, Owned
<1>8. /\ via \in Setups => setup[via].status = "active" /\ setup'[via].status = "consumed"
      /\ via \in Handoffs => handoff[via].status = "active" /\ handoff'[via].status = "consumed"
      /\ via \in Setups \cup Handoffs \/ via = "password"
  <2>1. "password" \notin Setups /\ "password" \notin Handoffs /\ \A x \in Setups : x \notin Handoffs
    BY LoginsAssumption
  <2>2. CASE via = "password"
    BY <2>1, <2>2
  <2>3. CASE via \in Setups /\ ConsumePassword2FASetup(via)
    BY <2>1, <2>3 DEF ConsumePassword2FASetup, SetupRows
  <2>4. CASE via \in Handoffs /\ ConsumeOIDCHandoff(via)
    BY <2>1, <2>4 DEF ConsumeOIDCHandoff, HandoffRows
  <2> QED
    BY <2>2, <2>3, <2>4
<1>9. \A t \in Sessions \ {s} : session[t].via = via => via = "password"
  BY <1>8 DEF Spent
<1>10. SpentOnce'
  BY <1>1, <1>3, <1>9 DEF Spent, SpentOnce
<1>11. ASSUME NEW t \in Sessions
       PROVE  /\ session'[t].via \in Setups => setup'[session'[t].via].status = "consumed"
              /\ session'[t].via \in Handoffs => handoff'[session'[t].via].status = "consumed"
  <2>1. CASE t = s
    BY <1>1, <1>3, <1>8, <2>1
  <2>2. CASE t # s
    BY <1>3, <1>4, <1>5, <2>2 DEF Spent
  <2> QED
    BY <2>1, <2>2
<1> QED
  BY <1>3, <1>4, <1>5, <1>6, <1>7, <1>10, <1>11 DEF Spent

\* The password alone opens a session.
LEMMA LoginStep ==
  ASSUME AccessInv, NEW u \in Users, NEW s \in Sessions, PasswordLogin(u, s)
  PROVE  AccessInv'
<1>1. RowsInv'
  BY SessionCreated DEF PasswordLogin, AccessInv, RowsInv
<1>2. RequestsInv'
  BY DEF PasswordLogin, AccessInv, RequestsInv
<1> QED
  BY <1>1, <1>2 DEF AccessInv

\* The factor that the setup showed becomes the account's.
LEMMA ConfirmSetupStep ==
  ASSUME AccessInv, NEW c \in Calls, NEW s \in Sessions, ConfirmPassword2FALoginSetup(c, s)
  PROVE  AccessInv'
<1> USE DEF AccessInv
<1>1. PICK x \in Setups : x = call[c].row
  BY DEF ConfirmPassword2FALoginSetup, RequestsInv, Begun
<1>2. setup[x].status = "active" /\ setup[x].user \in Users /\ setup[x].secret \in Secrets
  BY <1>1 DEF ConfirmPassword2FALoginSetup, ConsumePassword2FASetup, RowsInv, Owned
<1>3. PICK u \in Users : u = setup[x].user
  BY <1>2
<1>4. account' = [account EXCEPT ![u] = [@ EXCEPT !.secret = setup[x].secret, !.pending = None, !.enabled = TRUE]]
  BY <1>1, <1>3 DEF ConfirmPassword2FALoginSetup, RowsInv
<1>5. account' \in [Users -> AccountRows] /\ \A v \in Users : account'[v].resets = account[v].resets
  BY <1>2, <1>4 DEF RowsInv, AccountRows
<1>6. RowsInv'
  BY <1>1, <1>3, <1>5, SessionCreated DEF ConfirmPassword2FALoginSetup
<1>7. RequestsInv'
  BY RequestEnds DEF ConfirmPassword2FALoginSetup, RequestsInv
<1> QED
  BY <1>6, <1>7

\* A handoff is exchanged for a session.
LEMMA ExchangeStep ==
  ASSUME AccessInv, NEW c \in Calls, NEW s \in Sessions, ExchangeOIDCHandoff(c, s)
  PROVE  AccessInv'
<1> USE DEF AccessInv
<1>1. call[c].row \in Handoffs /\ call[c].user \in Users
  BY DEF ExchangeOIDCHandoff, RequestsInv, Begun
<1>2. RowsInv'
  BY <1>1, SessionCreated DEF ExchangeOIDCHandoff, RowsInv
<1>3. RequestsInv'
  BY RequestEnds DEF ExchangeOIDCHandoff, RequestsInv
<1> QED
  BY <1>2, <1>3

-----------------------------------------------------------------------------
\* Half-done logins are made for the account as it is.
LEMMA StartSetupStep ==
  ASSUME AccessInv, NEW u \in Users, NEW x \in Setups, NEW k \in Secrets, StartLoginSetup(u, x, k)
  PROVE  AccessInv'
<1> USE DEF AccessInv, RowsInv
<1>1. PICK row : row = [status |-> "active", user |-> u, secret |-> k, resets |-> account[u].resets]
  OBVIOUS
<1>2. row \in SetupRows
  BY <1>1 DEF SetupRows, Statuses, AccountRows
<1>3. PICK rows : rows = Superseded(setup, u)
  OBVIOUS
<1>4. DOMAIN rows = Setups /\ \A y \in Setups : Settles(setup[y], rows[y], Gone)
  BY <1>3, SupersededSettles
<1>5. /\ DOMAIN setup' = Setups /\ setup' = [y \in Setups |-> setup'[y]]
      /\ setup'[x] = row /\ \A y \in Setups \ {x} : setup'[y] = rows[y]
      /\ setup[x].status = "none"
  BY <1>1, <1>3, <1>4 DEF StartLoginSetup, CreatePassword2FASetup
<1>6. UNCHANGED <<required, account, session, state, handoff, link, call>>
  BY DEF StartLoginSetup
<1>7. ASSUME NEW y \in Setups
      PROVE  /\ setup'[y] \in SetupRows
             /\ setup'[y].status = "active" => /\ setup'[y].user \in Users /\ setup'[y].secret \in Secrets
                                               /\ setup'[y].resets = account[setup'[y].user].resets
             /\ setup[y].status = "consumed" => setup'[y].status = "consumed"
  <2>1. CASE y = x
    BY <1>1, <1>2, <1>5, <2>1
  <2>2. CASE y # x
    <3>1. setup'[y] = rows[y] /\ Settles(setup[y], rows[y], Gone) /\ setup[y] \in SetupRows
      BY <1>4, <1>5, <2>2
    <3>2. setup'[y] \in SetupRows
      BY <3>1 DEF Settles, SetupRows, Gone
    <3> QED
      BY <3>1, <3>2 DEF Settles, Gone, Owned, Current
  <2> QED
    BY <2>1, <2>2
<1>8. Owned' /\ Current'
  BY <1>6, <1>7 DEF Owned, Current
<1>9. Spent'
  BY <1>6, <1>7 DEF Spent, SpentOnce
<1> QED
  BY <1>5, <1>6, <1>7, <1>8, <1>9 DEF RequestsInv

\* The callback makes a handoff for the account it found.
LEMMA CallbackStep ==
  ASSUME AccessInv, NEW c \in Calls, NEW h \in Handoffs, CompleteOIDCCallback(c, h)
  PROVE  AccessInv'
<1> USE DEF AccessInv, RowsInv
<1>1. PICK u \in Users : u = call[c].user
  BY DEF CompleteOIDCCallback, RequestsInv, Begun
<1>2. /\ account' \in [Users -> AccountRows]
      /\ \A v \in Users : account'[v].resets = account[v].resets
  <2>1. account[u] \in AccountRows
    OBVIOUS
  <2>2. account' = account \/ account' = [account EXCEPT ![u] = [account[u] EXCEPT !.linked = TRUE]]
    BY <1>1 DEF CompleteOIDCCallback, ResolveOIDCUser
  <2> QED
    BY <2>1, <2>2, AccountFields, AccountChanged
<1>3. PICK row : row = [status |-> "active", user |-> u, resets |-> account[u].resets]
  OBVIOUS
<1>4. row \in HandoffRows
  BY <1>3 DEF HandoffRows, Statuses, AccountRows
<1>5. /\ handoff' \in [Handoffs -> HandoffRows]
      /\ handoff'[h] = row /\ \A g \in Handoffs \ {h} : handoff'[g] = handoff[g]
      /\ handoff[h].status = "none" /\ UNCHANGED <<session, setup, link>>
  BY <1>1, <1>3, <1>4 DEF CompleteOIDCCallback, CreateOIDCHandoff
<1>6. Owned' /\ Current'
  BY <1>2, <1>3, <1>5 DEF Owned, Current
<1>7. Spent'
  BY <1>5 DEF Spent, SpentOnce
<1>8. state' \in [States -> Statuses]
  BY DEF CompleteOIDCCallback, RequestsInv, Statuses
<1>9. RequestsInv'
  BY <1>8, RequestEnds DEF CompleteOIDCCallback
<1> QED
  BY <1>2, <1>5, <1>6, <1>7, <1>9

\* A reset takes out everything that counted for its account.
LEMMA AccountReset ==
  ASSUME RowsInv, NEW u \in Users, account' \in [Users -> AccountRows],
         \A v \in Users \ {u} : account'[v].resets = account[v].resets,
         RevokeUserSessions(u),
         DOMAIN link' = Links, link' = [l \in Links |-> link'[l]],
         \A l \in Links : Settles(link[l], link'[l], Gone)
  PROVE  RowsInv'
<1> USE DEF RowsInv
<1>1. /\ DOMAIN session' = Sessions /\ session' = [s \in Sessions |-> session'[s]]
      /\ \A s \in Sessions : /\ Settles(session[s], session'[s], {"revoked"})
                             /\ session[s].user = u => session'[s].status # "active"
  BY DEF RevokeUserSessions, Settles, SessionRows
<1>2. /\ DOMAIN setup' = Setups /\ setup' = [x \in Setups |-> setup'[x]]
      /\ \A x \in Setups : /\ Settles(setup[x], setup'[x], Gone)
                           /\ setup[x].user = u => setup'[x].status # "active"
  <2>1. setup' = Superseded(setup, u) /\ DOMAIN setup = Setups
    BY DEF RevokeUserSessions
  <2> QED
    <3>1. /\ DOMAIN setup' = Setups
          /\ \A x \in Setups : /\ Settles(setup[x], setup'[x], Gone)
                               /\ setup[x].user = u => setup'[x].status # "active"
      BY <2>1, SupersededSettles
    <3>2. setup' = [x \in Setups |-> setup'[x]]
      BY <2>1 DEF Superseded
    <3> QED
      BY <3>1, <3>2
<1>3. /\ DOMAIN handoff' = Handoffs /\ handoff' = [h \in Handoffs |-> handoff'[h]]
      /\ \A h \in Handoffs : /\ Settles(handoff[h], handoff'[h], Gone)
                             /\ handoff[h].user = u => handoff'[h].status # "active"
  BY DEF RevokeUserSessions, Settles, HandoffRows, Gone, Statuses
<1>4. \A s \in Sessions : session'[s] \in SessionRows
  BY <1>1 DEF Settles, SessionRows
<1>5. /\ \A h \in Handoffs : handoff'[h] \in HandoffRows
      /\ \A l \in Links : link'[l] \in LinkRows
  <2>1. ASSUME NEW h \in Handoffs
        PROVE  handoff'[h] \in HandoffRows
    <3>1. handoff[h] \in HandoffRows /\ Settles(handoff[h], handoff'[h], Gone)
      BY <1>3
    <3> QED
      BY <3>1 DEF Settles, HandoffRows, Gone
  <2>2. ASSUME NEW l \in Links
        PROVE  link'[l] \in LinkRows
    <3>1. link[l] \in LinkRows /\ Settles(link[l], link'[l], Gone)
      OBVIOUS
    <3> QED
      BY <3>1 DEF Settles, LinkRows, Gone
  <2> QED
    BY <2>1, <2>2
<1>6. ASSUME NEW x \in Setups
      PROVE  setup'[x] \in SetupRows
  <2>1. setup[x] \in SetupRows /\ Settles(setup[x], setup'[x], Gone)
    BY <1>2
  <2> QED
    BY <2>1 DEF Settles, SetupRows, Gone
<1>7. Owned'
  BY <1>1, <1>2, <1>3 DEF Owned, Settles, Gone, SessionRows, SetupRows, HandoffRows, LinkRows
<1>8. Current'
  BY <1>1, <1>2, <1>3 DEF Owned, Current, Settles, Gone, SessionRows, SetupRows, HandoffRows
<1>9. \A s \in Sessions : session'[s].via = session[s].via
  BY <1>1 DEF Settles, SessionRows
<1>10. /\ \A x \in Setups : setup[x].status = "consumed" => setup'[x] = setup[x]
       /\ \A h \in Handoffs : handoff[h].status = "consumed" => handoff'[h] = handoff[h]
  BY <1>2, <1>3 DEF Settles
<1>11. Spent'
  BY <1>9, <1>10 DEF Spent, SpentOnce
<1> QED
  BY <1>1, <1>2, <1>3, <1>4, <1>5, <1>6, <1>7, <1>8, <1>11

\* Both resets, by a link and by an administrator.
LEMMA ResetSteps ==
  ASSUME AccessInv,
         \/ \E c \in Calls : CompletePasswordReset(c)
         \/ \E u \in Users : AdminResetPassword2FA(u)
  PROVE  AccessInv'
<1> USE DEF AccessInv
<1>1. ASSUME NEW c \in Calls, CompletePasswordReset(c)
      PROVE  AccessInv'
  <2>1. PICK u \in Users, l \in Links : u = call[c].user /\ l = call[c].row
    BY <1>1 DEF CompletePasswordReset, RequestsInv, Begun
  <2>2. /\ account' = [account EXCEPT ![u].resets = account[u].resets + 1]
        /\ account[u] \in AccountRows /\ account[u].resets < MaxResets
    BY <1>1, <2>1 DEF CompletePasswordReset, RowsInv
  <2>3. account' = [account EXCEPT ![u] = [account[u] EXCEPT !.resets = account[u].resets + 1]]
    BY <2>2
  <2>4. /\ account' \in [Users -> AccountRows]
        /\ \A v \in Users \ {u} : account'[v].resets = account[v].resets
    BY <2>2, <2>3, AccountFields, AccountChanged DEF RowsInv
  <2>5. link' = [link EXCEPT ![l] = [link[l] EXCEPT !.status = "consumed"]] /\ link[l].status = "active"
    BY <1>1, <2>1 DEF CompletePasswordReset, ConsumePasswordReset, RowsInv
  <2>6. /\ DOMAIN link' = Links /\ link' = [k \in Links |-> link'[k]]
        /\ \A k \in Links : Settles(link[k], link'[k], Gone)
    BY <2>5 DEF RowsInv, LinkRows, Settles, Gone, Statuses
  <2>7. RowsInv'
    BY <1>1, <2>1, <2>4, <2>6, AccountReset DEF CompletePasswordReset
  <2>8. RequestsInv'
    BY <1>1, RequestEnds DEF CompletePasswordReset, RequestsInv
  <2> QED
    BY <2>7, <2>8
<1>2. ASSUME NEW u \in Users, AdminResetPassword2FA(u)
      PROVE  AccessInv'
  <2>1. account[u] \in AccountRows /\ account[u].resets < MaxResets
    BY <1>2 DEF AdminResetPassword2FA, RowsInv
  <2>2. PICK row : row = [WithoutFactor(account[u]) EXCEPT !.resets = account[u].resets + 1]
    OBVIOUS
  <2>3. account' = [account EXCEPT ![u] = row]
    BY <1>2, <2>2 DEF AdminResetPassword2FA
  <2>4. /\ WithoutFactor(account[u]) \in AccountRows
        /\ WithoutFactor(account[u]).resets = account[u].resets /\ account[u].resets < MaxResets
    BY <2>1, AccountFields
  <2>5. row \in AccountRows
    BY <2>2, <2>4, AccountFields
  <2>6. /\ account' \in [Users -> AccountRows]
        /\ \A v \in Users \ {u} : account'[v].resets = account[v].resets
    BY <2>3, <2>5, AccountChanged DEF RowsInv
  <2>7. UNCHANGED <<required, state, link, call>> /\ RevokeUserSessions(u)
    BY <1>2 DEF AdminResetPassword2FA
  <2>8. RowsInv'
    BY <2>6, <2>7, AccountReset DEF RowsInv, Settles
  <2>9. RequestsInv'
    BY <2>7 DEF RequestsInv
  <2> QED
    BY <2>8, <2>9
<1> QED
  BY <1>1, <1>2

-----------------------------------------------------------------------------
\* Reading changes no row.
LEMMA ReadingSteps ==
  ASSUME AccessInv, NEW c \in Calls,
         \/ \E x \in Setups : ReadSetup(c, x)
         \/ \E s \in Sessions : Authenticate(c, s)
         \/ \E l \in Links : ReadLink(c, l)
         \/ \E h \in Handoffs : ReadHandoff(c, h)
         \/ \E o \in States, u \in Users : ConsumeOIDCState(c, o, u)
  PROVE  AccessInv'
<1> USE DEF AccessInv
<1>1. ASSUME NEW x \in Setups, ReadSetup(c, x)
      PROVE  AccessInv'
  <2>1. PICK u \in Users : u = setup[x].user
    BY <1>1 DEF ReadSetup, RowsInv, Owned
  <2> QED
    BY <1>1, <2>1, RequestStarts DEF ReadSetup
<1>2. ASSUME NEW s \in Sessions, Authenticate(c, s)
      PROVE  AccessInv'
  <2>1. PICK u \in Users : u = session[s].user
    BY <1>2 DEF Authenticate, AccessTokenAccepted, RowsInv, Owned
  <2> QED
    BY <1>2, <2>1, RequestStarts DEF Authenticate
<1>3. ASSUME NEW l \in Links, ReadLink(c, l)
      PROVE  AccessInv'
  <2>1. PICK u \in Users : u = link[l].user
    BY <1>3 DEF ReadLink, RowsInv, Owned
  <2> QED
    BY <1>3, <2>1, RequestStarts DEF ReadLink
<1>4. ASSUME NEW h \in Handoffs, ReadHandoff(c, h)
      PROVE  AccessInv'
  <2>1. PICK u \in Users : u = handoff[h].user
    BY <1>4 DEF ReadHandoff, RowsInv, Owned
  <2> QED
    BY <1>4, <2>1, RequestStarts DEF ReadHandoff
<1>5. ASSUME NEW o \in States, NEW u \in Users, ConsumeOIDCState(c, o, u)
      PROVE  AccessInv'
  BY <1>5, RequestStarts DEF ConsumeOIDCState
<1> QED
  BY <1>1, <1>2, <1>3, <1>4, <1>5

\* What a step leaves alone settles.
LEMMA RowsStay ==
  ASSUME RowsInv, UNCHANGED <<session, setup, handoff, link>>,
         account' \in [Users -> AccountRows],
         \A u \in Users : account'[u].resets = account[u].resets
  PROVE  RowsInv'
BY DEF RowsInv, Owned, Current, Spent, SpentOnce

\* A request changes its account by what it read before.
LEMMA FactorSteps ==
  ASSUME AccessInv, NEW c \in Calls,
         \/ \E k \in Secrets : SetupPassword2FA(c, k)
         \/ ConfirmPassword2FA(c)
         \/ DisablePassword2FA(c)
         \/ Answer(c)
         \/ Logout(c)
  PROVE  AccessInv'
<1> USE DEF AccessInv
<1>1. Ends(c) /\ UNCHANGED <<required, setup, state, handoff, link>>
  BY DEF SetupPassword2FA, ConfirmPassword2FA, DisablePassword2FA, Answer, Logout
<1>2. RequestsInv'
  BY <1>1, RequestEnds DEF RequestsInv
<1>3. ASSUME Authenticated(c)
      PROVE  /\ call[c].user \in Users /\ call[c].seen \in AccountRows /\ call[c].row \in Sessions
             /\ account[call[c].user] \in AccountRows
  BY <1>3 DEF Authenticated, RequestsInv, Begun, RowsInv
<1>4. ASSUME NEW k \in Secrets, SetupPassword2FA(c, k)
      PROVE  RowsInv'
  <2>1. PICK u \in Users : u = call[c].user
    BY <1>3, <1>4 DEF SetupPassword2FA
  <2>2. PICK row : row = [account[u] EXCEPT !.pending = k]
    OBVIOUS
  <2>3. account' = [account EXCEPT ![u] = row] /\ account[u] \in AccountRows
    BY <1>4, <2>1, <2>2 DEF SetupPassword2FA, RowsInv
  <2>4. row \in AccountRows /\ row.resets = account[u].resets
    BY <2>2, <2>3, AccountFields
  <2>5. /\ account' \in [Users -> AccountRows]
        /\ \A v \in Users : account'[v].resets = account[v].resets
    BY <2>3, <2>4, AccountChanged DEF RowsInv
  <2> QED
    BY <1>4, <2>5, RowsStay DEF SetupPassword2FA
<1>5. ASSUME ConfirmPassword2FA(c)
      PROVE  RowsInv'
  <2>1. PICK u \in Users, k \in Secrets : u = call[c].user /\ k = call[c].seen.pending
    BY <1>3, <1>5 DEF ConfirmPassword2FA, AccountRows
  <2>2. PICK row : row = [account[u] EXCEPT !.secret = k, !.pending = None, !.enabled = TRUE]
    OBVIOUS
  <2>3. account' = [account EXCEPT ![u] = row] /\ account[u] \in AccountRows
    BY <1>5, <2>1, <2>2 DEF ConfirmPassword2FA, RowsInv
  <2>4. row \in AccountRows /\ row.resets = account[u].resets
    BY <2>2, <2>3 DEF AccountRows
  <2>5. /\ account' \in [Users -> AccountRows]
        /\ \A v \in Users : account'[v].resets = account[v].resets
    BY <2>3, <2>4, AccountChanged DEF RowsInv
  <2> QED
    BY <1>5, <2>5, RowsStay DEF ConfirmPassword2FA
<1>6. ASSUME DisablePassword2FA(c)
      PROVE  RowsInv'
  <2>1. PICK u \in Users : u = call[c].user
    BY <1>3, <1>6 DEF DisablePassword2FA
  <2>2. account' = [account EXCEPT ![u] = WithoutFactor(account[u])] /\ account[u] \in AccountRows
    BY <1>6, <2>1 DEF DisablePassword2FA, RowsInv
  <2>3. /\ account' \in [Users -> AccountRows]
        /\ \A v \in Users : account'[v].resets = account[v].resets
    BY <2>2, AccountFields, AccountChanged DEF RowsInv
  <2> QED
    BY <1>6, <2>3, RowsStay DEF DisablePassword2FA
<1>7. ASSUME Answer(c)
      PROVE  RowsInv'
  BY <1>7, RowsStay DEF Answer, RowsInv
<1>8. ASSUME Logout(c)
      PROVE  RowsInv'
  <2>1. PICK s \in Sessions : s = call[c].row
    BY <1>3, <1>8 DEF Logout
  <2>2. /\ session' = [session EXCEPT ![s] = [session[s] EXCEPT !.status = "revoked"]]
        /\ session[s].status = "active" /\ session[s] \in SessionRows
    BY <1>8, <2>1 DEF Logout, RowsInv
  <2>3. /\ DOMAIN session' = Sessions /\ session' = [t \in Sessions |-> session'[t]]
        /\ \A t \in Sessions : Settles(session[t], session'[t], {"revoked"})
    BY <2>2 DEF RowsInv, SessionRows, Settles
  <2> QED
    BY <1>8, <2>3, RowsSettle DEF Logout, RowsInv, Settles
<1> QED
  BY <1>2, <1>4, <1>5, <1>6, <1>7, <1>8

-----------------------------------------------------------------------------
\* A new link replaces the ones before it.
LEMMA LinkStep ==
  ASSUME AccessInv, NEW u \in Users, NEW l \in Links, AdminCreatePasswordResetLink(u, l)
  PROVE  AccessInv'
<1> USE DEF AccessInv, RowsInv
<1>1. PICK row : row = [status |-> "active", user |-> u]
  OBVIOUS
<1>2. row \in LinkRows
  BY <1>1 DEF LinkRows, Statuses
<1>3. PICK rows : rows = Superseded(link, u)
  OBVIOUS
<1>4. DOMAIN rows = Links /\ \A m \in Links : Settles(link[m], rows[m], Gone)
  BY <1>3, SupersededSettles
<1>5. /\ DOMAIN link' = Links /\ link' = [m \in Links |-> link'[m]]
      /\ link'[l] = row /\ \A m \in Links \ {l} : link'[m] = rows[m]
  BY <1>1, <1>3, <1>4 DEF AdminCreatePasswordResetLink, CreatePasswordReset
<1>6. UNCHANGED <<required, account, session, setup, state, handoff, call>>
  BY DEF AdminCreatePasswordResetLink
<1>7. ASSUME NEW m \in Links
      PROVE  link'[m] \in LinkRows /\ (link'[m].status = "active" => link'[m].user \in Users)
  <2>1. CASE m = l
    BY <1>1, <1>2, <1>5, <2>1
  <2>2. CASE m # l
    <3>1. link'[m] = rows[m] /\ Settles(link[m], rows[m], Gone) /\ link[m] \in LinkRows
      BY <1>4, <1>5, <2>2
    <3> QED
      BY <3>1 DEF Settles, LinkRows, Gone, Owned
  <2> QED
    BY <2>1, <2>2
<1>8. Owned' /\ Current' /\ Spent'
  BY <1>6, <1>7 DEF Owned, Current, Spent, SpentOnce
<1> QED
  BY <1>5, <1>6, <1>7, <1>8 DEF RequestsInv

\* Rows expire on their own.
LEMMA ExpireStep ==
  ASSUME AccessInv, NEW x, Expire(x)
  PROVE  AccessInv'
<1> USE DEF AccessInv
<1>1. UNCHANGED <<required, account, session, call>>
  BY DEF Expire
<1>2. state' \in [States -> Statuses]
  BY DEF Expire, RequestsInv, Statuses
<1>3. RequestsInv'
  BY <1>1, <1>2 DEF RequestsInv
<1>4. /\ DOMAIN setup' = Setups /\ setup' = [y \in Setups |-> setup'[y]]
      /\ \A y \in Setups : Settles(setup[y], setup'[y], Gone)
  BY DEF Expire, RowsInv, SetupRows, Settles, Gone, Statuses
<1>5. /\ DOMAIN handoff' = Handoffs /\ handoff' = [h \in Handoffs |-> handoff'[h]]
      /\ \A h \in Handoffs : Settles(handoff[h], handoff'[h], Gone)
  BY DEF Expire, RowsInv, HandoffRows, Settles, Gone, Statuses
<1>6. /\ DOMAIN link' = Links /\ link' = [l \in Links |-> link'[l]]
      /\ \A l \in Links : Settles(link[l], link'[l], Gone)
  BY DEF Expire, RowsInv, LinkRows, Settles, Gone, Statuses
<1>7. RowsInv'
  BY <1>1, <1>4, <1>5, <1>6, RowsSettle DEF RowsInv, Settles
<1> QED
  BY <1>3, <1>7

\* An account is disabled or enabled again.
LEMMA StatusStep ==
  ASSUME AccessInv, NEW u \in Users, SetStatus(u)
  PROVE  AccessInv'
<1> USE DEF AccessInv
<1>1. PICK row : row = [account[u] EXCEPT !.active = ~account[u].active]
  OBVIOUS
<1>2. account' = [account EXCEPT ![u] = row] /\ account[u] \in AccountRows
  BY <1>1 DEF SetStatus, RowsInv
<1>3. (~account[u].active) = TRUE \/ (~account[u].active) = FALSE
  BY Zenon
<1>4. row \in AccountRows /\ row.resets = account[u].resets
  <2>1. CASE (~account[u].active) = TRUE
    <3>1. row = [account[u] EXCEPT !.active = TRUE]
      BY <1>1, <2>1, Zenon
    <3> QED
      BY <1>2, <3>1, AccountFields
  <2>2. CASE (~account[u].active) = FALSE
    <3>1. row = [account[u] EXCEPT !.active = FALSE]
      BY <1>1, <2>2, Zenon
    <3> QED
      BY <1>2, <3>1, AccountFields
  <2> QED
    BY <1>3, <2>1, <2>2
<1>5. /\ account' \in [Users -> AccountRows]
      /\ \A v \in Users : account'[v].resets = account[v].resets
  BY <1>2, <1>4, AccountChanged DEF RowsInv
<1>6. RowsInv'
  BY <1>5, RowsStay DEF SetStatus
<1> QED
  BY <1>6 DEF SetStatus, RequestsInv

\* An OpenID Connect login begins.
LEMMA StartOIDCStep ==
  ASSUME AccessInv, NEW o \in States, StartOIDCLogin(o)
  PROVE  AccessInv'
<1>1. RowsInv'
  BY RowsStay DEF StartOIDCLogin, AccessInv, RowsInv
<1> QED
  BY <1>1 DEF StartOIDCLogin, AccessInv, RequestsInv, Statuses

\* Every step keeps the invariant.
LEMMA NextHolds == AccessInv /\ [Next]_vars => AccessInv'
<1> SUFFICES ASSUME AccessInv, [Next]_vars
             PROVE  AccessInv'
  OBVIOUS
<1>1. CASE UNCHANGED vars
  <2>1. RowsInv'
    BY <1>1, RowsStay DEF vars, AccessInv, RowsInv
  <2> QED
    BY <1>1, <2>1 DEF vars, AccessInv, RequestsInv
<1>2. CASE Next
  BY <1>2, StartSetupStep, LoginStep, ReadingSteps, ConfirmSetupStep, FactorSteps, LinkStep, ResetSteps,
     StatusStep, StartOIDCStep, CallbackStep, ExchangeStep, ExpireStep DEF Next
<1> QED
  BY <1>1, <1>2

-----------------------------------------------------------------------------
\* The inductive invariant: rows that count are their account's and were made
\* after its last reset, what paid for a session is spent, and a request that
\* goes on does so with what it read.
THEOREM AccessHolds == Spec => []AccessInv
<1>1. Init => AccessInv
  BY InitHolds
<1>2. AccessInv /\ [Next]_vars => AccessInv'
  BY NextHolds
<1> QED
  BY <1>1, <1>2, PTL DEF Spec

\* Every table keeps its shape, and a setup token or a handoff is worth at
\* most one session, however often and by how many requests it is presented.
THEOREM LoginsSafe == Spec => []LoginsInv
<1>1. AccessInv => LoginsInv
  BY DEF AccessInv, RowsInv, RequestsInv, Spent, LoginsInv, TypeOK
<1> QED
  BY <1>1, AccessHolds, PTL

\* Once an account is reset, nothing gives access that was got before: neither
\* a session nor a login that was half done.
THEOREM ResetEnds == Spec => []ResetEndsAccess
<1>1. AccessInv => ResetEndsAccess
  BY CurrentSuffices DEF AccessInv, RowsInv
<1> QED
  BY <1>1, AccessHolds, PTL

-----------------------------------------------------------------------------
\* A session opens in three places only.
LEMMA SessionOpens ==
  ASSUME AccessInv, Next, NEW s \in Sessions, session[s].status = "none", session'[s].status = "active"
  PROVE  \/ \E u \in Users : PasswordLogin(u, s)
         \/ \E c \in Calls : ConfirmPassword2FALoginSetup(c, s)
         \/ \E c \in Calls : ExchangeOIDCHandoff(c, s)
<1> USE DEF AccessInv, RowsInv
<1>1. ASSUME NEW t \in Sessions, NEW u, NEW via, CreateSession(t, u, via)
      PROVE  t = s
  BY <1>1 DEF CreateSession
<1>2. ASSUME NEW u, RevokeUserSessions(u)
      PROVE  FALSE
  BY <1>2 DEF RevokeUserSessions
<1>3. ASSUME NEW c \in Calls, Logout(c)
      PROVE  FALSE
  <2>1. PICK t \in Sessions : t = call[c].row
    BY <1>3 DEF Logout, Authenticated, RequestsInv, Begun
  <2> QED
    BY <1>3, <2>1 DEF Logout
<1>4. session' # session
  OBVIOUS
<1>5. CASE \E u \in Users, t \in Sessions : PasswordLogin(u, t)
  BY <1>1, <1>5 DEF PasswordLogin
<1>6. CASE \E c \in Calls, t \in Sessions : ConfirmPassword2FALoginSetup(c, t)
  BY <1>1, <1>6 DEF ConfirmPassword2FALoginSetup
<1>7. CASE \E c \in Calls, t \in Sessions : ExchangeOIDCHandoff(c, t)
  BY <1>1, <1>7 DEF ExchangeOIDCHandoff
<1>8. /\ \A u \in Users : ~AdminResetPassword2FA(u) /\ ~SetStatus(u)
      /\ \A c \in Calls : /\ ~CompletePasswordReset(c) /\ ~Logout(c) /\ ~ConfirmPassword2FA(c)
                          /\ ~DisablePassword2FA(c) /\ ~Answer(c)
      /\ \A c \in Calls, k \in Secrets : ~SetupPassword2FA(c, k)
  BY <1>2, <1>3, <1>4 DEF AdminResetPassword2FA, SetStatus, CompletePasswordReset, ConfirmPassword2FA,
     DisablePassword2FA, Answer, SetupPassword2FA
<1>9. /\ \A u \in Users, x \in Setups, k \in Secrets : ~StartLoginSetup(u, x, k)
      /\ \A c \in Calls, x \in Setups : ~ReadSetup(c, x)
      /\ \A c \in Calls, t \in Sessions : ~Authenticate(c, t)
      /\ \A u \in Users, l \in Links : ~AdminCreatePasswordResetLink(u, l)
      /\ \A c \in Calls, l \in Links : ~ReadLink(c, l)
      /\ \A o \in States : ~StartOIDCLogin(o)
      /\ \A c \in Calls, o \in States, u \in Users : ~ConsumeOIDCState(c, o, u)
      /\ \A c \in Calls, h \in Handoffs : ~CompleteOIDCCallback(c, h) /\ ~ReadHandoff(c, h)
      /\ \A x \in Setups \cup Links \cup Handoffs \cup States : ~Expire(x)
  BY <1>4 DEF StartLoginSetup, ReadSetup, Authenticate, AdminCreatePasswordResetLink, ReadLink, StartOIDCLogin,
     ConsumeOIDCState, CompleteOIDCCallback, ReadHandoff, Expire
<1> QED
  BY <1>5, <1>6, <1>7, <1>8, <1>9 DEF Next

\* When a session opens its account is active, and has the factor that the
\* configuration demands.
THEOREM FactorChecked == Spec => FactorAtLogin
<1> DEFINE Opens(s) ==
      LET u == session'[s].user
          v == session'[s].via IN
      /\ account[u].active
      /\ required /\ v \notin Handoffs => account'[u].enabled /\ account'[u].secret # None
      /\ v \in Setups => account'[u].secret = setup[v].secret
<1>1. ASSUME AccessInv, [Next]_vars, NEW s \in Sessions,
             session[s].status = "none", session'[s].status = "active"
      PROVE  Opens(s)
  <2> USE DEF AccessInv, RowsInv
  <2>1. Next
    BY <1>1 DEF vars
  <2>2. ASSUME NEW u \in Users, PasswordLogin(u, s)
        PROVE  Opens(s)
    <3>1. session'[s].user = u /\ session'[s].via = "password" /\ account' = account
      BY <1>1, <2>2 DEF PasswordLogin, CreateSession
    <3>2. "password" \notin Setups
      BY LoginsAssumption
    <3> QED
      BY <2>2, <3>1, <3>2 DEF PasswordLogin
  <2>3. ASSUME NEW c \in Calls, ConfirmPassword2FALoginSetup(c, s)
        PROVE  Opens(s)
    <3>1. PICK x \in Setups : x = call[c].row
      BY <1>1, <2>3 DEF ConfirmPassword2FALoginSetup, RequestsInv, Begun
    <3>2. PICK u \in Users, k \in Secrets : u = setup[x].user /\ k = setup[x].secret
      BY <1>1, <2>3, <3>1 DEF ConfirmPassword2FALoginSetup, ConsumePassword2FASetup, Owned
    <3>3. session'[s].user = u /\ session'[s].via = x /\ account[u].active
      BY <1>1, <2>3, <3>1, <3>2 DEF ConfirmPassword2FALoginSetup, CreateSession
    <3>4. account' = [account EXCEPT ![u] = [@ EXCEPT !.secret = k, !.pending = None, !.enabled = TRUE]]
      BY <1>1, <2>3, <3>1, <3>2 DEF ConfirmPassword2FALoginSetup
    <3>5. account'[u].secret = k /\ account'[u].enabled = TRUE
      BY <1>1, <3>4 DEF AccountRows
    <3>6. k # None
      BY LoginsAssumption
    <3> QED
      BY <3>2, <3>3, <3>5, <3>6
  <2>4. ASSUME NEW c \in Calls, ExchangeOIDCHandoff(c, s)
        PROVE  Opens(s)
    <3>1. session'[s].user = call[c].user /\ session'[s].via = call[c].row
      BY <1>1, <2>4 DEF ExchangeOIDCHandoff, CreateSession
    <3>2. call[c].row \in Handoffs /\ call[c].row \notin Setups
      BY <1>1, <2>4, LoginsAssumption DEF ExchangeOIDCHandoff, RequestsInv, Begun
    <3> QED
      BY <2>4, <3>1, <3>2 DEF ExchangeOIDCHandoff
  <2> QED
    BY <1>1, <2>1, <2>2, <2>3, <2>4, SessionOpens
<1>2. AccessInv /\ [Next]_vars => [\A s \in Sessions :
        session[s].status = "none" /\ session'[s].status = "active" => Opens(s)]_vars
  BY <1>1
<1> QED
  BY <1>2, AccessHolds, PTL DEF Spec, FactorAtLogin

-----------------------------------------------------------------------------
\* A link that is used up, replaced or expired stays as it is.
LEMMA LinkSettled ==
  ASSUME AccessInv, Next, NEW l \in Links, link[l].status \in Gone
  PROVE  link'[l] = link[l]
<1> USE DEF AccessInv, RowsInv
<1>1. link[l].status \notin {"none", "active"}
  BY DEF Gone
<1>2. ASSUME NEW u \in Users, NEW m \in Links, AdminCreatePasswordResetLink(u, m)
      PROVE  link'[l] = link[l]
  BY <1>1, <1>2 DEF AdminCreatePasswordResetLink, CreatePasswordReset, Superseded
<1>3. ASSUME NEW c \in Calls, CompletePasswordReset(c)
      PROVE  link'[l] = link[l]
  <2>1. PICK m \in Links : m = call[c].row
    BY <1>3 DEF CompletePasswordReset, RequestsInv, Begun
  <2> QED
    BY <1>1, <1>3, <2>1 DEF CompletePasswordReset, ConsumePasswordReset
<1>4. ASSUME NEW x, Expire(x)
      PROVE  link'[l] = link[l]
  BY <1>1, <1>4 DEF Expire
<1> QED
  BY <1>2, <1>3, <1>4 DEF Next, StartLoginSetup, PasswordLogin, ReadSetup, ConfirmPassword2FALoginSetup, Authenticate,
     Logout, ConfirmPassword2FA, DisablePassword2FA, Answer, SetupPassword2FA, ReadLink, AdminResetPassword2FA,
     SetStatus, StartOIDCLogin, ConsumeOIDCState, CompleteOIDCCallback, ReadHandoff, ExchangeOIDCHandoff

\* A request that came with such a link ends without effect.
LEMMA LinkRefused ==
  ASSUME AccessInv, Next, NEW l \in Links, link[l].status \in Gone,
         NEW c \in Calls, call[c].row = l, call'[c] = IdleCall
  PROVE  account' = account
<1> USE DEF AccessInv
<1>1. link[l].status # "active"
  BY DEF Gone
<1>2. call[c].op = "reset" /\ call[c] # IdleCall
  BY LoginsAssumption DEF RequestsInv, Begun, IdleCall
<1>3. ASSUME NEW d \in Calls, Ends(d)
      PROVE  d = c
  BY <1>2, <1>3 DEF Ends, RequestsInv
<1>4. call' # call
  BY <1>2
<1>5. /\ \A d \in Calls, t \in Sessions : ~ConfirmPassword2FALoginSetup(d, t)
      /\ \A d \in Calls, k \in Secrets : ~SetupPassword2FA(d, k)
      /\ \A d \in Calls : ~ConfirmPassword2FA(d) /\ ~DisablePassword2FA(d)
      /\ \A d \in Calls, h \in Handoffs : ~CompleteOIDCCallback(d, h)
  BY <1>2, <1>3 DEF ConfirmPassword2FALoginSetup, SetupPassword2FA, ConfirmPassword2FA, DisablePassword2FA,
     CompleteOIDCCallback, Authenticated
<1>6. \A d \in Calls : ~CompletePasswordReset(d)
  BY <1>1, <1>3 DEF CompletePasswordReset, ConsumePasswordReset
<1>7. \A u \in Users : ~AdminResetPassword2FA(u) /\ ~SetStatus(u)
  BY <1>4 DEF AdminResetPassword2FA, SetStatus
<1> QED
  BY <1>5, <1>6, <1>7 DEF Next, StartLoginSetup, PasswordLogin, ReadSetup, Authenticate, Logout, Answer,
     AdminCreatePasswordResetLink, ReadLink, StartOIDCLogin, ConsumeOIDCState, ReadHandoff, ExchangeOIDCHandoff, Expire

\* A reset link works once, and not at all once a newer one replaced it.
THEOREM LinkOnce == Spec => LinkWorksOnce
<1>1. ASSUME AccessInv, [Next]_vars, NEW l \in Links, link[l].status \notin {"none", "active"}
      PROVE  /\ link'[l] = link[l]
             /\ \A c \in Calls : call[c].row = l /\ call'[c] = IdleCall => account' = account
  <2>1. link[l].status \in Gone
    BY <1>1 DEF AccessInv, RowsInv, LinkRows, Gone
  <2>2. CASE UNCHANGED vars
    BY <2>2 DEF vars
  <2>3. CASE Next
    BY <1>1, <2>1, <2>3, LinkSettled, LinkRefused
  <2> QED
    BY <1>1, <2>2, <2>3
<1>2. AccessInv /\ [Next]_vars => [\A l \in Links : link[l].status \notin {"none", "active"} =>
        /\ link'[l] = link[l]
        /\ \A c \in Calls : call[c].row = l /\ call'[c] = IdleCall => account' = account]_vars
  BY <1>1
<1> QED
  BY <1>2, AccessHolds, PTL DEF Spec, LinkWorksOnce

=============================================================================
