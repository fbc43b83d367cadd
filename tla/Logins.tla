------------------------------- MODULE Logins -------------------------------
(***************************************************************************)
(* How an account of Certhub gets a session and loses it again: password   *)
(* logins, the second factor, the setup that a login without it leads to,  *)
(* reset links, the resets an administrator makes, and the OpenID Connect  *)
(* login in its three requests.  What a request reads before it locks the  *)
(* account is a step of its own; everything it does under the row lock of  *)
(* the account is one step.  A client that fails a check changes nothing.  *)
(***************************************************************************)
EXTENDS Naturals

CONSTANTS Users, Sessions, Calls, None,
          Secrets,    \* TOTP secrets
          Setups,     \* rows of password_2fa_login_setups
          States,     \* rows of oidc_login_states
          Handoffs,   \* rows of oidc_login_handoffs
          Links,      \* rows of user_password_reset_tokens
          MaxResets   \* bound: credential resets of an account

\* The rows of a table are nothing else's, so that what a session was paid with
\* and what a request read say where they come from.
ASSUME LoginsAssumption ==
  /\ MaxResets \in Nat
  /\ None \notin Users \cup Secrets
  /\ {None, "password"} \cap (Setups \cup Handoffs) = {} /\ Setups \cap Handoffs = {}
  /\ Links \cap ({None} \cup Sessions \cup Setups \cup States \cup Handoffs) = {}

VARIABLES
  required,  \* the configuration demands the second factor
  account, session, setup, state, handoff, link,
  call       \* requests between their first read and their transaction's end

vars == <<required, account, session, setup, state, handoff, link, call>>

Statuses == {"none", "active", "consumed", "superseded", "expired"}

\* resets counts the credential resets, linked says that an OIDC subject is bound.
AccountRows == [active: BOOLEAN, enabled: BOOLEAN, secret: Secrets \cup {None},
                pending: Secrets \cup {None}, linked: BOOLEAN, resets: 0..MaxResets]
\* resets: the account's count when the row was made; via: what was paid for it.
SessionRows == [status: {"none", "active", "revoked"}, user: Users \cup {None},
                via: {None, "password"} \cup Setups \cup Handoffs, resets: 0..MaxResets]
SetupRows == [status: Statuses, user: Users \cup {None}, secret: Secrets \cup {None},
              resets: 0..MaxResets]
HandoffRows == [status: Statuses, user: Users \cup {None}, resets: 0..MaxResets]
LinkRows == [status: Statuses, user: Users \cup {None}]
CallRows == [op: {"idle", "authenticated", "reset", "setup", "callback", "exchange"},
             user: Users \cup {None}, row: {None} \cup Sessions \cup Links \cup Setups \cup States \cup Handoffs,
             seen: AccountRows \cup {None}]

NewAccount == [active |-> TRUE, enabled |-> FALSE, secret |-> None, pending |-> None,
               linked |-> FALSE, resets |-> 0]
IdleCall == [op |-> "idle", user |-> None, row |-> None, seen |-> None]

Init ==
  /\ required \in BOOLEAN
  /\ account = [u \in Users |-> NewAccount]
  /\ session = [s \in Sessions |-> [status |-> "none", user |-> None, via |-> None, resets |-> 0]]
  /\ setup = [x \in Setups |-> [status |-> "none", user |-> None, secret |-> None, resets |-> 0]]
  /\ state = [o \in States |-> "none"]
  /\ handoff = [h \in Handoffs |-> [status |-> "none", user |-> None, resets |-> 0]]
  /\ link = [l \in Links |-> [status |-> "none", user |-> None]]
  /\ call = [c \in Calls |-> IdleCall]

Starts(c, op, u, row) ==
  /\ call[c] = IdleCall
  /\ call' = [call EXCEPT ![c] = [op |-> op, user |-> u, row |-> row,
                                  seen |-> IF u = None THEN None ELSE account[u]]]
Ends(c) == call' = [call EXCEPT ![c] = IdleCall]

\* A secret nobody has been given yet.
Fresh(k) ==
  /\ \A u \in Users : k \notin {account[u].secret, account[u].pending}
  /\ \A x \in Setups : setup[x].secret # k
  /\ \A c \in Calls : call[c].seen # None => k \notin {call[c].seen.secret, call[c].seen.pending}

-----------------------------------------------------------------------------
\* The statements of the repository.
CreateSession(s, u, via) ==
  /\ session[s].status = "none"
  /\ session' = [session EXCEPT ![s] = [status |-> "active", user |-> u, via |-> via,
                                        resets |-> account[u].resets]]

Superseded(rows, u) ==
  [x \in DOMAIN rows |-> IF rows[x].user = u /\ rows[x].status = "active"
                         THEN [rows[x] EXCEPT !.status = "superseded"] ELSE rows[x]]

CreatePassword2FASetup(x, u, k) ==
  /\ setup[x].status = "none"
  /\ setup' = [Superseded(setup, u) EXCEPT ![x] =
                 [status |-> "active", user |-> u, secret |-> k, resets |-> account[u].resets]]

ConsumePassword2FASetup(x) ==
  /\ setup[x].status = "active"
  /\ setup' = [setup EXCEPT ![x].status = "consumed"]

CreatePasswordReset(l, u) ==
  /\ link[l].status = "none"
  /\ link' = [Superseded(link, u) EXCEPT ![l] = [status |-> "active", user |-> u]]

\* Mutant: a link that is consumed again.
ConsumeLinkAgain(l) == link' = [link EXCEPT ![l].status = "consumed"]

ConsumePasswordReset(l) ==
  /\ link[l].status = "active"
  /\ link' = [link EXCEPT ![l].status = "consumed"]

CreateOIDCHandoff(h, u) ==
  /\ handoff[h].status = "none"
  /\ handoff' = [handoff EXCEPT ![h] = [status |-> "active", user |-> u, resets |-> account[u].resets]]

\* Mutant: the update has no condition on the status.
ConsumeHandoffAgain(h) == handoff' = [handoff EXCEPT ![h].status = "consumed"]

ConsumeOIDCHandoff(h) ==
  /\ handoff[h].status = "active"
  /\ handoff' = [handoff EXCEPT ![h].status = "consumed"]

\* Mutant: only the sessions are revoked.
RevokeSessionsOnly(u) ==
  /\ session' = [s \in Sessions |-> IF session[s].user = u /\ session[s].status = "active"
                                    THEN [session[s] EXCEPT !.status = "revoked"] ELSE session[s]]
  /\ UNCHANGED <<setup, handoff>>

\* A recovery ends the unfinished logins as well as the sessions.
RevokeUserSessions(u) ==
  /\ setup' = Superseded(setup, u)
  /\ handoff' = [h \in Handoffs |-> IF handoff[h].user = u /\ handoff[h].status = "active"
                                    THEN [handoff[h] EXCEPT !.status = "expired"] ELSE handoff[h]]
  /\ session' = [s \in Sessions |-> IF session[s].user = u /\ session[s].status = "active"
                                    THEN [session[s] EXCEPT !.status = "revoked"] ELSE session[s]]

-----------------------------------------------------------------------------
\* The password is right and the account active, both read under its lock.
StartLoginSetup(u, x, k) ==
  /\ account[u].active
  /\ required /\ ~(account[u].enabled /\ account[u].secret # None)
  /\ Fresh(k)
  /\ CreatePassword2FASetup(x, u, k)
  /\ UNCHANGED <<required, account, session, state, handoff, link, call>>

FactorNeeded(u) == required \/ account[u].enabled
FactorOffered(u) == account[u].secret # None

\* Mutant: the configuration's demand is forgotten.
PasswordLoginOptional(u, s) ==
  /\ account[u].active
  /\ account[u].enabled => FactorOffered(u)
  /\ CreateSession(s, u, "password")
  /\ UNCHANGED <<required, account, setup, state, handoff, link, call>>

PasswordLogin(u, s) ==
  /\ account[u].active
  /\ required => account[u].enabled /\ account[u].secret # None
  /\ FactorNeeded(u) => FactorOffered(u)
  /\ CreateSession(s, u, "password")
  /\ UNCHANGED <<required, account, setup, state, handoff, link, call>>

ReadSetup(c, x) ==
  /\ setup[x].status = "active"
  /\ Starts(c, "setup", setup[x].user, x)
  /\ UNCHANGED <<required, account, session, setup, state, handoff, link>>

\* The setup is read again once the account is locked.
ConfirmPassword2FALoginSetup(c, s) ==
  LET x == call[c].row
      u == setup[x].user IN
  /\ call[c].op = "setup"
  /\ account[u].active /\ ~account[u].enabled /\ account[u].secret = None
  /\ ConsumePassword2FASetup(x)
  /\ CreateSession(s, u, x)
  /\ account' = [account EXCEPT ![u].secret = setup[x].secret, ![u].pending = None, ![u].enabled = TRUE]
  /\ Ends(c)
  /\ UNCHANGED <<required, state, handoff, link>>

-----------------------------------------------------------------------------
\* The middleware reads session and account and locks neither: the request
\* goes on with what it read.
AccessTokenAccepted(s) ==
  session[s].status = "active" /\ account[session[s].user].active

Authenticate(c, s) ==
  /\ AccessTokenAccepted(s)
  /\ Starts(c, "authenticated", session[s].user, s)
  /\ UNCHANGED <<required, account, session, setup, state, handoff, link>>

Authenticated(c) == call[c].op = "authenticated"

Logout(c) ==
  /\ Authenticated(c)
  /\ session[call[c].row].status = "active"
  /\ session' = [session EXCEPT ![call[c].row].status = "revoked"]
  /\ Ends(c)
  /\ UNCHANGED <<required, account, setup, state, handoff, link>>

SetupPassword2FA(c, k) ==
  LET seen == call[c].seen IN
  /\ Authenticated(c)
  /\ ~seen.enabled /\ seen.secret = None /\ seen.pending = None
  /\ Fresh(k)
  /\ account' = [account EXCEPT ![call[c].user].pending = k]
  /\ Ends(c)
  /\ UNCHANGED <<required, session, setup, state, handoff, link>>

ConfirmPassword2FA(c) ==
  LET seen == call[c].seen IN
  /\ Authenticated(c)
  /\ seen.pending # None
  /\ account' = [account EXCEPT ![call[c].user].secret = seen.pending,
                                ![call[c].user].pending = None,
                                ![call[c].user].enabled = TRUE]
  /\ Ends(c)
  /\ UNCHANGED <<required, session, setup, state, handoff, link>>

WithoutFactor(a) == [a EXCEPT !.enabled = FALSE, !.secret = None, !.pending = None]

DisablePassword2FA(c) ==
  LET seen == call[c].seen IN
  /\ Authenticated(c)
  /\ ~required
  /\ seen.secret # None /\ seen.enabled
  /\ account' = [account EXCEPT ![call[c].user] = WithoutFactor(account[call[c].user])]
  /\ Ends(c)
  /\ UNCHANGED <<required, session, setup, state, handoff, link>>

\* Any other request of the session, and every one that is refused.
Answer(c) ==
  /\ call[c] # IdleCall
  /\ Ends(c)
  /\ UNCHANGED <<required, account, session, setup, state, handoff, link>>

-----------------------------------------------------------------------------
AdminCreatePasswordResetLink(u, l) ==
  /\ CreatePasswordReset(l, u)
  /\ UNCHANGED <<required, account, session, setup, state, handoff, call>>

ReadLink(c, l) ==
  /\ link[l].status = "active"
  /\ Starts(c, "reset", link[l].user, l)
  /\ UNCHANGED <<required, account, session, setup, state, handoff, link>>

CompletePasswordReset(c) ==
  LET u == call[c].user IN
  /\ call[c].op = "reset"
  /\ account[u].resets < MaxResets
  /\ ConsumePasswordReset(call[c].row)
  /\ account' = [account EXCEPT ![u].resets = @ + 1]
  /\ RevokeUserSessions(u)
  /\ Ends(c)
  /\ UNCHANGED <<required, state>>

AdminResetPassword2FA(u) ==
  /\ account[u].resets < MaxResets
  /\ account' = [account EXCEPT ![u] = [WithoutFactor(account[u]) EXCEPT !.resets = account[u].resets + 1]]
  /\ RevokeUserSessions(u)
  /\ UNCHANGED <<required, state, link, call>>

\* An administrator disables the account or enables it again.
SetStatus(u) ==
  /\ account' = [account EXCEPT ![u].active = ~@]
  /\ UNCHANGED <<required, session, setup, state, handoff, link, call>>

-----------------------------------------------------------------------------
StartOIDCLogin(o) ==
  /\ state[o] = "none"
  /\ state' = [state EXCEPT ![o] = "active"]
  /\ UNCHANGED <<required, account, session, setup, handoff, link, call>>

\* The callback's transaction consumes the state, which locks it until the
\* end, and finds the account by its subject or by its verified address.
ConsumeOIDCState(c, o, u) ==
  /\ state[o] = "active"
  /\ \A d \in Calls : ~(call[d].op = "callback" /\ call[d].row = o)
  /\ account[u].active
  /\ Starts(c, "callback", u, o)
  /\ UNCHANGED <<required, account, session, setup, state, handoff, link>>

ResolveOIDCUser(u, seen) ==
  account' = IF seen.linked THEN account ELSE [account EXCEPT ![u].linked = TRUE]

CompleteOIDCCallback(c, h) ==
  /\ call[c].op = "callback"
  /\ ResolveOIDCUser(call[c].user, call[c].seen)
  /\ CreateOIDCHandoff(h, call[c].user)
  /\ state' = [state EXCEPT ![call[c].row] = "consumed"]
  /\ Ends(c)
  /\ UNCHANGED <<required, session, setup, link>>

ReadHandoff(c, h) ==
  /\ handoff[h].status = "active"
  /\ Starts(c, "exchange", handoff[h].user, h)
  /\ UNCHANGED <<required, account, session, setup, state, handoff, link>>

ExchangeOIDCHandoff(c, s) ==
  /\ call[c].op = "exchange"
  /\ account[call[c].user].active
  /\ ConsumeOIDCHandoff(call[c].row)
  /\ CreateSession(s, call[c].user, call[c].row)
  /\ Ends(c)
  /\ UNCHANGED <<required, account, setup, state, link>>

\* expires_at passes: the row no longer counts as active.
Expire(x) ==
  /\ \/ /\ x \in Setups /\ setup[x].status = "active"
        /\ setup' = [setup EXCEPT ![x].status = "expired"]
        /\ UNCHANGED <<link, handoff, state>>
     \/ /\ x \in Links /\ link[x].status = "active"
        /\ link' = [link EXCEPT ![x].status = "expired"]
        /\ UNCHANGED <<setup, handoff, state>>
     \/ /\ x \in Handoffs /\ handoff[x].status = "active"
        /\ handoff' = [handoff EXCEPT ![x].status = "expired"]
        /\ UNCHANGED <<setup, link, state>>
     \/ /\ x \in States /\ state[x] = "active"
        /\ state' = [state EXCEPT ![x] = "expired"]
        /\ UNCHANGED <<setup, link, handoff>>
  /\ UNCHANGED <<required, account, session, call>>

Next ==
  \/ \E u \in Users, x \in Setups, k \in Secrets : StartLoginSetup(u, x, k)
  \/ \E u \in Users, s \in Sessions : PasswordLogin(u, s)
  \/ \E c \in Calls, x \in Setups : ReadSetup(c, x)
  \/ \E c \in Calls, s \in Sessions : ConfirmPassword2FALoginSetup(c, s)
  \/ \E c \in Calls, s \in Sessions : Authenticate(c, s)
  \/ \E c \in Calls : Logout(c) \/ ConfirmPassword2FA(c) \/ DisablePassword2FA(c) \/ Answer(c)
  \/ \E c \in Calls, k \in Secrets : SetupPassword2FA(c, k)
  \/ \E u \in Users, l \in Links : AdminCreatePasswordResetLink(u, l)
  \/ \E c \in Calls, l \in Links : ReadLink(c, l)
  \/ \E c \in Calls : CompletePasswordReset(c)
  \/ \E u \in Users : AdminResetPassword2FA(u) \/ SetStatus(u)
  \/ \E o \in States : StartOIDCLogin(o)
  \/ \E c \in Calls, o \in States, u \in Users : ConsumeOIDCState(c, o, u)
  \/ \E c \in Calls, h \in Handoffs : CompleteOIDCCallback(c, h) \/ ReadHandoff(c, h)
  \/ \E c \in Calls, s \in Sessions : ExchangeOIDCHandoff(c, s)
  \/ \E x \in Setups \cup Links \cup Handoffs \cup States : Expire(x)

Spec == Init /\ [][Next]_vars

-----------------------------------------------------------------------------
TypeOK ==
  /\ required \in BOOLEAN
  /\ account \in [Users -> AccountRows] /\ session \in [Sessions -> SessionRows]
  /\ setup \in [Setups -> SetupRows] /\ state \in [States -> Statuses]
  /\ handoff \in [Handoffs -> HandoffRows] /\ link \in [Links -> LinkRows]
  /\ call \in [Calls -> CallRows]

\* After a reset of the password or of the second factor nothing obtained with
\* the old credentials gives access: no session, no half-done login setup and
\* no handoff, whatever requests were under way.
ResetEndsAccess ==
  \A row \in {session[s] : s \in Sessions} \cup {setup[x] : x \in Setups}
             \cup {handoff[h] : h \in Handoffs} :
    row.status = "active" => row.resets = account[row.user].resets

\* A setup token or a handoff is worth one session, however often and however
\* concurrently it is presented.
SpentOnce ==
  \A s1, s2 \in Sessions :
    s1 # s2 /\ session[s1].via = session[s2].via => session[s1].via \in {None, "password"}

\* Where the second factor is required, a password alone never opens a
\* session: the account has a secret when the session begins, and it is the
\* one the setup showed when the session was paid for with a setup.
FactorAtLogin ==
  [][\A s \in Sessions : session[s].status = "none" /\ session'[s].status = "active" =>
       LET u == session'[s].user
           v == session'[s].via IN
       /\ account[u].active
       /\ required /\ v \notin Handoffs => account'[u].enabled /\ account'[u].secret # None
       /\ v \in Setups => account'[u].secret = setup[v].secret]_vars

\* A reset link changes the password once: what it authorised is never undone
\* or repeated by a second submission, and a link that was replaced by a newer
\* one never works.
LinkWorksOnce ==
  [][\A l \in Links : link[l].status \notin {"none", "active"} =>
       /\ link'[l] = link[l]
       /\ \A c \in Calls : call[c].row = l /\ call'[c] = IdleCall => account' = account]_vars

\* The rows of logins keep their types, and what is spent is spent once.
LoginsInv == TypeOK /\ SpentOnce
=============================================================================
