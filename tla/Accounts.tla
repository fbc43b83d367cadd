------------------------------ MODULE Accounts ------------------------------
(***************************************************************************)
(* The accounts of internal/users: the first administrator, the accounts   *)
(* that an administrator creates or changes, and the invites by which a    *)
(* person creates one.  An invite is read without a lock at the start of a *)
(* request; the account is inserted, under the unique e-mail address, and  *)
(* the invite is consumed later, by statements of one transaction.         *)
(***************************************************************************)
EXTENDS Naturals, FiniteSets, FiniteSetsExt

CONSTANTS Emails, Invites,
          Attempts,        \* sign-ups: each has its password, its account id and its secret
          Calls,           \* requests the server runs at the same time
          TwoFARequired,   \* auth.password.two_factor_required
          None

ASSUME AccountsAssumption == TwoFARequired \in BOOLEAN /\ None \notin Emails \cup Invites \cup Attempts

VARIABLES user, invite, call, attempts

accountVars == <<user, invite, call, attempts>>

GlobalRoles == {"user", "admin"}

\* id, password and secret are those of a sign-up, None for an account that an
\* administrator or the bootstrap command made; from is the invite that made
\* the account: history only.
UserRows == [status: {"none", "active", "disabled"}, role: GlobalRoles,
             id: Attempts \cup {None}, password: Attempts \cup {None},
             secret: Attempts \cup {None}, from: SUBSET Invites]
NoUser == [status |-> "none", role |-> "user", id |-> None, password |-> None, secret |-> None, from |-> {}]

InviteRows == [status: {"none", "active", "consumed"}, email: Emails \cup {None}, role: GlobalRoles,
               pending: Attempts \cup {None}, expired: BOOLEAN]
NoInvite == [status |-> "none", email |-> None, role |-> "user", pending |-> None, expired |-> FALSE]

\* row is the invite as it was read, account the row that was inserted and is
\* not committed yet.
CallRows == [pc: {"idle", "invite", "signup", "insert", "consume", "bootstrap", "update"},
             email: Emails \cup {None}, invite: Invites \cup {None}, row: InviteRows,
             account: UserRows, attempt: Attempts \cup {None}]
IdleCall == [pc |-> "idle", email |-> None, invite |-> None, row |-> NoInvite,
             account |-> NoUser, attempt |-> None]

AccountsInit ==
  /\ user = [e \in Emails |-> NoUser]
  /\ invite = [i \in Invites |-> NoInvite]
  /\ call = [c \in Calls |-> IdleCall]
  /\ attempts = {}

Begins(c, rec) == call[c].pc = "idle" /\ call' = [call EXCEPT ![c] = rec]
Ends(c) == call' = [call EXCEPT ![c] = IdleCall]
Refused(c) == Ends(c) /\ UNCHANGED <<user, invite, attempts>>

\* A password, an id and a secret that nobody had before.
Fresh == CHOOSE a \in Attempts \ attempts : TRUE
Draws == Attempts \ attempts # {} /\ attempts' = attempts \cup {Fresh}

Admins == {e \in Emails : user[e].status = "active" /\ user[e].role = "admin"}
Readable(i) == invite[i].status = "active" /\ ~invite[i].expired

\* An insertion waits for another one of the same e-mail address to commit.
EmailFree(others, e) == \A d \in others : ~(call[d].pc = "consume" /\ call[d].row.email = e)

UniqueEmail(e) == user[e].status = "none"

Account(role, password, secret) ==
  [status |-> "active", role |-> role, id |-> password, password |-> password,
   secret |-> secret, from |-> {}]

(* The first administrator *)

\* The command can be told to allow an administrator beside the ones there are.
bootstrapCreateAdmin(c, e, allowExistingAdmin) ==
  /\ allowExistingAdmin \/ Admins = {}
  /\ Begins(c, [IdleCall EXCEPT !.pc = "bootstrap", !.email = e])
  /\ UNCHANGED <<user, invite, attempts>>

BootstrapInserts(c) ==
  LET e == call[c].email IN
  /\ call[c].pc = "bootstrap"
  /\ EmailFree(Calls \ {c}, e)
  /\ IF UniqueEmail(e)
     THEN user' = [user EXCEPT ![e] = Account("admin", None, None)] /\ Ends(c) /\ UNCHANGED <<invite, attempts>>
     ELSE Refused(c)

(* Accounts that an administrator creates or changes *)

createUser(e, role, status) ==
  /\ UniqueEmail(e) /\ EmailFree(Calls, e)
  /\ user' = [user EXCEPT ![e] = [Account(role, None, None) EXCEPT !.status = status]]
  /\ UNCHANGED <<invite, call, attempts>>

updateUser(e, role, status) ==
  /\ user[e].status # "none"
  /\ user' = [user EXCEPT ![e].role = role, ![e].status = status]
  /\ UNCHANGED <<invite, call, attempts>>

(* Invites *)

\* Looked up without a lock: two requests can pass for one address.
createUserInvite(c, e, role) ==
  /\ user[e].status # "active"
  /\ \A i \in Invites : invite[i].email = e => ~Readable(i)
  /\ Begins(c, [IdleCall EXCEPT !.pc = "invite", !.email = e, !.row.role = role])
  /\ UNCHANGED <<user, invite, attempts>>

CreateInvite(c) ==
  /\ call[c].pc = "invite"
  /\ \E i \in Invites :
       /\ invite[i].status = "none"
       /\ invite' = [invite EXCEPT ![i] = [NoInvite EXCEPT !.status = "active", !.email = call[c].email,
                                                           !.role = call[c].row.role]]
  /\ Ends(c)
  /\ UNCHANGED <<user, attempts>>
NoInviteLeft(c) == call[c].pc = "invite" /\ (\A i \in Invites : invite[i].status # "none") /\ Refused(c)

InviteExpires(i) ==
  /\ Readable(i)
  /\ invite' = [invite EXCEPT ![i].expired = TRUE]
  /\ UNCHANGED <<user, call, attempts>>

(* Signing up with an invite *)

signupUserInvite(c, i) ==
  /\ Readable(i)
  /\ Draws
  /\ Begins(c, [IdleCall EXCEPT !.pc = IF TwoFARequired THEN "signup" ELSE "insert", !.invite = i,
                                !.row = invite[i], !.attempt = Fresh,
                                !.account = Account(invite[i].role, Fresh, None)])
  /\ UNCHANGED <<user, invite>>

\* A later sign-up replaces the one that was not confirmed.
SetInvitePendingSignup(c) ==
  /\ call[c].pc = "signup"
  /\ invite' = IF Readable(call[c].invite) THEN [invite EXCEPT ![call[c].invite].pending = call[c].attempt]
               ELSE invite
  /\ Ends(c)
  /\ UNCHANGED <<user, attempts>>

\* The code is right for the secret of the sign-up that was read.
confirmUserInvite2FA(c, i) ==
  /\ Readable(i)
  /\ invite[i].pending # None
  /\ Begins(c, [IdleCall EXCEPT !.pc = "insert", !.invite = i, !.row = invite[i],
                                !.account = Account(invite[i].role, invite[i].pending, invite[i].pending)])
  /\ UNCHANGED <<user, invite, attempts>>

\* Mutant: the invite is consumed first, and an insertion that is refused does not
\* take that back.
ConsumeFirst(c) ==
  LET e == call[c].row.email IN
  /\ call[c].pc = "insert"
  /\ EmailFree(Calls \ {c}, e)
  /\ IF UniqueEmail(e)
     THEN call' = [call EXCEPT ![c].pc = "consume"] /\ UNCHANGED <<user, invite, attempts>>
     ELSE /\ invite' = [invite EXCEPT ![call[c].invite].status = "consumed"]
          /\ Ends(c)
          /\ UNCHANGED <<user, attempts>>
\* The account is inserted, and not seen before the invite is consumed.
CreateInvitedUser(c) ==
  LET e == call[c].row.email IN
  /\ call[c].pc = "insert"
  /\ EmailFree(Calls \ {c}, e)
  /\ IF UniqueEmail(e)
     THEN call' = [call EXCEPT ![c].pc = "consume"] /\ UNCHANGED <<user, invite, attempts>>
     ELSE Refused(c)

Consumable(i) == Readable(i)

ConsumedRow(i) == [invite[i] EXCEPT !.status = "consumed", !.pending = None]

ConsumeInvite(c) ==
  LET i == call[c].invite IN
  /\ call[c].pc = "consume"
  /\ IF Consumable(i)
     THEN /\ invite' = [invite EXCEPT ![i] = ConsumedRow(i)]
          /\ user' = [user EXCEPT ![call[c].row.email] = [call[c].account EXCEPT !.from = {i}]]
          /\ Ends(c)
          /\ UNCHANGED attempts
     ELSE Refused(c)

(* The endpoints and the command *)

Authenticated == Admins # {}

CreateUser(e) ==
  Authenticated /\ \E r \in GlobalRoles, s \in {"active", "disabled"} : createUser(e, r, s)
handlePatchUser(e) ==
  Authenticated /\ \E r \in GlobalRoles, s \in {"active", "disabled"} : updateUser(e, r, s)
handleCreateUser(c) ==
  Authenticated /\ \E e \in Emails, r \in GlobalRoles : createUserInvite(c, e, r)
handleSignupUserInvite(c) == \E i \in Invites : signupUserInvite(c, i)
handleConfirmUserInvite2FA(c) == \E i \in Invites : confirmUserInvite2FA(c, i)
runBootstrapAdmin(c) ==
  \E e \in Emails, allowExistingAdmin \in BOOLEAN : bootstrapCreateAdmin(c, e, allowExistingAdmin)

AccountCalls(c) ==
  \/ runBootstrapAdmin(c) \/ handleCreateUser(c)
  \/ handleSignupUserInvite(c) \/ handleConfirmUserInvite2FA(c)
  \/ BootstrapInserts(c) \/ CreateInvite(c) \/ NoInviteLeft(c)
  \/ SetInvitePendingSignup(c) \/ CreateInvitedUser(c) \/ ConsumeInvite(c)

AccountsNext ==
  \/ \E c \in Calls : AccountCalls(c)
  \/ \E e \in Emails : CreateUser(e) \/ handlePatchUser(e)
  \/ \E i \in Invites : InviteExpires(i)

AccountsSpec == AccountsInit /\ [][AccountsNext]_accountVars

(* Properties *)

\* Every account, invite and request is one that the schema and the service know.
TypeOK ==
  /\ user \in [Emails -> UserRows]
  /\ invite \in [Invites -> InviteRows]
  /\ call \in [Calls -> CallRows]
  /\ attempts \subseteq Attempts

\* An invite makes one account, and is consumed exactly when it has: two people
\* who sign up with it, or confirm it at the same time, do not both get one,
\* and an account that could not be inserted does not cost the invite.
InviteMakesOneAccount ==
  \A i \in Invites :
    Cardinality({e \in Emails : i \in user[e].from}) = IF invite[i].status = "consumed" THEN 1 ELSE 0

\* The id, the password and the secret of an invited account are those of one
\* sign-up, although a second one may replace the first on the invite while the
\* first is confirmed: the secret can only be opened with the id it was sealed for.
AccountOfOneAttempt ==
  \A e \in Emails : user[e].from # {} =>
    /\ user[e].id = user[e].password
    /\ TwoFARequired => user[e].secret = user[e].id

\* What a sign-up leaves behind, whatever crosses it.
AccountsInv == TypeOK /\ InviteMakesOneAccount /\ AccountOfOneAttempt
=============================================================================
