------------------------ MODULE AdministrationProofs ------------------------
(***************************************************************************)
(* Proofs about Administration: first its accounts, for any number of      *)
(* addresses, invites, sign-ups and concurrent requests, then its          *)
(* applications, for any number of rows, labels and concurrent requests.   *)
(***************************************************************************)
EXTENDS Administration, FiniteSetTheorems, TLAPS

\* An invite that was made is somebody's.
InvitesAddressed == \A i \in Invites : invite[i].status # "none" => invite[i].email \in Emails

\* A request has read what its next statement relies on, and an account that is
\* inserted has nothing of its address before it.
Prepared(c) ==
  /\ call[c].pc \in {"signup", "insert", "consume"} => call[c].invite \in Invites
  /\ call[c].pc \in {"invite", "bootstrap"} => call[c].email \in Emails
  /\ call[c].pc \in {"insert", "consume"} =>
       /\ call[c].row.email \in Emails
       /\ call[c].account.status = "active" /\ call[c].account.id = call[c].account.password
       /\ TwoFARequired => call[c].account.secret = call[c].account.id
  /\ call[c].pc = "consume" => user[call[c].row.email].status = "none"

\* The unique address holds back all but one insertion.
OneInsertion ==
  \A c \in Calls : call[c].pc = "consume" => EmailFree(Calls \ {c}, call[c].row.email)

\* A consumed invite is the origin of one account, another of none.
OneOrigin ==
  /\ \A e \in Emails, f \in Emails : user[e].from \cap user[f].from # {} => e = f
  /\ \A i \in Invites : invite[i].status = "consumed" <=> \E e \in Emails : i \in user[e].from
  /\ \A e \in Emails : user[e].status = "none" => user[e].from = {}

RequestsInv ==
  /\ TypeOK
  /\ InvitesAddressed
  /\ \A c \in Calls : Prepared(c)
  /\ OneInsertion

SignupsInv == RequestsInv /\ OneOrigin /\ AccountOfOneAttempt

-----------------------------------------------------------------------------
\* One account, or none, is what the count says.
LEMMA OriginCounts == ASSUME OneOrigin PROVE InviteMakesOneAccount
<1> SUFFICES ASSUME NEW i \in Invites
             PROVE  Cardinality({e \in Emails : i \in user[e].from}) = IF invite[i].status = "consumed" THEN 1 ELSE 0
  BY DEF InviteMakesOneAccount
<1>1. CASE invite[i].status = "consumed"
  <2>1. PICK e \in Emails : i \in user[e].from
    BY <1>1 DEF OneOrigin
  <2>2. {f \in Emails : i \in user[f].from} = {e}
    BY <2>1 DEF OneOrigin
  <2> QED
    BY <1>1, <2>2, FS_Singleton
<1>2. CASE invite[i].status # "consumed"
  <2>1. {e \in Emails : i \in user[e].from} = {}
    BY <1>2 DEF OneOrigin
  <2> QED
    BY <1>2, <2>1, FS_EmptySet
<1> QED
  BY <1>1, <1>2

LEMMA NoUserOk == NoUser \in UserRows
BY DEF NoUser, UserRows, GlobalRoles

LEMMA AccountOk ==
  ASSUME NEW given \in GlobalRoles, NEW a \in Attempts \cup {None}, NEW s \in Attempts \cup {None}
  PROVE  /\ Account(given, a, s) \in UserRows
         /\ Account(given, a, s).status = "active" /\ Account(given, a, s).from = {}
         /\ Account(given, a, s).id = a /\ Account(given, a, s).password = a
         /\ Account(given, a, s).secret = s
BY DEF Account, UserRows

LEMMA NoInviteOk == NoInvite \in InviteRows
BY DEF NoInvite, InviteRows, GlobalRoles

LEMMA IdleOk == IdleCall \in CallRows /\ IdleCall.pc = "idle"
BY NoUserOk, NoInviteOk DEF IdleCall, CallRows

\* There is nobody, and nothing under way, at first.
LEMMA InitHolds == AccountsInit => SignupsInv
<1> SUFFICES ASSUME AccountsInit
             PROVE  SignupsInv
  OBVIOUS
<1> USE DEF AccountsInit
<1>1. TypeOK
  BY NoUserOk, NoInviteOk, IdleOk DEF TypeOK
<1>2. InvitesAddressed
  BY DEF InvitesAddressed, NoInvite
<1>3. (\A c \in Calls : Prepared(c)) /\ OneInsertion
  BY IdleOk DEF Prepared, OneInsertion
<1>4. OneOrigin /\ AccountOfOneAttempt
  BY DEF OneOrigin, AccountOfOneAttempt, NoUser, NoInvite
<1> QED
  BY <1>1, <1>2, <1>3, <1>4 DEF RequestsInv, SignupsInv

-----------------------------------------------------------------------------
\* What holds of the accounts is untouched by a step that touches neither them
\* nor which invites are consumed.
LEMMA OriginsKept ==
  ASSUME OneOrigin, AccountOfOneAttempt, UNCHANGED user,
         \A i \in Invites : invite'[i].status = "consumed" <=> invite[i].status = "consumed"
  PROVE  OneOrigin' /\ AccountOfOneAttempt'
BY DEF OneOrigin, AccountOfOneAttempt

\* A request moves on without having inserted anything.
LEMMA RequestMoves ==
  ASSUME RequestsInv, NEW c \in Calls, NEW rec \in CallRows, rec.pc # "consume",
         UNCHANGED user, call' = [call EXCEPT ![c] = rec],
         invite' \in [Invites -> InviteRows], InvitesAddressed', attempts' \subseteq Attempts,
         Prepared(c)'
  PROVE  RequestsInv'
<1> USE DEF RequestsInv
<1>1. TypeOK'
  BY DEF TypeOK
<1>2. call'[c] = rec /\ \A d \in Calls \ {c} : call'[d] = call[d]
  BY DEF TypeOK
<1>3. ASSUME NEW d \in Calls, d # c
      PROVE  Prepared(d)'
  BY <1>2, <1>3 DEF Prepared
<1>4. OneInsertion'
  BY <1>2 DEF OneInsertion, EmailFree
<1> QED
  BY <1>1, <1>3, <1>4

\* A request that ends has nothing left to rely on.
LEMMA RequestEnds ==
  ASSUME SignupsInv, NEW c \in Calls, Ends(c), UNCHANGED user,
         invite' \in [Invites -> InviteRows], InvitesAddressed', attempts' \subseteq Attempts,
         \A i \in Invites : invite'[i].status = "consumed" <=> invite[i].status = "consumed"
  PROVE  SignupsInv'
<1> USE DEF SignupsInv
<1>1. call'[c] = IdleCall
  BY DEF Ends, RequestsInv, TypeOK
<1>2. Prepared(c)'
  BY <1>1, IdleOk DEF Prepared
<1>3. RequestsInv'
  BY <1>2, IdleOk, RequestMoves DEF Ends
<1> QED
  BY <1>3, OriginsKept

LEMMA RefusedStep ==
  ASSUME SignupsInv, NEW c \in Calls, Refused(c)
  PROVE  SignupsInv'
<1>1. Ends(c) /\ UNCHANGED <<user, invite, attempts>>
  BY DEF Refused
<1>2. /\ invite' \in [Invites -> InviteRows] /\ InvitesAddressed' /\ attempts' \subseteq Attempts
  BY <1>1 DEF SignupsInv, RequestsInv, TypeOK, InvitesAddressed
<1> QED
  BY <1>1, <1>2, RequestEnds

\* A request that begins changes no row.
LEMMA BeginsStep ==
  ASSUME SignupsInv, NEW c \in Calls, NEW rec \in CallRows, Begins(c, rec), rec.pc # "consume",
         UNCHANGED <<user, invite>>, attempts' \subseteq Attempts, Prepared(c)'
  PROVE  SignupsInv'
<1> USE DEF SignupsInv
<1>1. invite' \in [Invites -> InviteRows] /\ InvitesAddressed'
  BY DEF RequestsInv, TypeOK, InvitesAddressed
<1>2. RequestsInv'
  BY <1>1, RequestMoves DEF Begins
<1> QED
  BY <1>2, OriginsKept

\* An account without an origin takes a free address, or one is changed.
LEMMA AccountWritten ==
  ASSUME SignupsInv, NEW e \in Emails, NEW row \in UserRows,
         user' = [user EXCEPT ![e] = row], UNCHANGED <<invite, attempts>>,
         row.status # "none", row.from = user[e].from,
         row.from # {} => /\ row.id = user[e].id /\ row.password = user[e].password
                          /\ row.secret = user[e].secret
  PROVE  /\ user' \in [Emails -> UserRows]
         /\ OneOrigin' /\ AccountOfOneAttempt'
         /\ \A f \in Emails \ {e} : user'[f] = user[f]
<1> USE DEF SignupsInv
<1>1. user' \in [Emails -> UserRows]
  BY DEF RequestsInv, TypeOK
<1>2. user'[e] = row /\ \A f \in Emails \ {e} : user'[f] = user[f]
  BY DEF RequestsInv, TypeOK
<1>3. \A f \in Emails : user'[f].from = user[f].from
  BY <1>2
<1>4. OneOrigin'
  BY <1>2, <1>3 DEF OneOrigin
<1>5. AccountOfOneAttempt'
  BY <1>2 DEF AccountOfOneAttempt
<1> QED
  BY <1>1, <1>2, <1>4, <1>5

-----------------------------------------------------------------------------
\* The first administrator.
LEMMA BootstrapStep ==
  ASSUME SignupsInv, NEW c \in Calls, runBootstrapAdmin(c) \/ BootstrapInserts(c)
  PROVE  SignupsInv'
<1> USE DEF SignupsInv
<1>1. ASSUME NEW e \in Emails, NEW allow \in BOOLEAN, bootstrapCreateAdmin(c, e, allow)
      PROVE  SignupsInv'
  <2>1. PICK rec : rec = [IdleCall EXCEPT !.pc = "bootstrap", !.email = e]
    OBVIOUS
  <2>2. rec \in CallRows /\ rec.pc = "bootstrap" /\ rec.email = e
    BY <2>1, IdleOk DEF CallRows
  <2>3. Begins(c, rec) /\ UNCHANGED <<user, invite, attempts>>
    BY <1>1, <2>1 DEF bootstrapCreateAdmin
  <2>4. call'[c] = rec
    BY <2>3 DEF Begins, RequestsInv, TypeOK
  <2> QED
    BY <2>2, <2>3, <2>4, BeginsStep DEF Prepared, RequestsInv, TypeOK
<1>2. CASE BootstrapInserts(c) /\ ~UniqueEmail(call[c].email)
  BY <1>2, RefusedStep DEF BootstrapInserts
<1>3. CASE BootstrapInserts(c) /\ UniqueEmail(call[c].email)
  <2>1. PICK e \in Emails : e = call[c].email
    BY <1>3 DEF BootstrapInserts, RequestsInv, Prepared
  <2>2. PICK row : row = Account("admin", None, None)
    OBVIOUS
  <2>3. row \in UserRows /\ row.status = "active" /\ row.from = {}
    BY <2>2, AccountOk DEF GlobalRoles
  <2>4. /\ user' = [user EXCEPT ![e] = row] /\ Ends(c) /\ UNCHANGED <<invite, attempts>>
        /\ EmailFree(Calls \ {c}, e) /\ user[e].from = {}
    BY <1>3, <2>1, <2>2 DEF BootstrapInserts, UniqueEmail, OneOrigin
  <2>5. /\ user' \in [Emails -> UserRows] /\ OneOrigin' /\ AccountOfOneAttempt'
        /\ \A f \in Emails \ {e} : user'[f] = user[f]
    BY <2>3, <2>4, AccountWritten
  <2>6. call'[c] = IdleCall /\ \A d \in Calls \ {c} : call'[d] = call[d]
    BY <2>4 DEF Ends, RequestsInv, TypeOK
  <2>7. TypeOK' /\ InvitesAddressed'
    BY <2>4, <2>5, IdleOk DEF RequestsInv, TypeOK, InvitesAddressed, Ends
  <2>8. ASSUME NEW d \in Calls
        PROVE  Prepared(d)'
    BY <2>4, <2>5, <2>6, IdleOk DEF RequestsInv, Prepared, EmailFree
  <2>9. OneInsertion'
    BY <2>6, IdleOk DEF RequestsInv, OneInsertion, EmailFree
  <2> QED
    BY <2>5, <2>7, <2>8, <2>9 DEF RequestsInv
<1> QED
  BY <1>1, <1>2, <1>3 DEF runBootstrapAdmin, BootstrapInserts

\* What an administrator does to accounts.
LEMMA AdministratorStep ==
  ASSUME SignupsInv, NEW e \in Emails, CreateUser(e) \/ handlePatchUser(e)
  PROVE  SignupsInv'
<1> USE DEF SignupsInv
<1>1. PICK given \in GlobalRoles, status \in {"active", "disabled"} : createUser(e, given, status) \/ updateUser(e, given, status)
  BY DEF CreateUser, handlePatchUser
<1>2. PICK row : row = IF createUser(e, given, status)
                       THEN [Account(given, None, None) EXCEPT !.status = status]
                       ELSE [user[e] EXCEPT !.role = given, !.status = status]
  OBVIOUS
<1>3. /\ row \in UserRows /\ row.status # "none" /\ row.from = user[e].from
      /\ user' = [user EXCEPT ![e] = row]
      /\ row.from # {} => /\ row.id = user[e].id /\ row.password = user[e].password
                          /\ row.secret = user[e].secret
  <2>1. CASE createUser(e, given, status)
    BY <1>2, <2>1 DEF createUser, UniqueEmail, OneOrigin, Account, UserRows
  <2>2. CASE ~createUser(e, given, status)
    <3>1. updateUser(e, given, status) /\ user[e] \in UserRows
      BY <1>1, <2>2 DEF RequestsInv, TypeOK
    <3>2. row = [user[e] EXCEPT !.role = given, !.status = status]
      BY <1>2, <2>2
    <3>3. user' = [user EXCEPT ![e] = row]
      BY <3>1, <3>2 DEF updateUser, RequestsInv, TypeOK
    <3> QED
      BY <3>1, <3>2, <3>3 DEF UserRows
  <2> QED
    BY <2>1, <2>2
<1>4. UNCHANGED <<invite, call, attempts>>
  BY <1>1 DEF createUser, updateUser
<1>5. /\ user' \in [Emails -> UserRows] /\ OneOrigin' /\ AccountOfOneAttempt'
      /\ \A f \in Emails \ {e} : user'[f] = user[f]
  BY <1>3, <1>4, AccountWritten
<1>6. EmailFree(Calls, e)
  BY <1>1 DEF createUser, updateUser, RequestsInv, Prepared, EmailFree
<1>7. TypeOK' /\ InvitesAddressed' /\ OneInsertion'
  BY <1>4, <1>5 DEF RequestsInv, TypeOK, InvitesAddressed, OneInsertion, EmailFree
<1>8. ASSUME NEW d \in Calls
      PROVE  Prepared(d)'
  BY <1>4, <1>5, <1>6 DEF RequestsInv, Prepared, EmailFree
<1> QED
  BY <1>5, <1>7, <1>8 DEF RequestsInv

-----------------------------------------------------------------------------
\* Invites are made and run out; neither consumes one.
LEMMA InviteStep ==
  ASSUME SignupsInv, NEW c \in Calls, handleCreateUser(c) \/ CreateInvite(c) \/ NoInviteLeft(c)
  PROVE  SignupsInv'
<1> USE DEF SignupsInv
<1>1. ASSUME NEW e \in Emails, NEW given \in GlobalRoles, createUserInvite(c, e, given)
      PROVE  SignupsInv'
  <2>1. PICK rec : rec = [IdleCall EXCEPT !.pc = "invite", !.email = e, !.row.role = given]
    OBVIOUS
  <2>2. rec \in CallRows /\ rec.pc = "invite" /\ rec.email = e
    BY <2>1, IdleOk DEF CallRows, InviteRows
  <2>3. Begins(c, rec) /\ UNCHANGED <<user, invite, attempts>>
    BY <1>1, <2>1 DEF createUserInvite
  <2>4. call'[c] = rec
    BY <2>3 DEF Begins, RequestsInv, TypeOK
  <2> QED
    BY <2>2, <2>3, <2>4, BeginsStep DEF Prepared, RequestsInv, TypeOK
<1>2. CASE CreateInvite(c)
  <2>1. PICK i \in Invites :
          /\ invite[i].status = "none"
          /\ invite' = [invite EXCEPT ![i] = [NoInvite EXCEPT !.status = "active", !.email = call[c].email,
                                                             !.role = call[c].row.role]]
    BY <1>2 DEF CreateInvite
  <2>2. PICK row : row = [NoInvite EXCEPT !.status = "active", !.email = call[c].email, !.role = call[c].row.role]
    OBVIOUS
  <2>3. call[c].email \in Emails /\ call[c].row.role \in GlobalRoles
    BY <1>2 DEF CreateInvite, RequestsInv, Prepared, TypeOK, CallRows, InviteRows
  <2>4. row \in InviteRows /\ row.status = "active" /\ row.email \in Emails
    BY <2>2, <2>3, NoInviteOk DEF InviteRows
  <2>5. /\ invite' \in [Invites -> InviteRows]
        /\ invite'[i] = row /\ \A k \in Invites \ {i} : invite'[k] = invite[k]
    BY <2>1, <2>2, <2>4 DEF RequestsInv, TypeOK
  <2>6. InvitesAddressed'
    BY <2>4, <2>5 DEF RequestsInv, InvitesAddressed
  <2>7. \A k \in Invites : invite'[k].status = "consumed" <=> invite[k].status = "consumed"
    BY <2>1, <2>4, <2>5
  <2> QED
    BY <1>2, <2>5, <2>6, <2>7, RequestEnds DEF CreateInvite, RequestsInv, TypeOK
<1>3. CASE NoInviteLeft(c)
  BY <1>3, RefusedStep DEF NoInviteLeft
<1> QED
  BY <1>1, <1>2, <1>3 DEF handleCreateUser

LEMMA ExpiresStep ==
  ASSUME SignupsInv, NEW i \in Invites, InviteExpires(i)
  PROVE  SignupsInv'
<1> USE DEF SignupsInv
<1>1. /\ invite' \in [Invites -> InviteRows]
      /\ \A k \in Invites : invite'[k].status = invite[k].status /\ invite'[k].email = invite[k].email
  BY DEF InviteExpires, RequestsInv, TypeOK, InviteRows
<1>2. UNCHANGED <<user, call, attempts>>
  BY DEF InviteExpires
<1>3. TypeOK' /\ InvitesAddressed' /\ OneInsertion'
  BY <1>1, <1>2 DEF RequestsInv, TypeOK, InvitesAddressed, OneInsertion, EmailFree
<1>4. \A c \in Calls : Prepared(c)'
  BY <1>2 DEF RequestsInv, Prepared
<1> QED
  BY <1>1, <1>2, <1>3, <1>4, OriginsKept DEF RequestsInv

-----------------------------------------------------------------------------
\* Signing up with an invite.

LEMMA DrawnIsFresh == ASSUME TypeOK, Draws PROVE Fresh \in Attempts /\ attempts' \subseteq Attempts
BY DEF Draws, Fresh, TypeOK

LEMMA SignupStep ==
  ASSUME SignupsInv, NEW c \in Calls, NEW i \in Invites, signupUserInvite(c, i) \/ confirmUserInvite2FA(c, i)
  PROVE  SignupsInv'
<1> USE DEF SignupsInv
<1>1. invite[i] \in InviteRows /\ invite[i].email \in Emails /\ UNCHANGED <<user, invite>>
  BY DEF signupUserInvite, confirmUserInvite2FA, Readable, RequestsInv, TypeOK, InvitesAddressed
<1>2. ASSUME NEW rec \in CallRows, Begins(c, rec), attempts' \subseteq Attempts,
             rec.pc \in {"signup", "insert"}, rec.invite = i, rec.row = invite[i],
             rec.pc = "insert" => /\ rec.account.status = "active" /\ rec.account.id = rec.account.password
                                  /\ TwoFARequired => rec.account.secret = rec.account.id
      PROVE  SignupsInv'
  <2>1. call'[c] = rec
    BY <1>2 DEF Begins, RequestsInv, TypeOK
  <2>2. Prepared(c)'
    BY <1>1, <1>2, <2>1 DEF Prepared
  <2> QED
    BY <1>1, <1>2, <2>2, BeginsStep
<1>3. CASE signupUserInvite(c, i)
  <2>1. Fresh \in Attempts /\ attempts' \subseteq Attempts
    BY <1>3, DrawnIsFresh DEF signupUserInvite, RequestsInv
  <2>2. PICK account : account = Account(invite[i].role, Fresh, None)
    OBVIOUS
  <2>3. account \in UserRows /\ account.status = "active" /\ account.id = account.password
    BY <1>1, <2>1, <2>2, AccountOk DEF InviteRows
  <2>4. PICK rec : rec = [IdleCall EXCEPT !.pc = IF TwoFARequired THEN "signup" ELSE "insert", !.invite = i,
                                          !.row = invite[i], !.attempt = Fresh, !.account = account]
    OBVIOUS
  <2>5. /\ rec \in CallRows /\ rec.invite = i /\ rec.row = invite[i] /\ rec.account = account
        /\ rec.pc = IF TwoFARequired THEN "signup" ELSE "insert"
    BY <1>1, <2>1, <2>3, <2>4, IdleOk DEF CallRows
  <2>6. Begins(c, rec)
    BY <1>3, <2>2, <2>4 DEF signupUserInvite
  <2> QED
    BY <1>2, <2>1, <2>3, <2>5, <2>6
<1>4. CASE confirmUserInvite2FA(c, i)
  <2>1. invite[i].pending \in Attempts
    BY <1>1, <1>4 DEF confirmUserInvite2FA, InviteRows
  <2>2. PICK account : account = Account(invite[i].role, invite[i].pending, invite[i].pending)
    OBVIOUS
  <2>3. /\ account \in UserRows /\ account.status = "active"
        /\ account.id = account.password /\ account.secret = account.id
    BY <1>1, <2>1, <2>2, AccountOk DEF InviteRows
  <2>4. PICK rec : rec = [IdleCall EXCEPT !.pc = "insert", !.invite = i, !.row = invite[i], !.account = account]
    OBVIOUS
  <2>5. /\ rec \in CallRows /\ rec.invite = i /\ rec.row = invite[i] /\ rec.account = account
        /\ rec.pc = "insert"
    BY <1>1, <2>3, <2>4, IdleOk DEF CallRows
  <2>6. Begins(c, rec) /\ attempts' \subseteq Attempts
    BY <1>4, <2>2, <2>4 DEF confirmUserInvite2FA, RequestsInv, TypeOK
  <2> QED
    BY <1>2, <2>3, <2>5, <2>6
<1> QED
  BY <1>3, <1>4

\* The sign-up that waits for its confirmation is written on the invite.
LEMMA PendingStep ==
  ASSUME SignupsInv, NEW c \in Calls, SetInvitePendingSignup(c)
  PROVE  SignupsInv'
<1> USE DEF SignupsInv
<1>1. PICK i \in Invites : i = call[c].invite
  BY DEF SetInvitePendingSignup, RequestsInv, Prepared
<1>2. call[c].attempt \in Attempts \cup {None}
  BY DEF RequestsInv, TypeOK, CallRows
<1>3. /\ invite' \in [Invites -> InviteRows]
      /\ \A k \in Invites : invite'[k].status = invite[k].status /\ invite'[k].email = invite[k].email
  BY <1>1, <1>2 DEF SetInvitePendingSignup, RequestsInv, TypeOK, InviteRows
<1>4. InvitesAddressed'
  BY <1>3 DEF RequestsInv, InvitesAddressed
<1> QED
  BY <1>3, <1>4, RequestEnds DEF SetInvitePendingSignup, RequestsInv, TypeOK

\* The account is inserted under an address that is free and that no other
\* insertion has.
LEMMA InsertStep ==
  ASSUME SignupsInv, NEW c \in Calls, CreateInvitedUser(c)
  PROVE  SignupsInv'
<1> USE DEF SignupsInv
<1>1. CASE ~UniqueEmail(call[c].row.email)
  BY <1>1, RefusedStep DEF CreateInvitedUser
<1>2. CASE UniqueEmail(call[c].row.email)
  <2>1. /\ call' = [call EXCEPT ![c].pc = "consume"] /\ UNCHANGED <<user, invite, attempts>>
        /\ call[c].pc = "insert" /\ EmailFree(Calls \ {c}, call[c].row.email)
        /\ user[call[c].row.email].status = "none"
    BY <1>2 DEF CreateInvitedUser, UniqueEmail
  <2>2. PICK rec : rec = [call[c] EXCEPT !.pc = "consume"]
    OBVIOUS
  <2>3. /\ rec \in CallRows /\ rec.pc = "consume" /\ rec.invite = call[c].invite
        /\ rec.row = call[c].row /\ rec.account = call[c].account
    BY <2>2 DEF RequestsInv, TypeOK, CallRows
  <2>4. call'[c] = rec /\ (\A d \in Calls \ {c} : call'[d] = call[d]) /\ call' \in [Calls -> CallRows]
    BY <2>1, <2>2, <2>3 DEF RequestsInv, TypeOK
  <2>5. TypeOK' /\ InvitesAddressed'
    BY <2>1, <2>4 DEF RequestsInv, TypeOK, InvitesAddressed
  <2>6. ASSUME NEW d \in Calls
        PROVE  Prepared(d)'
    BY <2>1, <2>3, <2>4 DEF RequestsInv, Prepared
  <2>7. OneInsertion'
    BY <2>1, <2>3, <2>4 DEF RequestsInv, OneInsertion, EmailFree
  <2> QED
    BY <2>1, <2>5, <2>6, <2>7, OriginsKept DEF RequestsInv
<1> QED
  BY <1>1, <1>2

\* The invite becomes the origin of the account that its request inserted.
LEMMA ConsumeStep ==
  ASSUME SignupsInv, NEW c \in Calls, ConsumeInvite(c)
  PROVE  SignupsInv'
<1> USE DEF SignupsInv
<1>1. CASE ~Consumable(call[c].invite)
  BY <1>1, RefusedStep DEF ConsumeInvite
<1>2. CASE Consumable(call[c].invite)
  <2>1. PICK i \in Invites, e \in Emails : i = call[c].invite /\ e = call[c].row.email
    BY DEF ConsumeInvite, RequestsInv, Prepared
  <2>2. PICK row : row = [call[c].account EXCEPT !.from = {i}]
    OBVIOUS
  <2>3. /\ row \in UserRows /\ row.status = "active" /\ row.from = {i} /\ row.id = row.password
        /\ TwoFARequired => row.secret = row.id
    BY <2>2 DEF ConsumeInvite, RequestsInv, Prepared, TypeOK, CallRows, UserRows
  <2>4. /\ user' = [user EXCEPT ![e] = row] /\ invite' = [invite EXCEPT ![i] = ConsumedRow(i)]
        /\ Ends(c) /\ UNCHANGED attempts
    BY <1>2, <2>1, <2>2 DEF ConsumeInvite
  <2>5. /\ ConsumedRow(i) \in InviteRows /\ ConsumedRow(i).status = "consumed"
        /\ ConsumedRow(i).email = invite[i].email /\ invite[i].status = "active"
    BY <1>2, <2>1 DEF ConsumedRow, Consumable, Readable, RequestsInv, TypeOK, InviteRows
  <2>6. /\ user' \in [Emails -> UserRows]
        /\ user'[e] = row /\ \A f \in Emails \ {e} : user'[f] = user[f]
    BY <2>3, <2>4 DEF RequestsInv, TypeOK
  <2>7. /\ invite' \in [Invites -> InviteRows]
        /\ invite'[i] = ConsumedRow(i) /\ \A k \in Invites \ {i} : invite'[k] = invite[k]
    BY <2>4, <2>5 DEF RequestsInv, TypeOK
  <2>8. call'[c] = IdleCall /\ \A d \in Calls \ {c} : call'[d] = call[d]
    BY <2>4 DEF Ends, RequestsInv, TypeOK
  <2>9. user[e].from = {} /\ EmailFree(Calls \ {c}, e)
    BY <2>1 DEF ConsumeInvite, RequestsInv, Prepared, OneOrigin, OneInsertion
  <2>10. TypeOK' /\ InvitesAddressed'
    BY <2>4, <2>5, <2>6, <2>7, IdleOk DEF RequestsInv, TypeOK, InvitesAddressed, Ends
  <2>11. ASSUME NEW d \in Calls
         PROVE  Prepared(d)'
    BY <2>6, <2>8, <2>9, IdleOk DEF RequestsInv, Prepared, EmailFree
  <2>12. OneInsertion'
    BY <2>8, IdleOk DEF RequestsInv, OneInsertion, EmailFree
  <2>13. AccountOfOneAttempt'
    BY <2>3, <2>6 DEF AccountOfOneAttempt
  <2>14. OneOrigin'
    <3>1. \A f \in Emails : i \notin user[f].from
      BY <2>5 DEF OneOrigin
    <3>2. \A f \in Emails, g \in Emails : user'[f].from \cap user'[g].from # {} => f = g
      BY <2>3, <2>6, <3>1 DEF OneOrigin
    <3>3. \A k \in Invites : invite'[k].status = "consumed" <=> \E f \in Emails : k \in user'[f].from
      BY <2>3, <2>5, <2>6, <2>7, <2>9 DEF OneOrigin
    <3>4. \A f \in Emails : user'[f].status = "none" => user'[f].from = {}
      BY <2>3, <2>6 DEF OneOrigin
    <3> QED
      BY <3>2, <3>3, <3>4 DEF OneOrigin
  <2> QED
    BY <2>10, <2>11, <2>12, <2>13, <2>14 DEF RequestsInv
<1> QED
  BY <1>1, <1>2

-----------------------------------------------------------------------------
LEMMA NextHolds ==
  ASSUME SignupsInv, [AccountsNext]_accountVars
  PROVE  SignupsInv'
<1>1. ASSUME NEW c \in Calls, AccountCalls(c)
      PROVE  SignupsInv'
  <2>1. CASE runBootstrapAdmin(c) \/ BootstrapInserts(c)
    BY <2>1, BootstrapStep
  <2>2. CASE handleCreateUser(c) \/ CreateInvite(c) \/ NoInviteLeft(c)
    BY <2>2, InviteStep
  <2>3. CASE handleSignupUserInvite(c) \/ handleConfirmUserInvite2FA(c)
    BY <2>3, SignupStep DEF handleSignupUserInvite, handleConfirmUserInvite2FA
  <2>4. CASE SetInvitePendingSignup(c)
    BY <2>4, PendingStep
  <2>5. CASE CreateInvitedUser(c)
    BY <2>5, InsertStep
  <2>6. CASE ConsumeInvite(c)
    BY <2>6, ConsumeStep
  <2> QED
    BY <1>1, <2>1, <2>2, <2>3, <2>4, <2>5, <2>6 DEF AccountCalls
<1>2. ASSUME NEW e \in Emails, CreateUser(e) \/ handlePatchUser(e)
      PROVE  SignupsInv'
  BY <1>2, AdministratorStep
<1>3. ASSUME NEW i \in Invites, InviteExpires(i)
      PROVE  SignupsInv'
  BY <1>3, ExpiresStep
<1>4. CASE UNCHANGED accountVars
  BY <1>4 DEF SignupsInv, RequestsInv, TypeOK, InvitesAddressed, Prepared, OneInsertion, EmailFree,
              OneOrigin, AccountOfOneAttempt, accountVars
<1> QED
  BY <1>1, <1>2, <1>3, <1>4 DEF AccountsNext

\* What requests rely on, and what sign-ups leave behind, holds throughout.
THEOREM SignupsHold == AccountsSpec => []SignupsInv
BY InitHolds, NextHolds, PTL DEF AccountsSpec

-----------------------------------------------------------------------------
\* Applications.  The names of a certificate that scopes of an application,
\* present or deleted since, allow.
InScope(a, k) ==
  \A id \in Names[k] : \E s \in Scopes : scope[a][s] # "none" /\ Matches(Labels[s], id)

\* A request has the rows that its next statement writes, and the locks that
\* the statements before it took; none of them is about the server's own.
Formed(q) ==
  /\ q.pc # "idle" => q.app \in Apps
  /\ q.pc \notin {"idle", "lock"} => q.app \notin SystemApps
  /\ q.pc = "write" =>
       /\ q.op = "update" => q.arg \in {"active", "disabled"}
       /\ q.op \in {"rotate_token", "revoke_token"} => q.arg \in TokenRows
       /\ q.op \in {"create_scope", "delete_scope"} => q.arg \in Scopes
       /\ q.op \in {"put_grant", "delete_grant"} => q.arg \in Users
  /\ q.pc \in {"coverage", "upsert", "commit"} => q.arg \in Criteria
  /\ q.pc = "commit" => CertLock(q.app, q.arg) \in q.holds
  /\ q.pc \in {"certs", "count", "delete"} => AppLock(q.app) \in q.holds

\* What the locks are for: a certificate that is about to get work was allowed
\* to, and stays or has its application kept; once a deletion has locked the
\* certificates it knows every one of them, and no work is added after it counted.
Guarded(q) ==
  /\ q.pc = "upsert" /\ q.op = "ensure" => app[q.app] = "deleted" \/ InScope(q.app, q.arg)
  /\ q.pc = "commit" =>
       /\ InScope(q.app, q.arg)
       /\ ShareLock(q.app) \in q.holds \/ cert[q.app][q.arg].status # "none"
  /\ q.pc \in {"count", "delete"} =>
       \A k \in Criteria : cert[q.app][k].status # "none" => CertLock(q.app, k) \in q.holds
  /\ q.pc = "delete" => \A k \in Criteria : cert[q.app][k].work = {}

LocksExclude ==
  \A c, d \in Requests : c # d =>
    \A l \in request[c].holds, h \in request[d].holds : ~Conflict(l, h)

\* Work and material belong to a certificate.
WorkHasRow == \A a \in Apps, k \in Criteria : cert[a][k].status = "none" => cert[a][k] = NoCert

CallsInv ==
  /\ \A c \in Requests : Formed(request[c]) /\ Guarded(request[c])
  /\ LocksExclude

DeletionsInv == ApplicationsInv /\ CallsInv /\ WorkHasRow

-----------------------------------------------------------------------------
\* Scopes: what a scope covers, its labels match.
LEMMA CoveredMatches ==
  ASSUME NEW s \in Seq(STRING) \ {<<>>}, NEW id \in Seq(STRING) \ {<<>>},
         normalizedScopeCoversIdentifier(s, id)
  PROVE  Matches(s, id)
<1>1. CASE s = id
  BY <1>1 DEF Matches
<1>2. CASE /\ ~Wildcard(id) /\ Wildcard(s) /\ IsSuffix(Tail(s), id)
           /\ labelCount(id) = labelCount(Tail(s)) + 1
  <2> DEFINE T == Tail(s)
             N == Len(T)
  <2>1. /\ T \in Seq(STRING) /\ N \in Nat /\ Len(s) = N + 1 /\ Len(id) = N + 1
        /\ \A i \in 1..N : T[i] = s[i + 1]
    BY <1>2 DEF labelCount
  <2>2. s[1] = "*" /\ id[1] # "*"
    BY <1>2 DEF Wildcard
  <2> HIDE DEF T
  <2>3. IsPrefix(Reverse(T), Reverse(id))
    BY <1>2 DEF IsSuffix, T
  <2>4. /\ Reverse(T) = [i \in 1..N |-> T[(N - i) + 1]]
        /\ Reverse(id) = [i \in 1..(N + 1) |-> id[((N + 1) - i) + 1]]
    BY <2>1 DEF Reverse
  <2>5. /\ Reverse(T) \in Seq(STRING) /\ Len(Reverse(T)) = N
        /\ Reverse(id) \in Seq(STRING) /\ Len(Reverse(id)) = N + 1
    <3>1. \A i \in 1..N : T[(N - i) + 1] \in STRING
      BY <2>1
    <3>2. \A i \in 1..(N + 1) : id[((N + 1) - i) + 1] \in STRING
      BY <2>1
    <3> HIDE DEF N
    <3> QED
      BY <2>1, <2>4, <3>1, <3>2
  <2>6. SubSeq(Reverse(T), 1, N) = SubSeq(Reverse(id), 1, N)
    BY <2>3, <2>5 DEF IsPrefix
  <2> HIDE DEF N
  <2>7. \A i \in 1..N : Reverse(T)[i] = Reverse(id)[i]
    <3> TAKE i \in 1..N
    <3>1. SubSeq(Reverse(T), 1, N)[i] = Reverse(T)[i] /\ SubSeq(Reverse(id), 1, N)[i] = Reverse(id)[i]
      BY <2>1, <2>5
    <3> QED
      BY <2>6, <3>1
  <2>8. \A j \in 1..N : T[j] = id[j + 1]
    <3> TAKE j \in 1..N
    <3>1. (N - j) + 1 \in 1..N /\ (N - ((N - j) + 1)) + 1 = j /\ ((N + 1) - ((N - j) + 1)) + 1 = j + 1
      BY <2>1
    <3>2. Reverse(T)[(N - j) + 1] = T[j] /\ Reverse(id)[(N - j) + 1] = id[j + 1]
      BY <2>1, <2>4, <3>1
    <3> QED
      BY <2>7, <3>1, <3>2
  <2>9. \A i \in 1..(N + 1) : s[i] = id[i] \/ (s[i] = "*" /\ i = 1 /\ id[i] # "*")
    <3> TAKE i \in 1..(N + 1)
    <3>1. CASE i = 1
      BY <2>2, <3>1
    <3>2. CASE i # 1
      <4>1. i - 1 \in 1..N /\ (i - 1) + 1 = i
        BY <2>1, <3>2
      <4> QED
        BY <2>1, <2>8, <4>1
    <3> QED
      BY <3>1, <3>2
  <2> QED
    BY <2>1, <2>9 DEF Matches
<1> QED
  BY <1>1, <1>2 DEF normalizedScopeCoversIdentifier

\* A request that passed the check of the scopes asks for what they allow.
LEMMA CoverageInScope ==
  ASSUME NEW a \in Apps, NEW k \in Criteria,
         ScopesCoverIdentifiers(PresentScopes(a), Names[k])
  PROVE  InScope(a, k)
<1> SUFFICES ASSUME NEW id \in Names[k]
             PROVE  \E s \in Scopes : scope[a][s] # "none" /\ Matches(Labels[s], id)
  BY DEF InScope
<1>1. PICK s \in PresentScopes(a) : normalizedScopeCoversIdentifier(Labels[s], id)
  BY DEF ScopesCoverIdentifiers
<1>2. s \in Scopes /\ scope[a][s] = "present"
  BY <1>1 DEF PresentScopes
<1>3. Matches(Labels[s], id)
  BY <1>1, <1>2, CoveredMatches, LabelsAssumption
<1> QED
  BY <1>2, <1>3

-----------------------------------------------------------------------------
\* Locks, and steps of a request that write no row.
LEMMA ConflictsMeet == ASSUME NEW l, NEW h, Conflict(l, h) PROVE Conflict(h, l)
BY DEF Conflict

LEMMA LocksConflict ==
  ASSUME NEW a \in Apps
  PROVE  /\ AppLock(a) \in Locks /\ ShareLock(a) \in Locks
         /\ Conflict(AppLock(a), ShareLock(a)) /\ Conflict(AppLock(a), AppLock(a))
         /\ \A k \in Criteria : CertLock(a, k) \in Locks /\ Conflict(CertLock(a, k), CertLock(a, k))
BY DEF Conflict, AppLock, ShareLock, CertLock, Locks

LEMMA RequestMoved ==
  ASSUME DeletionsInv, NEW c \in Requests, NEW q \in RequestRows, Formed(q), Guarded(q),
         request' = [request EXCEPT ![c] = q], UNCHANGED <<app, role, scope, tok, cert>>,
         NEW locks, q.holds \subseteq request[c].holds \cup locks, Free(c, locks)
  PROVE  DeletionsInv'
<1> USE DEF DeletionsInv
<1>1. request \in [Requests -> RequestRows]
  BY DEF ApplicationsInv, ApplicationsTypeOK
<1>2. \A d \in Requests : request'[d] = IF d = c THEN q ELSE request[d]
  BY <1>1
<1>3. ApplicationsInv'
  <2>1. request' \in [Requests -> RequestRows]
    BY <1>1
  <2> QED
    BY <2>1 DEF ApplicationsInv, ApplicationsTypeOK, NamesWereInScope, SystemAppUntouched
<1>4. ASSUME NEW d \in Requests
      PROVE  (Formed(request[d]) /\ Guarded(request[d]))'
  <2>1. Formed(request'[d]) /\ Guarded(request'[d])
    BY <1>2 DEF CallsInv
  <2> QED
    BY <2>1 DEF Formed, Guarded, InScope
<1>5. LocksExclude'
  <2>1. \A d \in Requests \ {c} : \A l \in q.holds, h \in request[d].holds :
           ~Conflict(l, h) /\ ~Conflict(h, l)
    BY ConflictsMeet DEF CallsInv, LocksExclude, Free
  <2> QED
    BY <1>2, <2>1 DEF CallsInv, LocksExclude
<1>6. WorkHasRow'
  BY DEF WorkHasRow
<1> QED
  BY <1>3, <1>4, <1>5, <1>6 DEF CallsInv

LEMMA IdleIsFormed ==
  /\ IdleRequest \in RequestRows /\ Formed(IdleRequest) /\ Guarded(IdleRequest)
  /\ IdleRequest.holds = {} /\ IdleRequest.pc = "idle"
BY DEF IdleRequest, RequestRows, Roles, Formed, Guarded

LEMMA RejectedHolds ==
  ASSUME DeletionsInv, NEW c \in Requests, Rejected(c)
  PROVE  DeletionsInv'
<1>1. Free(c, {})
  BY DEF Free
<1> QED
  BY <1>1, IdleIsFormed, RequestMoved DEF Rejected, Answered

LEMMA MovesHolds ==
  ASSUME DeletionsInv, NEW c \in Requests, NEW pc \in {"upsert", "commit", "certs", "count", "delete"},
         NEW locks \in SUBSET Locks, Free(c, locks), Moves(c, pc, locks),
         UNCHANGED <<app, role, scope, tok, cert>>,
         \A q \in RequestRows :
           /\ q.pc = pc /\ q.op = request[c].op /\ q.app = request[c].app /\ q.arg = request[c].arg
           /\ q.holds = request[c].holds \cup locks
           => Formed(q) /\ Guarded(q)
  PROVE  DeletionsInv'
<1> DEFINE q == [request[c] EXCEPT !.pc = pc, !.holds = @ \cup locks]
<1>1. request[c] \in RequestRows
  BY DEF DeletionsInv, ApplicationsInv, ApplicationsTypeOK
<1>2. /\ q \in RequestRows /\ q.pc = pc /\ q.op = request[c].op /\ q.app = request[c].app
      /\ q.arg = request[c].arg /\ q.holds = request[c].holds \cup locks
  BY <1>1 DEF RequestRows
<1>3. request' = [request EXCEPT ![c] = q]
  BY DEF Moves
<1> HIDE DEF q
<1>4. Formed(q) /\ Guarded(q)
  BY <1>2
<1> QED
  BY <1>2, <1>3, <1>4, RequestMoved

LEMMA EntersHolds ==
  ASSUME DeletionsInv, NEW c \in Requests, NEW a \in Apps,
         NEW op \in {"update", "delete", "create_token", "rotate_token", "revoke_token",
                     "create_scope", "delete_scope", "put_grant", "delete_grant", "ensure", "start"},
         NEW pc \in {"write", "coverage", "upsert", "lock"},
         NEW arg \in {Nothing} \cup AppStatuses \cup TokenRows \cup Scopes \cup Users \cup Criteria,
         NEW r \in Roles, Enters(c, op, pc, a, arg, r),
         pc # "lock" => ~systemManaged(a),
         pc = "write" =>
           /\ op = "update" => arg \in {"active", "disabled"}
           /\ op \in {"rotate_token", "revoke_token"} => arg \in TokenRows
           /\ op \in {"create_scope", "delete_scope"} => arg \in Scopes
           /\ op \in {"put_grant", "delete_grant"} => arg \in Users,
         pc \in {"coverage", "upsert"} => arg \in Criteria,
         pc = "upsert" => op = "start"
  PROVE  DeletionsInv'
<1> DEFINE q == [pc |-> pc, op |-> op, app |-> a, arg |-> arg, role |-> r, holds |-> {}]
<1>1. q \in RequestRows
  BY DEF RequestRows
<1>2. /\ q.pc = pc /\ q.op = op /\ q.app = a /\ q.arg = arg /\ q.holds = {}
      /\ request' = [request EXCEPT ![c] = q] /\ UNCHANGED <<app, role, scope, tok, cert>>
  BY DEF Enters
<1> HIDE DEF q
<1>3. Formed(q) /\ Guarded(q)
  BY <1>2 DEF Formed, Guarded, systemManaged
<1>4. Free(c, {})
  BY DEF Free
<1> QED
  BY <1>1, <1>2, <1>3, <1>4, RequestMoved

\* The requests that the HTTP handlers let in.
LEMMA ServedHolds ==
  ASSUME DeletionsInv, NEW c \in Requests, serveCertificates(c) \/ serveApplications(c)
  PROVE  DeletionsInv' \/ \E u \in Actors, a \in Apps : handleCreateApplication(c, u, a)
<1> USE DEF Roles
<1>1. CASE serveCertificates(c)
  <2>1. ASSUME NEW k \in Criteria, NEW v \in Values, handleSyncCertificate(c, v, k)
        PROVE  DeletionsInv'
    <3>1. PICK a \in Apps : ~systemManaged(a) /\ Enters(c, "ensure", "coverage", a, k, "none")
      BY <2>1 DEF handleSyncCertificate, ValidateApplicationToken
    <3> QED
      BY <3>1, EntersHolds
  <2>2. ASSUME NEW k \in Criteria, NEW u \in Actors, NEW a \in Apps,
               handleCreateApplicationCertificate(c, u, a, k) \/ handleStartLifecycle(c, u, a, k)
        PROVE  DeletionsInv'
    BY <2>2, EntersHolds DEF handleCreateApplicationCertificate, handleStartLifecycle,
                             requireApplicationRole
  <2> QED
    BY <1>1, <2>1, <2>2 DEF serveCertificates
<1>2. ASSUME NEW u \in Actors, NEW a \in Apps,
             \/ handleDeleteApplication(c, u, a) \/ handleCreateApplicationToken(c, u, a)
             \/ \E s \in {"active", "disabled"} : handlePatchApplication(c, u, a, s)
      PROVE  DeletionsInv'
  BY <1>2, EntersHolds DEF handleDeleteApplication, handleCreateApplicationToken,
                           handlePatchApplication, requireMutableManager, AppStatuses
<1>3. ASSUME NEW u \in Actors, NEW a \in Apps, NEW t \in TokenRows,
             handleRotateApplicationToken(c, u, a, t) \/ handleRevokeApplicationToken(c, u, a, t)
      PROVE  DeletionsInv'
  BY <1>3, EntersHolds DEF handleRotateApplicationToken, handleRevokeApplicationToken,
                           requireMutableManager
<1>4. ASSUME NEW u \in Actors, NEW a \in Apps, NEW s \in Scopes,
             handleCreateDomainScope(c, u, a, s) \/ handleDeleteDomainScope(c, u, a, s)
      PROVE  DeletionsInv'
  BY <1>4, EntersHolds DEF handleCreateDomainScope, handleDeleteDomainScope, requireMutableManager
<1>5. ASSUME NEW u \in Actors, NEW a \in Apps, NEW v \in Users, NEW r \in GrantRoles,
             handlePutApplicationGrant(c, u, a, v, r)
      PROVE  DeletionsInv'
  BY <1>5, EntersHolds, GrantRolesAssumption DEF handlePutApplicationGrant, requireMutableManager
<1>6. ASSUME NEW u \in Actors, NEW a \in Apps, NEW v \in Users, handleDeleteApplicationGrant(c, u, a, v)
      PROVE  DeletionsInv'
  BY <1>6, EntersHolds DEF handleDeleteApplicationGrant, requireMutableManager
<1> QED
  BY <1>1, <1>2, <1>3, <1>4, <1>5, <1>6 DEF serveApplications

\* The checks and locks of a request.
LEMMA ChecksHold ==
  ASSUME DeletionsInv, NEW c \in Requests,
         requireDomainCoverage(c) \/ CreateOrReuse(c) \/ StartLifecycle(c)
  PROVE  DeletionsInv'
<1> DEFINE a == request[c].app
           k == request[c].arg
<1>1. /\ request[c] \in RequestRows /\ Formed(request[c]) /\ Guarded(request[c])
      /\ request[c].pc \in {"coverage", "upsert"}
  BY DEF DeletionsInv, CallsInv, ApplicationsInv, ApplicationsTypeOK, requireDomainCoverage,
         CreateOrReuse, StartLifecycle
<1>2. a \in Apps /\ a \notin SystemApps /\ k \in Criteria
  BY <1>1 DEF Formed
<1>3. cert[a][k].status # "none" => InScope(a, k)
  BY <1>2 DEF DeletionsInv, ApplicationsInv, NamesWereInScope, InScope
<1>4. Free(c, {})
  BY DEF Free
<1> HIDE DEF a, k
<1>5. ASSUME NEW pc \in {"upsert", "commit"}, NEW locks \in SUBSET Locks, Free(c, locks),
             Moves(c, pc, locks), UNCHANGED <<app, role, scope, tok, cert>>, InScope(a, k),
             pc = "commit" => CertLock(a, k) \in locks,
             pc = "commit" => ShareLock(a) \in locks \/ cert[a][k].status # "none"
      PROVE  DeletionsInv'
  <2>1. \A q \in RequestRows :
          /\ q.pc = pc /\ q.op = request[c].op /\ q.app = a /\ q.arg = k
          /\ q.holds = request[c].holds \cup locks
          => Formed(q) /\ Guarded(q)
    BY <1>2, <1>5 DEF Formed, Guarded
  <2> QED
    BY <1>5, <2>1, MovesHolds DEF a, k
<1>6. CASE requireDomainCoverage(c)
  <2>1. CASE ScopesCoverIdentifiers(PresentScopes(a), Names[k]) /\ Passes(c, "upsert")
    BY <1>2, <1>4, <1>5, <2>1, CoverageInScope DEF Passes
  <2> QED
    BY <1>6, <2>1, RejectedHolds DEF requireDomainCoverage, a, k
<1>7. CASE CreateOrReuse(c)
  <2> DEFINE locks == {CertLock(a, k)} \cup (IF cert[a][k].status = "none" THEN {ShareLock(a)} ELSE {})
  <2>1. CASE /\ Exists(a) /\ Free(c, locks) /\ Moves(c, "commit", locks)
             /\ UNCHANGED <<app, role, scope, tok, cert>>
    <3>1. locks \in SUBSET Locks
      BY <1>2, LocksConflict
    <3>2. InScope(a, k)
      BY <1>1, <1>7, <2>1 DEF CreateOrReuse, Guarded, Exists, a, k
    <3>3. CertLock(a, k) \in locks /\ (ShareLock(a) \in locks \/ cert[a][k].status # "none")
      OBVIOUS
    <3> HIDE DEF locks
    <3> QED
      BY <1>5, <2>1, <3>1, <3>2, <3>3
  <2> QED
    BY <1>7, <2>1, RejectedHolds DEF CreateOrReuse, a, k
<1>8. CASE StartLifecycle(c)
  <2>1. CASE /\ cert[a][k].status # "none" /\ Free(c, {CertLock(a, k)})
             /\ Moves(c, "commit", {CertLock(a, k)}) /\ UNCHANGED <<app, role, scope, tok, cert>>
    BY <1>2, <1>3, <1>5, <2>1, LocksConflict
  <2> QED
    BY <1>8, <2>1, RejectedHolds DEF StartLifecycle, a, k
<1> QED
  BY <1>6, <1>7, <1>8

LEMMA DeletionChecksHold ==
  ASSUME DeletionsInv, NEW c \in Requests,
         LockForDeletion(c) \/ LockCertificates(c) \/ CountBlockers(c)
  PROVE  DeletionsInv'
<1> DEFINE a == request[c].app
<1>1. /\ request[c] \in RequestRows /\ Formed(request[c]) /\ Guarded(request[c])
      /\ request[c].pc \in {"lock", "certs", "count"} /\ a \in Apps
  BY DEF DeletionsInv, CallsInv, ApplicationsInv, ApplicationsTypeOK, LockForDeletion,
         LockCertificates, CountBlockers, Formed
<1>2. ASSUME NEW pc \in {"certs", "count", "delete"}, NEW locks \in SUBSET Locks, Free(c, locks),
             Moves(c, pc, locks), UNCHANGED <<app, role, scope, tok, cert>>,
             a \notin SystemApps, AppLock(a) \in request[c].holds \cup locks,
             pc # "certs" => \A k \in Criteria : cert[a][k].status # "none" =>
                               CertLock(a, k) \in request[c].holds \cup locks,
             pc = "delete" => \A k \in Criteria : cert[a][k].work = {}
      PROVE  DeletionsInv'
  <2>1. \A q \in RequestRows :
          /\ q.pc = pc /\ q.op = request[c].op /\ q.app = a /\ q.arg = request[c].arg
          /\ q.holds = request[c].holds \cup locks
          => Formed(q) /\ Guarded(q)
    BY <1>1, <1>2 DEF Formed, Guarded
  <2> QED
    BY <1>2, <2>1, MovesHolds
<1>3. CASE LockForDeletion(c)
  <2>1. CASE /\ ~systemManaged(a) /\ Free(c, {AppLock(a)}) /\ Moves(c, "certs", {AppLock(a)})
             /\ UNCHANGED <<app, role, scope, tok, cert>>
    BY <1>1, <1>2, <2>1, LocksConflict DEF systemManaged
  <2> QED
    BY <1>3, <2>1, RejectedHolds DEF LockForDeletion
<1>4. CASE LockCertificates(c)
  <2>1. /\ Free(c, CertLocks(a)) /\ Moves(c, "count", CertLocks(a)) /\ request[c].pc = "certs"
        /\ UNCHANGED <<app, role, scope, tok, cert>>
    BY <1>4 DEF LockCertificates
  <2>2. CertLocks(a) \in SUBSET Locks
        /\ \A k \in Criteria : cert[a][k].status # "none" => CertLock(a, k) \in CertLocks(a)
    BY <1>1, LocksConflict DEF CertLocks
  <2> QED
    BY <1>1, <1>2, <2>1, <2>2 DEF Formed
<1>5. CASE CountBlockers(c)
  <2>1. CASE ~Blocked(a) /\ Passes(c, "delete")
    <3>1. \A k \in Criteria : cert[a][k].work = {}
      BY <2>1 DEF Blocked
    <3>2. request[c].pc = "count" /\ Free(c, {})
      BY <1>5 DEF CountBlockers, Free
    <3> QED
      BY <1>1, <1>2, <2>1, <3>1, <3>2 DEF Formed, Guarded, Passes
  <2> QED
    BY <1>5, <2>1, RejectedHolds DEF CountBlockers
<1> QED
  BY <1>3, <1>4, <1>5

-----------------------------------------------------------------------------
\* Writes.  A request that has written is over.
Over == /\ request' \in [Requests -> RequestRows]
        /\ \A d \in Requests : request'[d] = request[d] \/ request'[d] = IdleRequest

LEMMA AnsweredIsOver ==
  ASSUME DeletionsInv, NEW c \in Requests, Answered(c) \/ UNCHANGED request
  PROVE  Over
BY IdleIsFormed DEF Answered, Over, DeletionsInv, ApplicationsInv, ApplicationsTypeOK

\* Rows other than certificates: no scope is forgotten, nothing comes back.
LEMMA RowsWritten ==
  ASSUME DeletionsInv, Over, UNCHANGED cert,
         app' \in [Apps -> AppStatuses], role' \in [Apps -> [Users -> Roles]],
         scope' \in [Apps -> [Scopes -> ScopeStates]], tok' \in [TokenRows -> AppTokenRows],
         \A a \in Apps : app[a] = "deleted" => app'[a] = "deleted",
         \A a \in Apps, s \in Scopes : scope[a][s] # "none" => scope'[a][s] # "none",
         SystemAppUntouched'
  PROVE  DeletionsInv'
<1> USE DEF DeletionsInv
<1>1. \A a \in Apps, k \in Criteria : InScope(a, k) => InScope(a, k)'
  BY DEF InScope
<1>2. ApplicationsInv'
  <2>1. NamesWereInScope'
    BY DEF NamesWereInScope, ApplicationsInv
  <2> QED
    BY <2>1 DEF ApplicationsInv, ApplicationsTypeOK, Over
<1>3. ASSUME NEW d \in Requests
      PROVE  (Formed(request[d]) /\ Guarded(request[d]))'
  <2> DEFINE q == request[d]
  <2>1. CASE request'[d] = IdleRequest
    BY <2>1, IdleIsFormed DEF Formed, Guarded
  <2>2. CASE request'[d] = request[d]
    <3>1. Formed(q) /\ Guarded(q)
      BY DEF CallsInv
    <3>2. q.pc \in {"upsert", "commit"} => q.app \in Apps /\ q.arg \in Criteria
      BY <3>1 DEF Formed
    <3>3. q.pc \in {"upsert", "commit"} /\ InScope(q.app, q.arg) =>
            \A id \in Names[q.arg] : \E s \in Scopes :
               scope'[q.app][s] # "none" /\ Matches(Labels[s], id)
      BY <3>2 DEF InScope
    <3> QED
      BY <2>2, <3>1, <3>2, <3>3 DEF Formed, Guarded, InScope
  <2> QED
    BY <2>1, <2>2 DEF Over
<1>4. LocksExclude'
  BY IdleIsFormed DEF CallsInv, LocksExclude, Over
<1>5. WorkHasRow'
  BY DEF WorkHasRow
<1> QED
  BY <1>2, <1>3, <1>4, <1>5 DEF CallsInv

\* The deletions that lock the certificates of an application know this one.
Counted(calls, a, k, row) ==
  \A d \in Requests : calls[d].pc \in {"count", "delete"} /\ calls[d].app = a =>
    /\ CertLock(a, k) \in calls[d].holds
    /\ calls[d].pc = "delete" => row.work = {}

\* One certificate: its names were allowed, it does not go away, and no
\* deletion that has counted its work sees some more.
LEMMA CertificateWritten ==
  ASSUME DeletionsInv, Over, NEW a \in Apps, NEW k \in Criteria, NEW row \in CertRows,
         cert' = [cert EXCEPT ![a][k] = row], UNCHANGED <<app, role, scope, tok>>,
         row.status # "none", InScope(a, k), Counted(request', a, k, row)
  PROVE  DeletionsInv'
<1> USE DEF DeletionsInv
<1>1. cert' \in [Apps -> [Criteria -> CertRows]]
  BY DEF ApplicationsInv, ApplicationsTypeOK
<1>2. \A b \in Apps, j \in Criteria : cert'[b][j] = IF b = a /\ j = k THEN row ELSE cert[b][j]
  BY DEF ApplicationsInv, ApplicationsTypeOK
<1>3. ApplicationsInv'
  <2>1. NamesWereInScope'
    BY <1>2 DEF NamesWereInScope, ApplicationsInv, InScope
  <2> QED
    BY <1>1, <2>1 DEF ApplicationsInv, ApplicationsTypeOK, SystemAppUntouched, Over
<1>4. ASSUME NEW d \in Requests
      PROVE  (Formed(request[d]) /\ Guarded(request[d]))'
  <2> DEFINE q == request[d]
  <2>1. CASE request'[d] = IdleRequest
    BY <2>1, IdleIsFormed DEF Formed, Guarded
  <2>2. CASE request'[d] = request[d]
    <3>1. Formed(q) /\ Guarded(q)
      BY DEF CallsInv
    <3>2. /\ q.pc \in {"commit", "count", "delete"} => q.app \in Apps
          /\ q.pc = "commit" => q.arg \in Criteria
      BY <3>1 DEF Formed
    <3> QED
      BY <1>2, <2>2, <3>1, <3>2 DEF Formed, Guarded, InScope, Counted
  <2> QED
    BY <2>1, <2>2 DEF Over
<1>5. LocksExclude'
  BY IdleIsFormed DEF CallsInv, LocksExclude, Over
<1>6. WorkHasRow'
  BY <1>2 DEF WorkHasRow
<1> QED
  BY <1>3, <1>4, <1>5, <1>6 DEF CallsInv

\* The writes of rows that are not certificates.
LEMMA RowWritesHold ==
  ASSUME DeletionsInv, NEW c \in Requests,
         \/ updateApplication(c) \/ createToken(c) \/ rotateToken(c) \/ revokeToken(c)
         \/ createDomainScope(c) \/ deleteDomainScope(c) \/ upsertGrant(c) \/ deleteGrant(c)
  PROVE  DeletionsInv'
<1> DEFINE a == request[c].app
           x == request[c].arg
<1>1. /\ app \in [Apps -> AppStatuses] /\ role \in [Apps -> [Users -> Roles]]
      /\ scope \in [Apps -> [Scopes -> ScopeStates]] /\ tok \in [TokenRows -> AppTokenRows]
      /\ request[c] \in RequestRows /\ Formed(request[c]) /\ SystemAppUntouched
  BY DEF DeletionsInv, CallsInv, ApplicationsInv, ApplicationsTypeOK
<1>2. request[c].pc = "write" /\ UNCHANGED cert /\ Answered(c)
  BY DEF updateApplication, createToken, rotateToken, revokeToken, createDomainScope,
         deleteDomainScope, upsertGrant, deleteGrant, Write
<1>3. Over
  BY <1>2, AnsweredIsOver
<1>4. a \in Apps /\ a \notin SystemApps
  BY <1>1, <1>2 DEF Formed
<1>5. CASE updateApplication(c)
  <2>1. x \in {"active", "disabled"} /\ app' = Update(a, x) /\ UNCHANGED <<role, scope, tok>>
    BY <1>1, <1>2, <1>5 DEF updateApplication, Write, Formed
  <2>2. app' \in [Apps -> AppStatuses] /\ \A b \in Apps : app[b] = "deleted" => app'[b] = "deleted"
    BY <1>1, <1>4, <2>1 DEF Update, AppStatuses, Exists
  <2>3. SystemAppUntouched'
    BY <1>1, <1>4, <2>1, ApplicationsAssumption DEF SystemAppUntouched, Update
  <2> QED
    BY <1>1, <1>2, <1>3, <2>1, <2>2, <2>3, RowsWritten
<1>6. CASE createToken(c) \/ rotateToken(c) \/ revokeToken(c)
  <2>1. UNCHANGED <<app, role, scope>>
    BY <1>6 DEF createToken, rotateToken, revokeToken
  <2>2. UnusedValues # {} => randomApplicationToken \in Values
    BY DEF UnusedValues, randomApplicationToken
  <2>3. \/ UNCHANGED tok
        \/ \E t \in TokenRows, row \in AppTokenRows :
             tok' = [tok EXCEPT ![t] = row] /\ row.app \in {a, tok[t].app}
    <3>1. CASE createToken(c)
      <4>1. CASE UNCHANGED tok
        BY <4>1
      <4>2. CASE UnusedValues # {} /\ \E t \in UnusedTokens : tok' = CreateToken(t, a)
        <5>1. PICK t \in TokenRows : tok' = CreateToken(t, a)
          BY <4>2 DEF UnusedTokens
        <5> DEFINE row == [status |-> "active", app |-> a, value |-> randomApplicationToken,
                           expired |-> FALSE]
        <5>2. row \in AppTokenRows /\ row.app = a
          BY <1>4, <2>2, <4>2 DEF AppTokenRows
        <5> QED
          BY <5>1, <5>2 DEF CreateToken
      <4> QED
        BY <3>1, <4>1, <4>2 DEF createToken
    <3>2. CASE rotateToken(c) /\ ~UNCHANGED tok
      <4>1. x \in TokenRows /\ UnusedValues # {} /\ tok' = RotateToken(a, x)
        BY <1>1, <1>2, <3>2 DEF rotateToken, Write, Formed
      <4> DEFINE row == [tok[x] EXCEPT !.value = randomApplicationToken, !.expired = FALSE]
      <4>2. row \in AppTokenRows /\ row.app = tok[x].app
        BY <1>1, <2>2, <4>1 DEF AppTokenRows
      <4>3. tok' = [tok EXCEPT ![x] = row]
        BY <1>1, <3>2, <4>1 DEF RotateToken
      <4> HIDE DEF row
      <4> QED
        BY <4>1, <4>2, <4>3
    <3>3. CASE revokeToken(c) /\ ~UNCHANGED tok
      <4>1. x \in TokenRows /\ tok' = RevokeToken(a, x)
        BY <1>1, <1>2, <3>3 DEF revokeToken, Write, Formed
      <4> DEFINE row == [tok[x] EXCEPT !.status = "revoked"]
      <4>2. row \in AppTokenRows /\ row.app = tok[x].app
        BY <1>1, <4>1 DEF AppTokenRows
      <4>3. tok' = [tok EXCEPT ![x] = row]
        BY <3>3, <4>1 DEF RevokeToken
      <4> HIDE DEF row
      <4> QED
        BY <4>1, <4>2, <4>3
    <3> QED
      BY <1>6, <3>1, <3>2, <3>3
  <2>4. tok' \in [TokenRows -> AppTokenRows] /\ SystemAppUntouched'
    <3>1. CASE UNCHANGED tok
      BY <1>1, <2>1, <3>1 DEF SystemAppUntouched
    <3>2. ASSUME NEW t \in TokenRows, NEW row \in AppTokenRows,
                 tok' = [tok EXCEPT ![t] = row], row.app \in {a, tok[t].app}
          PROVE  tok' \in [TokenRows -> AppTokenRows] /\ SystemAppUntouched'
      <4>1. tok' \in [TokenRows -> AppTokenRows]
        BY <1>1, <3>2
      <4>2. \A u \in TokenRows : tok'[u].app \in {a, tok[u].app}
        BY <1>1, <3>2
      <4> QED
        BY <1>1, <1>4, <2>1, <4>1, <4>2 DEF SystemAppUntouched
    <3> QED
      BY <2>3, <3>1, <3>2
  <2> QED
    BY <1>1, <1>2, <1>3, <2>1, <2>4, RowsWritten
<1>7. CASE createDomainScope(c) \/ deleteDomainScope(c)
  <2>1. x \in Scopes /\ UNCHANGED <<app, role, tok>>
    BY <1>1, <1>2, <1>7 DEF createDomainScope, deleteDomainScope, Write, Formed
  <2>2. CASE UNCHANGED scope
    BY <1>1, <1>2, <1>3, <2>1, <2>2, RowsWritten DEF SystemAppUntouched
  <2>3. ASSUME NEW state \in {"present", "deleted"}, scope' = [scope EXCEPT ![a][x] = state]
        PROVE  DeletionsInv'
    <3>1. scope' \in [Apps -> [Scopes -> ScopeStates]]
      BY <1>1, <1>4, <2>1, <2>3 DEF ScopeStates
    <3>2. \A b \in Apps, s \in Scopes : scope'[b][s] = IF b = a /\ s = x THEN state ELSE scope[b][s]
      BY <1>1, <1>4, <2>1, <2>3
    <3>3. SystemAppUntouched'
      BY <1>1, <1>4, <2>1, <3>2, ApplicationsAssumption DEF SystemAppUntouched
    <3> HIDE DEF a, x
    <3> QED
      BY <1>1, <1>2, <1>3, <2>1, <3>1, <3>2, <3>3, RowsWritten
  <2>4. \/ UNCHANGED scope
        \/ \E state \in {"present", "deleted"} : scope' = [scope EXCEPT ![a][x] = state]
    BY <1>7 DEF createDomainScope, deleteDomainScope, AddDomainScope, DeleteDomainScope
  <2> QED
    BY <2>2, <2>3, <2>4
<1>8. CASE upsertGrant(c) \/ deleteGrant(c)
  <2>1. x \in Users /\ UNCHANGED <<app, scope, tok>> /\ request[c].role \in Roles
    BY <1>1, <1>2, <1>8 DEF upsertGrant, deleteGrant, Write, Formed, RequestRows
  <2>2. CASE UNCHANGED role
    BY <1>1, <1>2, <1>3, <2>1, <2>2, RowsWritten DEF SystemAppUntouched
  <2>3. ASSUME NEW given \in Roles, role' = [role EXCEPT ![a][x] = given]
        PROVE  DeletionsInv'
    <3>1. role' \in [Apps -> [Users -> Roles]]
      BY <1>1, <1>4, <2>1, <2>3
    <3>2. \A b \in Apps \ {a} : role'[b] = role[b]
      BY <1>1, <1>4, <2>3
    <3>3. SystemAppUntouched'
      BY <1>1, <1>4, <2>1, <3>2, ApplicationsAssumption DEF SystemAppUntouched
    <3> HIDE DEF a, x
    <3> QED
      BY <1>1, <1>2, <1>3, <2>1, <3>1, <3>3, RowsWritten
  <2>4. "none" \in Roles
    BY DEF Roles
  <2>5. UNCHANGED role \/ \E given \in Roles : role' = [role EXCEPT ![a][x] = given]
    BY <1>8, <2>1, <2>4 DEF upsertGrant, deleteGrant, UpsertGrant, DeleteGrant
  <2> QED
    BY <2>2, <2>3, <2>5
<1> QED
  BY <1>5, <1>6, <1>7, <1>8

LEMMA CreatedOrExpiredHolds ==
  ASSUME DeletionsInv,
         \/ \E c \in Requests, u \in Actors, a \in Apps : handleCreateApplication(c, u, a)
         \/ \E t \in TokenRows : TokenExpires(t)
  PROVE  DeletionsInv'
<1>1. /\ app \in [Apps -> AppStatuses] /\ role \in [Apps -> [Users -> Roles]]
      /\ scope \in [Apps -> [Scopes -> ScopeStates]] /\ tok \in [TokenRows -> AppTokenRows]
      /\ SystemAppUntouched
  BY DEF DeletionsInv, ApplicationsInv, ApplicationsTypeOK
<1>2. UNCHANGED <<cert, request>> /\ Over
  BY DEF handleCreateApplication, TokenExpires, Over, DeletionsInv, ApplicationsInv, ApplicationsTypeOK
<1>3. ASSUME NEW c \in Requests, NEW u \in Actors, NEW a \in Apps, handleCreateApplication(c, u, a)
      PROVE  DeletionsInv'
  <2>1. app[a] = "none" /\ app' = [app EXCEPT ![a] = "active"] /\ UNCHANGED <<role, scope, tok>>
    BY <1>3 DEF handleCreateApplication
  <2>2. /\ app' \in [Apps -> AppStatuses] /\ SystemAppUntouched'
        /\ \A b \in Apps : app[b] = "deleted" => app'[b] = "deleted"
    BY <1>1, <2>1, ApplicationsAssumption DEF AppStatuses, SystemAppUntouched
  <2> QED
    BY <1>1, <1>2, <2>1, <2>2, RowsWritten
<1>4. ASSUME NEW t \in TokenRows, TokenExpires(t)
      PROVE  DeletionsInv'
  <2>1. tok' = [tok EXCEPT ![t].expired = TRUE] /\ UNCHANGED <<app, role, scope>>
    BY <1>4 DEF TokenExpires
  <2>2. tok' \in [TokenRows -> AppTokenRows] /\ \A s \in TokenRows : tok'[s].app = tok[s].app
    BY <1>1, <2>1 DEF AppTokenRows
  <2>3. SystemAppUntouched'
    BY <1>1, <2>1, <2>2 DEF SystemAppUntouched
  <2> QED
    BY <1>1, <1>2, <2>1, <2>2, <2>3, RowsWritten
<1> QED
  BY <1>3, <1>4

\* Work is added while no deletion of the application has locked it: the row
\* of the certificate is locked by both, or it is new and refers to the application.
LEMMA CommitHolds ==
  ASSUME DeletionsInv, NEW c \in Requests, CommitIssuance(c)
  PROVE  DeletionsInv'
<1> DEFINE a == request[c].app
           k == request[c].arg
<1>1. /\ request[c] \in RequestRows /\ Formed(request[c]) /\ Guarded(request[c])
      /\ request[c].pc = "commit" /\ Answered(c) /\ UNCHANGED <<app, role, scope, tok>>
      /\ request \in [Requests -> RequestRows]
  BY DEF DeletionsInv, CallsInv, ApplicationsInv, ApplicationsTypeOK, CommitIssuance
<1>2. /\ a \in Apps /\ k \in Criteria /\ InScope(a, k) /\ CertLock(a, k) \in request[c].holds
      /\ ShareLock(a) \in request[c].holds \/ cert[a][k].status # "none"
  BY <1>1 DEF Formed, Guarded
<1> DEFINE row == [status |-> "pending", work |-> cert[a][k].work \cup {"job", "version"},
                   valid |-> cert[a][k].valid]
<1>3. cert[a][k] \in CertRows
  BY <1>2 DEF DeletionsInv, ApplicationsInv, ApplicationsTypeOK
<1>4. row \in CertRows /\ row.status # "none"
  BY <1>3 DEF CertRows, Work
<1>5. cert' = [cert EXCEPT ![a][k] = row]
  BY DEF CommitIssuance
<1>6. Over
  BY <1>1, AnsweredIsOver
<1>7. ASSUME NEW d \in Requests \ {c}, request[d].pc \in {"count", "delete"}, request[d].app = a
      PROVE  FALSE
  <2>1. /\ AppLock(a) \in request[d].holds
        /\ cert[a][k].status # "none" => CertLock(a, k) \in request[d].holds
    BY <1>2, <1>7 DEF DeletionsInv, CallsInv, Formed, Guarded
  <2>2. \A l \in request[d].holds, h \in request[c].holds : ~Conflict(l, h)
    BY <1>7 DEF DeletionsInv, CallsInv, LocksExclude
  <2> QED
    BY <1>2, <2>1, <2>2, LocksConflict
<1>8. request'[c].pc = "idle" /\ \A d \in Requests \ {c} : request'[d] = request[d]
  BY <1>1, IdleIsFormed DEF Answered
<1>9. Counted(request', a, k, row)
  BY <1>7, <1>8 DEF Counted
<1> HIDE DEF row, a, k
<1> QED
  BY <1>1, <1>2, <1>4, <1>5, <1>6, <1>9, CertificateWritten

\* Workers, and material that runs out.
LEMMA WorkersHold ==
  ASSUME DeletionsInv, NEW a \in Apps, NEW k \in Criteria, WorkerSteps(a, k)
  PROVE  DeletionsInv'
<1> DEFINE old == cert[a][k]
<1>1. old \in CertRows /\ Over
  BY AnsweredIsOver
  DEF DeletionsInv, ApplicationsInv, ApplicationsTypeOK, WorkerSteps, PublishChallenge, IssueCertificate,
      FailIssuance, EnqueueCleanup, CleanChallenge, MaterialEnds, WorkerWrites, Over
<1>2. old.work # {} \/ old.valid => old.status # "none" /\ InScope(a, k)
  BY DEF DeletionsInv, WorkHasRow, NoCert, ApplicationsInv, NamesWereInScope, InScope
<1>3. \A d \in Requests : request[d].pc \in {"count", "delete"} /\ request[d].app = a =>
        /\ old.status # "none" => CertLock(a, k) \in request[d].holds
        /\ request[d].pc = "delete" => old.work = {}
  BY DEF DeletionsInv, CallsInv, Guarded
<1>4. ASSUME NEW row \in CertRows, WorkerWrites(a, k, row), old.work # {}, row.status # "none"
      PROVE  DeletionsInv'
  <2>1. /\ UNCHANGED <<app, role, scope, tok, request>> /\ cert' = [cert EXCEPT ![a][k] = row]
        /\ \A d \in Requests : CertLock(a, k) \notin request[d].holds
    BY <1>4 DEF WorkerWrites, Unlocked
  <2>2. Counted(request', a, k, row)
    BY <1>2, <1>3, <1>4, <2>1 DEF Counted
  <2> QED
    BY <1>1, <1>2, <1>4, <2>1, <2>2, CertificateWritten
<1>5. CASE PublishChallenge(a, k)
  <2> DEFINE row == [old EXCEPT !.work = @ \cup {"challenge"}]
  <2>1. "version" \in old.work /\ WorkerWrites(a, k, row)
    BY <1>5 DEF PublishChallenge
  <2>2. row \in CertRows /\ row.status # "none"
    BY <1>1, <1>2, <2>1 DEF CertRows, Work
  <2> HIDE DEF row, old
  <2> QED
    BY <1>4, <2>1, <2>2
<1>6. CASE IssueCertificate(a, k)
  <2> DEFINE row == [status |-> "ready", work |-> old.work \ {"job", "version"}, valid |-> TRUE]
  <2>1. "version" \in old.work /\ WorkerWrites(a, k, row)
    BY <1>6 DEF IssueCertificate
  <2>2. row \in CertRows /\ row.status # "none"
    BY <1>1 DEF CertRows, Work
  <2> HIDE DEF row, old
  <2> QED
    BY <1>4, <2>1, <2>2
<1>7. CASE FailIssuance(a, k)
  <2> DEFINE row == [old EXCEPT !.work = @ \ {"job", "version"},
                                !.status = IF old.valid THEN "ready" ELSE "failed"]
  <2>1. "version" \in old.work /\ WorkerWrites(a, k, row)
    BY <1>7 DEF FailIssuance
  <2>2. row \in CertRows /\ row.status # "none"
    BY <1>1 DEF CertRows, Work
  <2> HIDE DEF row, old
  <2> QED
    BY <1>4, <2>1, <2>2
<1>8. CASE EnqueueCleanup(a, k)
  <2> DEFINE row == [old EXCEPT !.work = @ \cup {"job"}]
  <2>1. old.work = {"challenge"} /\ WorkerWrites(a, k, row)
    BY <1>8 DEF EnqueueCleanup
  <2>2. row \in CertRows /\ row.status # "none"
    BY <1>1, <1>2, <2>1 DEF CertRows, Work
  <2> HIDE DEF row, old
  <2> QED
    BY <1>4, <2>1, <2>2
<1>9. CASE CleanChallenge(a, k)
  <2> DEFINE row == [old EXCEPT !.work = {}]
  <2>1. old.work = {"challenge", "job"} /\ WorkerWrites(a, k, row)
    BY <1>9 DEF CleanChallenge
  <2>2. row \in CertRows /\ row.status # "none"
    BY <1>1, <1>2, <2>1 DEF CertRows, Work
  <2> HIDE DEF row, old
  <2> QED
    BY <1>4, <2>1, <2>2
<1>10. CASE MaterialEnds(a, k)
  <2> DEFINE row == [old EXCEPT !.valid = FALSE]
  <2>1. /\ old.valid /\ cert' = [cert EXCEPT ![a][k] = row]
        /\ UNCHANGED <<app, role, scope, tok, request>>
    BY <1>10 DEF MaterialEnds
  <2>2. row \in CertRows /\ row.status # "none" /\ row.work = old.work
    BY <1>1, <1>2, <2>1 DEF CertRows
  <2> HIDE DEF row, old
  <2>3. Counted(request', a, k, row)
    BY <1>2, <1>3, <2>1, <2>2 DEF Counted
  <2> QED
    BY <1>1, <1>2, <2>1, <2>2, <2>3, CertificateWritten
<1> QED
  BY <1>5, <1>6, <1>7, <1>8, <1>9, <1>10 DEF WorkerSteps

\* The rows of an application go while no request is about to add work to it.
LEMMA DeleteHolds ==
  ASSUME DeletionsInv, NEW c \in Requests, DeleteApplication(c)
  PROVE  DeletionsInv'
<1> DEFINE a == request[c].app
<1>1. /\ app \in [Apps -> AppStatuses] /\ role \in [Apps -> [Users -> Roles]]
      /\ scope \in [Apps -> [Scopes -> ScopeStates]] /\ tok \in [TokenRows -> AppTokenRows]
      /\ cert \in [Apps -> [Criteria -> CertRows]] /\ request \in [Requests -> RequestRows]
      /\ NamesWereInScope /\ SystemAppUntouched
      /\ \A d \in Requests : Formed(request[d]) /\ Guarded(request[d])
      /\ LocksExclude /\ WorkHasRow
  BY DEF DeletionsInv, CallsInv, ApplicationsInv, ApplicationsTypeOK
<1>2. /\ request[c].pc = "delete" /\ Free(c, CertLocks(a)) /\ Answered(c)
      /\ app' = [app EXCEPT ![a] = "deleted"]
      /\ role' = [role EXCEPT ![a] = [u \in Users |-> "none"]]
      /\ scope' = [scope EXCEPT ![a] = [s \in Scopes |-> "none"]]
      /\ tok' = [t \in TokenRows |->
                   IF tok[t].app = a THEN [tok[t] EXCEPT !.status = "revoked"] ELSE tok[t]]
      /\ cert' = [cert EXCEPT ![a] = [k \in Criteria |-> NoCert]]
  BY DEF DeleteApplication
<1>3. a \in Apps /\ a \notin SystemApps /\ AppLock(a) \in request[c].holds
  BY <1>1, <1>2 DEF Formed
<1> HIDE DEF a
<1>4. NoCert \in CertRows /\ NoCert.status = "none" /\ NoCert.work = {}
  BY DEF NoCert, CertRows
<1>5. request'[c] = IdleRequest /\ \A d \in Requests \ {c} : request'[d] = request[d]
  BY <1>1, <1>2 DEF Answered
<1>6. /\ app'[a] = "deleted" /\ \A b \in Apps \ {a} : app'[b] = app[b]
      /\ \A b \in Apps \ {a} : role'[b] = role[b] /\ scope'[b] = scope[b] /\ cert'[b] = cert[b]
      /\ \A k \in Criteria : cert'[a][k] = NoCert
  BY <1>1, <1>2, <1>3
<1>7. ApplicationsTypeOK'
  <2>1. app' \in [Apps -> AppStatuses]
    BY <1>1, <1>2 DEF AppStatuses
  <2>2. role' \in [Apps -> [Users -> Roles]]
    BY <1>1, <1>2 DEF Roles
  <2>3. scope' \in [Apps -> [Scopes -> ScopeStates]]
    BY <1>1, <1>2 DEF ScopeStates
  <2>4. tok' \in [TokenRows -> AppTokenRows]
    <3>1. \A t \in TokenRows : [tok[t] EXCEPT !.status = "revoked"] \in AppTokenRows
      BY <1>1 DEF AppTokenRows
    <3> QED
      BY <1>1, <1>2, <3>1
  <2>5. cert' \in [Apps -> [Criteria -> CertRows]]
    BY <1>1, <1>2, <1>4
  <2>6. request' \in [Requests -> RequestRows]
    BY <1>1, <1>2, IdleIsFormed DEF Answered
  <2> QED
    BY <2>1, <2>2, <2>3, <2>4, <2>5, <2>6 DEF ApplicationsTypeOK
<1>8. NamesWereInScope'
  <2>1. ASSUME NEW b \in Apps, NEW k \in Criteria, cert'[b][k].status # "none"
        PROVE  scope'[b] = scope[b] /\ cert[b][k].status # "none"
    BY <1>3, <1>4, <1>6, <2>1
  <2> QED
    BY <1>1, <2>1 DEF NamesWereInScope
<1>9. SystemAppUntouched'
  <2>1. \A t \in TokenRows : tok'[t].app = tok[t].app
    BY <1>1, <1>2 DEF AppTokenRows
  <2>2. ASSUME NEW b \in SystemApps
        PROVE  /\ app'[b] = "active"
               /\ \A u \in Users : role'[b][u] = "none"
               /\ \A s \in Scopes : scope'[b][s] = "none"
               /\ \A t \in TokenRows : tok'[t].app # b
    <3>1. b \in Apps \ {a}
      BY <1>3, ApplicationsAssumption
    <3>2. app'[b] = app[b] /\ role'[b] = role[b] /\ scope'[b] = scope[b]
      BY <1>6, <3>1
    <3> QED
      BY <1>1, <2>1, <3>2 DEF SystemAppUntouched
  <2> QED
    BY <2>2 DEF SystemAppUntouched
<1>10. ASSUME NEW d \in Requests
       PROVE  (Formed(request[d]) /\ Guarded(request[d]))'
  <2> DEFINE q == request[d]
  <2>1. CASE d = c
    BY <1>5, <2>1, IdleIsFormed DEF Formed, Guarded
  <2>2. CASE d # c
    <3>1. request'[d] = q /\ Formed(q) /\ Guarded(q)
      BY <1>1, <1>5, <2>2
    <3>2. q.pc = "commit" => q.app # a
      <4> SUFFICES ASSUME q.pc = "commit", q.app = a
                   PROVE  FALSE
        OBVIOUS
      <4>1. /\ q.arg \in Criteria /\ CertLock(a, q.arg) \in q.holds
            /\ ShareLock(a) \in q.holds \/ cert[a][q.arg].status # "none"
        BY <3>1 DEF Formed, Guarded
      <4>2. cert[a][q.arg].status # "none" => CertLock(a, q.arg) \in CertLocks(a)
        BY <4>1 DEF CertLocks
      <4>3. /\ \A l \in CertLocks(a), h \in q.holds : ~Conflict(l, h)
            /\ \A l \in request[c].holds, h \in q.holds : ~Conflict(l, h)
        BY <1>1, <1>2, <2>2 DEF Free, LocksExclude
      <4> QED
        BY <1>3, <4>1, <4>2, <4>3, LocksConflict
    <3>3. q.pc \in {"upsert", "commit"} => q.app \in Apps /\ q.arg \in Criteria
      BY <3>1 DEF Formed
    <3>4. q.pc \in {"count", "delete"} => q.app \in Apps
      BY <3>1 DEF Formed
    <3> HIDE DEF q
    <3>5. q.pc = "upsert" /\ q.op = "ensure" => app'[q.app] = "deleted" \/ InScope(q.app, q.arg)'
      BY <1>6, <3>1, <3>3 DEF Guarded, InScope, q
    <3>6. q.pc = "commit" =>
            /\ InScope(q.app, q.arg)'
            /\ ShareLock(q.app) \in q.holds \/ cert'[q.app][q.arg].status # "none"
      BY <1>6, <3>1, <3>2, <3>3 DEF Guarded, InScope, q
    <3>7. /\ q.pc \in {"count", "delete"} =>
               \A k \in Criteria : cert'[q.app][k].status # "none" => CertLock(q.app, k) \in q.holds
          /\ q.pc = "delete" => \A k \in Criteria : cert'[q.app][k].work = {}
      BY <1>4, <1>6, <3>1, <3>4 DEF Guarded
    <3> QED
      BY <3>1, <3>5, <3>6, <3>7 DEF Formed, Guarded, InScope, q
  <2> QED
    BY <2>1, <2>2
<1>11. LocksExclude'
  BY <1>1, <1>5, IdleIsFormed DEF LocksExclude
<1>12. WorkHasRow'
  BY <1>1, <1>3, <1>6 DEF WorkHasRow
<1> QED
  BY <1>7, <1>8, <1>9, <1>10, <1>11, <1>12 DEF DeletionsInv, CallsInv, ApplicationsInv

-----------------------------------------------------------------------------
LEMMA ApplicationsInitHolds == ApplicationsInit => DeletionsInv
<1> SUFFICES ASSUME ApplicationsInit
             PROVE  DeletionsInv
  OBVIOUS
<1>1. NoCert \in CertRows /\ NoCert.status = "none"
  BY DEF NoCert, CertRows
<1>2. ApplicationsTypeOK
  BY <1>1, IdleIsFormed
  DEF ApplicationsInit, ApplicationsTypeOK, AppStatuses, Roles, ScopeStates, AppTokenRows
<1>3. NamesWereInScope
  BY <1>1 DEF ApplicationsInit, NamesWereInScope
<1>4. SystemAppUntouched
  BY ApplicationsAssumption DEF ApplicationsInit, SystemAppUntouched
<1>5. CallsInv
  BY IdleIsFormed DEF ApplicationsInit, CallsInv, LocksExclude
<1>6. WorkHasRow
  BY DEF ApplicationsInit, WorkHasRow
<1> QED
  BY <1>2, <1>3, <1>4, <1>5, <1>6 DEF DeletionsInv, ApplicationsInv

LEMMA ApplicationsNextHolds ==
  ASSUME DeletionsInv, [ApplicationsNext]_applicationVars
  PROVE  DeletionsInv'
<1>1. ASSUME NEW c \in Requests, CallSteps(c)
      PROVE  DeletionsInv'
  <2>1. CASE requireDomainCoverage(c) \/ CreateOrReuse(c) \/ StartLifecycle(c)
    BY <2>1, ChecksHold
  <2>2. CASE CommitIssuance(c)
    BY <2>2, CommitHolds
  <2>3. CASE \/ updateApplication(c) \/ createToken(c) \/ rotateToken(c) \/ revokeToken(c)
             \/ createDomainScope(c) \/ deleteDomainScope(c) \/ upsertGrant(c) \/ deleteGrant(c)
    BY <2>3, RowWritesHold
  <2>4. CASE LockForDeletion(c) \/ LockCertificates(c) \/ CountBlockers(c)
    BY <2>4, DeletionChecksHold
  <2>5. CASE DeleteApplication(c)
    BY <2>5, DeleteHolds
  <2> QED
    BY <1>1, <2>1, <2>2, <2>3, <2>4, <2>5 DEF CallSteps
<1>2. ASSUME NEW c \in Requests, serveApplications(c) \/ serveCertificates(c)
      PROVE  DeletionsInv'
  BY <1>2, ServedHolds, CreatedOrExpiredHolds
<1>3. ASSUME NEW a \in Apps, NEW k \in Criteria, WorkerSteps(a, k)
      PROVE  DeletionsInv'
  BY <1>3, WorkersHold
<1>4. ASSUME NEW t \in TokenRows, TokenExpires(t)
      PROVE  DeletionsInv'
  BY <1>4, CreatedOrExpiredHolds
<1>5. CASE UNCHANGED applicationVars
  BY <1>5 DEF DeletionsInv, CallsInv, ApplicationsInv, ApplicationsTypeOK, NamesWereInScope,
              SystemAppUntouched, Formed, Guarded, InScope, LocksExclude, WorkHasRow, applicationVars
<1> QED
  BY <1>1, <1>2, <1>3, <1>4, <1>5 DEF ApplicationsNext

\* An application leaves for good by the last statement of its deletion only,
\* and the certificates it then has were counted and stayed locked.
LEMMA DeletionStep ==
  ASSUME DeletionsInv, [ApplicationsNext]_applicationVars,
         NEW a \in Apps, app[a] # "deleted", app'[a] = "deleted"
  PROVE  \A k \in Criteria : cert[a][k].work = {}
<1>1. app \in [Apps -> AppStatuses] /\ \A c \in Requests : Formed(request[c]) /\ Guarded(request[c])
  BY DEF DeletionsInv, CallsInv, ApplicationsInv, ApplicationsTypeOK
<1>2. ASSUME NEW c \in Requests, updateApplication(c)
      PROVE  FALSE
  <2>1. request[c].arg \in {"active", "disabled"} /\ app' = Update(request[c].app, request[c].arg)
    BY <1>1, <1>2 DEF updateApplication, Write, Formed
  <2> QED
    BY <1>1, <2>1 DEF Update
<1>3. ASSUME NEW c \in Requests, NEW u \in Actors, NEW b \in Apps, handleCreateApplication(c, u, b)
      PROVE  FALSE
  BY <1>1, <1>3 DEF handleCreateApplication
<1>4. ASSUME NEW c \in Requests, DeleteApplication(c)
      PROVE  \A k \in Criteria : cert[a][k].work = {}
  <2>1. request[c].pc = "delete" /\ app' = [app EXCEPT ![request[c].app] = "deleted"]
    BY <1>4 DEF DeleteApplication
  <2>2. a = request[c].app
    BY <1>1, <2>1
  <2> QED
    BY <1>1, <2>1, <2>2 DEF Guarded
<1>5. ASSUME NEW c \in Requests, CallSteps(c), ~updateApplication(c), ~DeleteApplication(c)
      PROVE  UNCHANGED app
  BY <1>5
  DEF CallSteps, requireDomainCoverage, CreateOrReuse, StartLifecycle, CommitIssuance, createToken,
      rotateToken, revokeToken, createDomainScope, deleteDomainScope, upsertGrant, deleteGrant,
      LockForDeletion, LockCertificates, CountBlockers, Passes, Rejected
<1>6. ASSUME NEW c \in Requests, serveCertificates(c)
      PROVE  UNCHANGED app
  BY <1>6 DEF serveCertificates, handleSyncCertificate, handleCreateApplicationCertificate,
              handleStartLifecycle, Enters
<1>7. ASSUME NEW c \in Requests, serveApplications(c)
      PROVE  UNCHANGED app \/ \E u \in Actors, b \in Apps : handleCreateApplication(c, u, b)
  BY <1>7 DEF serveApplications, handleDeleteApplication, handleCreateApplicationToken,
              handlePatchApplication, handleRotateApplicationToken, handleRevokeApplicationToken,
              handleCreateDomainScope, handleDeleteDomainScope, handlePutApplicationGrant,
              handleDeleteApplicationGrant, Enters
<1>8. ASSUME NEW b \in Apps, NEW k \in Criteria, WorkerSteps(b, k)
      PROVE  UNCHANGED app
  BY <1>8 DEF WorkerSteps, PublishChallenge, IssueCertificate, FailIssuance, EnqueueCleanup,
              CleanChallenge, MaterialEnds, WorkerWrites
<1>9. ASSUME NEW t \in TokenRows, TokenExpires(t)
      PROVE  UNCHANGED app
  BY <1>9 DEF TokenExpires
<1>10. ~UNCHANGED app /\ ~UNCHANGED applicationVars
  BY DEF applicationVars
<1> QED
  BY <1>2, <1>3, <1>4, <1>5, <1>6, <1>7, <1>8, <1>9, <1>10 DEF ApplicationsNext

\* What requests rely on while they hold their locks, and the rows they write.
THEOREM DeletionsHold == ApplicationsSpec => []DeletionsInv
BY ApplicationsInitHolds, ApplicationsNextHolds, PTL DEF ApplicationsSpec

-----------------------------------------------------------------------------
\* Accounts and applications side by side are accounts, and are applications.
THEOREM AdministrationComposes == Spec => AccountsSpec /\ ApplicationsSpec
<1>1. Init => AccountsInit /\ ApplicationsInit
  BY DEF Init
<1>2. [Next]_vars => [AccountsNext]_accountVars
  BY DEF Next, vars
<1>3. [Next]_vars => [ApplicationsNext]_applicationVars
  BY DEF Next, vars
<1> QED
  BY <1>1, <1>2, <1>3, PTL DEF Spec, AccountsSpec, ApplicationsSpec

\* An invite makes one account and is consumed exactly when it has, and the
\* account is of one sign-up, whatever requests cross it.
THEOREM AccountsSafe == Spec => []AccountsInv
<1>1. SignupsInv => AccountsInv
  BY OriginCounts DEF SignupsInv, RequestsInv, AccountsInv
<1> QED
  BY <1>1, SignupsHold, AdministrationComposes, PTL

\* A certificate only names what a scope of its application once allowed, and
\* the application of the server's own certificate is never touched.
THEOREM ApplicationsSafe == Spec => []ApplicationsInv
<1>1. DeletionsInv => ApplicationsInv
  BY DEF DeletionsInv
<1> QED
  BY <1>1, DeletionsHold, AdministrationComposes, PTL

\* No deletion of an application loses a job, an issuing version or a challenge
\* that was not cleaned, although other requests commit between its statements.
THEOREM DeletionKeepsWork == Spec => DeletionLosesNoWork
<1>1. DeletionsInv /\ [ApplicationsNext]_applicationVars =>
        [\A a \in Apps : app[a] # "deleted" /\ app'[a] = "deleted"
           => \A k \in Criteria : cert[a][k].work = {}]_applicationVars
  BY DeletionStep
<1> QED
  BY <1>1, DeletionsHold, AdministrationComposes, PTL DEF ApplicationsSpec, DeletionLosesNoWork
=============================================================================
