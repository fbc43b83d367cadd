------------------------------ MODULE Issuers ------------------------------
(* Creation and change of ACME issuers, each in one transaction that stays  *)
(* open while the account is registered with the CA.  PostgreSQL is external:*)
(* a statement waits for the transaction that holds its row or index entry. *)
EXTENDS Integers

CONSTANTS Workers,     \* processes that run a request each
          Names, Urls, \* names of issuers, accounts of the CA
          Nobody

ASSUME IssuersAssumption == Nobody \notin Names \cup Urls

VARIABLES issuers,     \* committed rows of issuers, by name
          accounts,    \* committed rows of acme_accounts: url -> issuer
          tx           \* the request of each worker, with what it wrote
issuerVars == <<issuers, accounts, tx>>

NoRow == [status |-> "none", default |-> FALSE]
NoTx == [at |-> "idle", op |-> "none", name |-> Nobody, status |-> "keep",
         default |-> "keep", row |-> NoRow, url |-> Nobody, owns |-> FALSE]

IssuersInit ==
    /\ issuers = [n \in Names |-> NoRow]
    /\ accounts = [u \in Urls |-> Nobody]
    /\ tx = [p \in Workers |-> NoTx]

EndTx(p) == tx' = [tx EXCEPT ![p] = NoTx]

IsActiveDefault(row) == row.status = "active" /\ row.default
AccountEach(made, a) == \A n \in made : \E u \in Urls : {v \in Urls : a[v] = n} = {u}
(* Issuers that were created before, each with its account.                 *)
EarlierIssuers ==
    /\ tx = [p \in Workers |-> NoTx]
    /\ \E made \in SUBSET Names :
          /\ issuers \in [Names -> {NoRow} \cup [status : {"active", "disabled"},
                                                default : BOOLEAN]]
          /\ \A n \in Names : issuers[n] # NoRow <=> n \in made
          /\ accounts = CHOOSE a \in [Urls -> made \cup {Nobody}] : AccountEach(made, a)
    /\ \A m, n \in Names : IsActiveDefault(issuers[m]) /\ IsActiveDefault(issuers[n]) => m = n

Creations ==
    [op : {"create"}, name : Names, status : {"active", "disabled"}, default : {"yes", "no"}]
(* A patch of other fields changes nothing here.                            *)
Patches ==
    {r \in [op : {"patch"}, name : Names, status : {"active", "disabled", "keep"},
            default : {"yes", "no", "keep"}] : r.status # "keep" \/ r.default # "keep"}
BeginRequest(p, r) ==
    /\ tx[p] = NoTx
    /\ tx' = [tx EXCEPT ![p] = [NoTx EXCEPT !.at = "begun", !.op = r.op,
                 !.name = r.name, !.status = r.status, !.default = r.default]]
    /\ UNCHANGED <<issuers, accounts>>

Writers(n) == {q \in Workers : tx[q].name = n /\ tx[q].row # NoRow}
(* The row as the transaction of p sees it.                                 *)
RowSeen(p) == IF tx[p].row # NoRow THEN tx[p].row ELSE issuers[tx[p].name]

(* A row starts disabled and not the default, whatever was asked for.       *)
NewRow == [status |-> "disabled", default |-> FALSE]
InsertIssuer(p) ==
    /\ tx[p].at = "begun" /\ tx[p].op = "create" /\ Writers(tx[p].name) = {}
    /\ IF issuers[tx[p].name] # NoRow
       THEN EndTx(p)
       ELSE tx' = [tx EXCEPT ![p].at = "register",
                             ![p].row = NewRow]
    /\ UNCHANGED <<issuers, accounts>>

RegisterAccount(p, u) ==
    /\ tx[p].at = "register"
    /\ tx' = [tx EXCEPT ![p].at = "account", ![p].url = u]
    /\ UNCHANGED <<issuers, accounts>>

(* On a conflict the account stays what and whose it is.                    *)
EnsureACMEAccount(p) ==
    /\ tx[p].at = "account"
    /\ \A q \in Workers \ {p} : ~(tx[q].owns /\ tx[q].url = tx[p].url)
    /\ tx' = [tx EXCEPT ![p].at = "update",
                        ![p].owns = accounts[tx[p].url] = Nobody]
    /\ UNCHANGED <<issuers, accounts>>

(* Mutant: any account does, the one of another issuer too.                 *)
AnyAccount(p) == tx[p].url # Nobody \/ \E u \in Urls : accounts[u] = tx[p].name
HasActiveAccount(p) == tx[p].owns \/ \E u \in Urls : accounts[u] = tx[p].name

Wanted(p) ==
    [status |-> IF tx[p].status = "keep" THEN RowSeen(p).status ELSE tx[p].status,
     default |-> IF tx[p].default = "keep" THEN RowSeen(p).default
                 ELSE tx[p].default = "yes"]

OtherWriters(p) == {q \in Workers \ {p} : tx[q].row # NoRow}
(* The index issuers_one_active_default_idx waits for whoever wrote or       *)
(* replaces an entry, and refuses a second one.                             *)
DefaultInFlight(p) ==
    \E q \in OtherWriters(p) :
        IsActiveDefault(tx[q].row) \/ IsActiveDefault(issuers[tx[q].name])
DefaultTaken(p) ==
    \E n \in Names \ {tx[p].name} : IsActiveDefault(issuers[n])

RowFree(p) == Writers(tx[p].name) \subseteq {p}

Refused(p) ==
    \/ RowSeen(p) = NoRow
    \/ tx[p].status = "active" /\ ~HasActiveAccount(p)
UpdateIssuer(p) ==
    /\ \/ tx[p].at = "update"
       \/ tx[p].at = "begun" /\ tx[p].op = "patch"
    /\ RowFree(p)
    /\ \/ Refused(p) /\ EndTx(p)
       \/ /\ ~Refused(p)
          /\ IsActiveDefault(Wanted(p)) => ~DefaultInFlight(p)
          /\ IF IsActiveDefault(Wanted(p)) /\ DefaultTaken(p)
             THEN EndTx(p)
             ELSE tx' = [tx EXCEPT ![p].at = "commit", ![p].row = Wanted(p)]
    /\ UNCHANGED <<issuers, accounts>>

CommitTx(p) ==
    /\ tx[p].at = "commit"
    /\ issuers' = [issuers EXCEPT ![tx[p].name] = tx[p].row]
    /\ accounts' = IF tx[p].owns THEN [accounts EXCEPT ![tx[p].url] = tx[p].name]
                   ELSE accounts
    /\ EndTx(p)

TxStep(p) ==
    InsertIssuer(p) \/ EnsureACMEAccount(p) \/ UpdateIssuer(p) \/ CommitTx(p)

RollbackTx(p) == EndTx(p) /\ UNCHANGED <<issuers, accounts>>

------------------------------------------------------------------------------
(* At most one issuer answers for requests that name none, whichever        *)
(* creations and changes run at once (service.go:createIssuer, updateIssuer,*)
(* repository.go:GetActiveDefault).                                         *)
OneActiveDefault ==
    \A m, n \in Names :
        IsActiveDefault(issuers[m]) /\ IsActiveDefault(issuers[n]) => m = n

(* An active issuer has an account of its own, so the workers can order     *)
(* with it, also when the CA names an account that another issuer has       *)
(* (repository.go:EnsureACMEAccount, Update).                               *)
ActiveIssuersHaveAccounts ==
    \A n \in Names : issuers[n].status = "active" =>
        \E u \in Urls : accounts[u] = n

(* The issuers as the workers and the requests that name none find them,    *)
(* whichever transactions run at once (service.go:withWriteTx).             *)
IssuersInv == OneActiveDefault /\ ActiveIssuersHaveAccounts
=============================================================================
