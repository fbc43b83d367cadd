-------------------------- MODULE ChallengeRecords --------------------------
(***************************************************************************)
(* The TXT records that DNS-01 challenges leave at a DNS provider.  Present*)
(* and CleanUp list the records, create or delete, and begin again when a  *)
(* request fails in a way that may pass.  A request whose answer is lost   *)
(* may have taken effect, or may do so after its caller has given up.  The *)
(* provider is external.                                                   *)
(***************************************************************************)
EXTENDS Naturals, FiniteSets, FiniteSetsExt

CONSTANTS
    Callers,      \* workers that issue and clean up, of any server
    Challenges,   \* TXT values of one record name, as of a wildcard and its base
    Elsewhere,    \* other records that a listing has: Cloudflare filters by the
                  \* record name, ArvanCloud lists the whole zone
    NoChallenge,
    MaxAttempts,  \* Policy.MaxAttempts
    PageSize,     \* records on a page of a listing
    MaxCalls,     \* bound: calls
    MaxLate       \* bound: requests that are late at the same time

ASSUME RecordsAssumption ==
    /\ MaxAttempts \in 1..10 /\ PageSize \in Nat /\ MaxCalls \in Nat /\ MaxLate \in Nat
    /\ NoChallenge \notin Challenges /\ Challenges \cap Elsewhere = {}

VARIABLES
    records,  \* the records that listings are taken from
    late,     \* requests that may still take effect, although nobody waits
    call,     \* the call that each worker is in
    calm,     \* history: see BeginCall
    calls     \* calls begun so far

recordVars == <<records, late, call, calm, calls>>

Rest == {"idle", "ok", "failed"}
Idle == [op |-> "none", challenge |-> NoChallenge, pc |-> "idle", attempt |-> 1, todo |-> {}]

(* The zone has records that have nothing to do with challenges.           *)
RecordsInit ==
    /\ records = {[value |-> e, id |-> 0] : e \in Elsewhere}
    /\ late = {}
    /\ call = [p \in Callers |-> Idle]
    /\ calm = [c \in Challenges |-> TRUE]
    /\ calls = 0

InCall(p, c) == call[p].challenge = c /\ call[p].pc \notin Rest
RecordsOf(c) == {r \in records : r.value = c}

----------------------------------------------------------------------------
(* Calls.                                                                  *)

(* calm: since the call began, no other call of the challenge ran, no      *)
(* request of it went late, and no listing was cut off.                    *)
BeginCall(p, op, c) ==
    /\ call[p].pc \in Rest /\ calls < MaxCalls
    /\ call' = [call EXCEPT ![p] =
                  [Idle EXCEPT !.op = op, !.challenge = c, !.pc = "list"]]
    /\ calm' = [calm EXCEPT ![c] = /\ \A q \in Callers : ~InCall(q, c)
                                   /\ \A w \in late : w.record.value # c]
    /\ calls' = calls + 1
    /\ UNCHANGED <<records, late>>

Become(p, state) == call' = [call EXCEPT ![p] = state]
Ends(p, outcome) == Become(p, [call[p] EXCEPT !.pc = outcome, !.todo = {}])

(* Mutant: the attempts are not counted.                                   *)
TryAgainAlways(p) == Become(p, [call[p] EXCEPT !.pc = "list", !.todo = {}])

(* The whole operation is repeated, from the listing on.                   *)
TryAgain(p) ==
    IF call[p].attempt < MaxAttempts
    THEN Become(p, [call[p] EXCEPT !.pc = "list", !.attempt = @ + 1, !.todo = {}])
    ELSE Ends(p, "failed")

(* The answer to a request is a failure that may pass, or one that will    *)
(* not; the end of the worker's context is such a one.                     *)
Fails(p) == TryAgain(p) \/ Ends(p, "failed")

(* The first page is all that is asked for.                                *)
Pages == IF Cardinality(records) <= PageSize THEN {records} ELSE kSubset(PageSize, records)

Matching(c, page) == {r \in page : r.value = c}

(* Cloudflare is asked for the id of the zone before: its failure is one   *)
(* that ends the call.                                                     *)
ListRecords(p) ==
    /\ call[p].pc = "list"
    /\ \/ Fails(p) /\ UNCHANGED calm
       \/ \E page \in Pages :
             LET c == call[p].challenge
                 found == Matching(c, page)
             IN  /\ calm' = [calm EXCEPT ![c] = @ /\ page = records]
                 /\ IF (call[p].op = "Present") = (found = {})
                    THEN Become(p, [call[p] EXCEPT !.pc = "write", !.todo = found])
                    ELSE Ends(p, "ok")
    /\ UNCHANGED <<records, late, calls>>

Applied(w) ==
    IF w.op = "Present" THEN records \cup {w.record} ELSE records \ {w.record}

(* Mutant: the client repeats the request by itself, although it is not    *)
(* safe to be sent twice.                                                  *)
SentTwice(w) ==
    {Applied(w), Applied(w) \cup {[w.record EXCEPT !.id = @ + MaxCalls]}}

Sent(w) == {Applied(w)}

(* The writes are sent once by the HTTP client.  A record that is gone     *)
(* answers 404, which is not tried again.                                  *)
Write(p, w) ==
    \/ \* it takes effect, and the answer says so, or does not come
       /\ w.op = "Present" \/ w.record \in records
       /\ records' \in Sent(w)
       /\ IF call[p].todo \subseteq {w.record}
          THEN Ends(p, "ok")
          ELSE Become(p, [call[p] EXCEPT !.todo = @ \ {w.record}])
       /\ UNCHANGED <<late, calm>>
    \/ /\ records' \in Sent(w) \cup {records}
       /\ Fails(p)
       /\ UNCHANGED <<late, calm>>
    \/ \* it is still on its way when its caller goes on
       /\ Cardinality(late) < MaxLate
       /\ late' = late \cup {w}
       /\ calm' = [calm EXCEPT ![w.record.value] = FALSE]
       /\ Fails(p)
       /\ UNCHANGED records

(* Ids are not used again: one that nobody remembers is as good as new.    *)
Remembered == records \cup {w.record : w \in late} \cup UNION {call[p].todo : p \in Callers}
NewRecord(c) ==
    [value |-> c,
     id |-> CHOOSE n \in 1..Cardinality(Remembered) + 1 : [value |-> c, id |-> n] \notin Remembered]

CreateRecord(p) ==
    /\ call[p].op = "Present" /\ call[p].pc = "write"
    /\ Write(p, [op |-> "Present", record |-> NewRecord(call[p].challenge)])
    /\ UNCHANGED calls

DeleteRecord(p, r) ==
    /\ call[p].op = "CleanUp" /\ call[p].pc = "write" /\ r \in call[p].todo
    /\ Write(p, [op |-> "CleanUp", record |-> r])
    /\ UNCHANGED calls

(* The process ends, or its worker is stopped.                             *)
CallerStops(p) ==
    /\ call[p].pc \notin Rest
    /\ Become(p, Idle)
    /\ UNCHANGED <<records, late, calm, calls>>

LateRequest(w) ==
    /\ late' = late \ {w}
    /\ records' \in {Applied(w), records}
    /\ UNCHANGED <<call, calm, calls>>

CallStep(p) ==
    \/ ListRecords(p) \/ CreateRecord(p)
    \/ \E r \in call[p].todo : DeleteRecord(p, r)

----------------------------------------------------------------------------
(* Every record, call and late request is one that the code makes.         *)
RecordsTypeOK ==
    /\ \A r \in records : r.value \in Challenges \cup Elsewhere
    /\ \A p \in Callers : /\ call[p].pc \in Rest \cup {"list", "write"}
                          /\ call[p].attempt \in 1..MaxAttempts
                          /\ \A r \in call[p].todo : r.value = call[p].challenge
    /\ \A w \in late : w.record.value \in Challenges

(* What a call answers is true, and a second record of a value is not made *)
(* although answers are lost, workers die and calls are repeated: unless   *)
(* calls of one challenge overlapped, a request was late or a listing was  *)
(* cut off (cloudflare.go and arvancloud.go: Present, CleanUp).            *)
AnswersAreTrue ==
    [][/\ \A p \in Callers :
            call[p].pc \notin Rest /\ call'[p].pc = "ok" =>
              LET left == {r \in records' : r.value = call[p].challenge} IN
              IF call[p].op = "Present" THEN left # {}
              ELSE calm'[call[p].challenge] => left = {}
       /\ \A c \in Challenges :
            calm'[c] /\ RecordsOf(c) # {} =>
              {r \in records' : r.value = c} \subseteq RecordsOf(c)]_recordVars

(* A call, or what is late of one, touches no record of another value: the *)
(* challenges of a wildcard and of its base share their name.              *)
OnlyItsOwnRecords ==
    [][\A r \in (records \ records') \cup (records' \ records) :
         \/ \E p \in Callers : InCall(p, r.value)
         \/ \E w \in late : w.record = r]_recordVars

(* Whatever calls, crashes and late requests cross, the records are those   *)
(* that the answers say, and nobody else's are touched.                     *)
RecordsAreKept == []RecordsTypeOK /\ AnswersAreTrue /\ OnlyItsOwnRecords
=============================================================================
