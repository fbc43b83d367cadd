----------------------------- MODULE ChallengeDns -----------------------------
(* What workers do at DNS providers and through DNS for the challenges: the  *)
(* records, and the lookups that wait for them.  What name servers answer is *)
(* not tied to the records: copies of them follow late, or never.            *)
EXTENDS TXTLookups

VARIABLE traffic
vars == <<recordVars, lookupVars, traffic>>

Init ==
    /\ RecordsInit /\ LookupsInit
    /\ traffic \in {"records", "lookups"}
    /\ traffic = "records" => resolver = "system" /\ aliases = 0 /\ served = {}

Solving == traffic = "records" /\ UNCHANGED <<lookupVars, traffic>>
Waiting == traffic = "lookups" /\ UNCHANGED <<recordVars, traffic>>

Calling(p) == Solving /\ CallStep(p)
Looking(p) == Waiting /\ LookupStep(p)
Expiring(p) == Waiting /\ DeadlinePasses(p)
TimingOut(p) == Waiting /\ TimesOut(p)

Next ==
    \/ \E p \in Callers :
         \/ \E c \in Challenges :
              Solving /\ (BeginCall(p, "Present", c) \/ BeginCall(p, "CleanUp", c))
         \/ Calling(p)
         \/ Solving /\ CallerStops(p)
    \/ \E w \in late : Solving /\ LateRequest(w)
    \/ \E p \in Waiters :
         \/ \E c \in Challenges : Waiting /\ BeginWait(p, c)
         \/ Looking(p) \/ Expiring(p) \/ TimingOut(p)
         \/ Waiting /\ (Tick(p) \/ WaiterStops(p))
    \/ \E c \in Challenges : Waiting /\ Spread(c)

(* Requests are answered or time out, timers fire; a select that finds the   *)
(* deadline beside the ticker again and again takes it in the end.           *)
Fairness ==
    /\ \A p \in Callers : WF_vars(Calling(p))
    /\ \A p \in Waiters :
         WF_vars(Looking(p)) /\ WF_vars(Expiring(p)) /\ SF_vars(TimingOut(p))

Spec == Init /\ [][Next]_vars /\ Fairness

------------------------------------------------------------------------------
(* However often the provider and the name servers fail, and whatever they   *)
(* answer, a worker gets on: attempts and deadlines end every call and wait  *)
(* (retry.go: DoWithRetryAfter, certificate_issuance.go: waitForPropagation).*)
EveryCallEnds ==
    /\ \A p \in Callers : []<>(call[p].pc \in Rest)
    /\ \A p \in Waiters : []<>(~Waits(p))
=============================================================================
