----------------------------- MODULE TXTLookups -----------------------------
(***************************************************************************)
(* How a worker waits until the TXT value of a challenge is seen: lookups  *)
(* through a resolver that follows aliases, falls back from UDP to TCP and *)
(* tries again, until a deadline.  What the name servers answer changes at *)
(* any time, as records are created and deleted and their copies follow.   *)
(***************************************************************************)
EXTENDS ChallengeRecords

CONSTANTS
    Waiters,      \* workers that wait for a value
    maxCNAMEHops  \* 8 in the code

ASSUME HopsAssumption == maxCNAMEHops \in Nat

VARIABLES
    resolver,  \* the configured type of resolver
    aliases,   \* how many aliases lead from the record name to its values
    served,    \* the values that the name servers answer with
    lookup     \* the wait of each worker

lookupVars == <<resolver, aliases, served, lookup>>

(* held: history, whether the value was served during the lookup;          *)
(* troubled: history, whether a query failed.                              *)
NoLookup == [pc |-> "idle", challenge |-> NoChallenge, hop |-> 0, attempt |-> 1,
             expired |-> FALSE, held |-> "never", troubled |-> FALSE]
Waits(p) == lookup[p].pc \in {"query", "poll"}

LookupsInit ==
    /\ resolver \in {"system", "dns", "dot", "doh"}
    /\ served \in SUBSET Challenges
    /\ aliases \in 0..(maxCNAMEHops + 1)
    /\ lookup = [p \in Waiters |-> NoLookup]

LookupTXT(p, c, expired) ==
    lookup' = [lookup EXCEPT ![p] =
                 [NoLookup EXCEPT !.pc = "query", !.challenge = c, !.expired = expired,
                                  !.held = IF c \in served THEN "always" ELSE "never"]]

BeginWait(p, c) ==
    /\ ~Waits(p)
    /\ LookupTXT(p, c, FALSE)
    /\ UNCHANGED <<resolver, aliases, served>>

(* A name server that resolves aliases answers with both the first alias   *)
(* and the values, others with one of them.                                *)
Replies(hop) ==
    {[txt |-> IF hop >= aliases \/ recursive THEN served ELSE {},
      cname |-> hop < aliases] : recursive \in BOOLEAN}

QueryUDP(reply) ==
    {[reply |-> reply, truncated |-> FALSE]}
      \cup {[reply |-> [reply EXCEPT !.txt = some], truncated |-> TRUE] : some \in SUBSET reply.txt}
QueryTCP(reply) == {reply}

(* Mutant: what fits into the datagram is taken for all.                   *)
QueryDatagram(reply) == {u.reply : u \in QueryUDP(reply)}

Query(reply) ==
    {u.reply : u \in {v \in QueryUDP(reply) : ~v.truncated}} \cup QueryTCP(reply)

(* The resolver of the system follows aliases by itself.                   *)
Answers(hop) ==
    CASE resolver = "system" -> {[txt |-> served, cname |-> FALSE]}
      [] resolver = "dns"    -> UNION {Query(reply) : reply \in Replies(hop)}
      [] OTHER               -> Replies(hop)

MayFollow(hop) == hop < maxCNAMEHops

Reaches(p, state) == lookup' = [lookup EXCEPT ![p] = state]

(* followCNAME and TXTVisible, an answer at a time.  A chain that is too   *)
(* deep is an error that is not tried again.                               *)
FollowCNAME(p) ==
    LET l == lookup[p] IN
    /\ l.pc = "query"
    /\ \E answer \in Answers(l.hop) :
         Reaches(p, IF l.challenge \in answer.txt THEN [l EXCEPT !.pc = "visible"]
                    ELSE IF answer.txt = {} /\ answer.cname /\ MayFollow(l.hop)
                    THEN [l EXCEPT !.hop = @ + 1]
                    ELSE [l EXCEPT !.pc = "poll"])
    /\ UNCHANGED <<resolver, aliases, served>>

(* A query fails in a way that may pass, or not: NXDOMAIN is not tried     *)
(* again.                                                                  *)
QueryFails(p) ==
    LET l == lookup[p] IN
    /\ l.pc = "query"
    /\ \/ l.attempt < MaxAttempts
          /\ Reaches(p, [l EXCEPT !.hop = 0, !.attempt = @ + 1, !.troubled = TRUE])
       \/ Reaches(p, [l EXCEPT !.pc = "poll", !.troubled = TRUE])
    /\ UNCHANGED <<resolver, aliases, served>>

(* The ticker and the deadline: select takes either when both are ready.   *)
Tick(p) ==
    /\ lookup[p].pc = "poll"
    /\ LookupTXT(p, lookup[p].challenge, lookup[p].expired)
    /\ UNCHANGED <<resolver, aliases, served>>

DeadlinePasses(p) ==
    /\ Waits(p) /\ ~lookup[p].expired
    /\ Reaches(p, [lookup[p] EXCEPT !.expired = TRUE])
    /\ UNCHANGED <<resolver, aliases, served>>

TimesOut(p) ==
    /\ lookup[p].pc = "poll" /\ lookup[p].expired
    /\ Reaches(p, NoLookup)
    /\ UNCHANGED <<resolver, aliases, served>>

WaiterStops(p) ==
    /\ Waits(p)
    /\ Reaches(p, NoLookup)
    /\ UNCHANGED <<resolver, aliases, served>>

(* The name servers take over that a value was published, or removed.      *)
Spread(c) ==
    /\ served' = IF c \in served THEN served \ {c} ELSE served \cup {c}
    /\ lookup' = [p \in Waiters |->
                    IF lookup[p].challenge = c THEN [lookup[p] EXCEPT !.held = "mixed"]
                    ELSE lookup[p]]
    /\ UNCHANGED <<resolver, aliases>>

LookupStep(p) == FollowCNAME(p) \/ QueryFails(p)

----------------------------------------------------------------------------
(* A lookup that no query of failed sees a value that the name servers had *)
(* all the time, over as many aliases as are allowed and in answers that   *)
(* are too long for a datagram, and none that they did not have            *)
(* (resolver.go: followCNAME, query).                                      *)
LookupsAreTrue ==
    [][\A p \in Waiters :
         lookup[p].pc = "query" =>
           /\ lookup'[p].pc = "visible" => lookup[p].held # "never"
           /\ lookup'[p].pc = "poll" =>
                \/ lookup[p].held # "always" \/ lookup'[p].troubled
                \/ aliases > maxCNAMEHops /\ resolver # "system"]_lookupVars
=============================================================================
