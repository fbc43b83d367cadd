------------------------- MODULE AcmeIssuanceProofs -------------------------
(***************************************************************************)
(* Proofs about AcmeIssuance, for any number of workers, clean-ups, names, *)
(* orders and keys: the certificate that is stored belongs to the key of   *)
(* its version, no TXT value is published without a row, attempts that no  *)
(* fault interrupts leave no row unsettled, and a retry does not wait for  *)
(* a value whose removal has been recorded.                                *)
(***************************************************************************)
EXTENDS AcmeRetries, TLAPS

Actors == Workers \cup Cleaners
AfterOrder == CallPCs \ {"order"}
RowPCs == {"record", "mark_presented", "mark_accepted", "mark_cleaned"}

(* The rows that have been inserted.                                       *)
Recorded == {r \in Rows : row[r] # "none"}

(* The local state x of an actor: who has an order has the key that every  *)
(* one else binds that order to.                                           *)
Bound(x) ==
    x.order # None =>
        /\ x.key \in Keys
        /\ order[x.order].status # "none"
        /\ order[x.order].csr \in {None, x.key}
        /\ ver.order = x.order => ver.key = x.key

LocalInv(x) ==
    /\ x \in ActorStates
    /\ x.pc \in CallPCs => x.key \in Keys
    /\ x.pc \in AfterOrder => x.order \in Orders
    /\ x.pc \in RowPCs => x.cur \in Rows
    /\ x.pc = "mark_cleaned" => x.cur \in x.todo
    /\ x.pc \in {"fetch", "store"} => order[x.order].status = "valid"
    /\ x.rows \cup x.todo \subseteq Recorded
    /\ Bound(x)

Agree(x, y) == x.order # None /\ x.order = y.order => x.key = y.key

(* The version takes a key and an order together, and is valid only with   *)
(* an order that was finalized with its key.                               *)
VersionInv ==
    /\ ver.key = None <=> ver.order = None
    /\ ver.order # None => order[ver.order].status # "none"
    /\ ver.status = "valid" => ver.order # None
    /\ MaterialMatchesKey

FinalizedOrders == \A o \in Orders : order[o].status = "valid" => order[o].csr # None

AcmeInv ==
    /\ TypeOK
    /\ \A a \in Actors : LocalInv(actor[a])
    /\ \A a, b \in Actors : Agree(actor[a], actor[b])
    /\ VersionInv
    /\ FinalizedOrders
    /\ TXTRecorded

LEMMA InitInv == Init => AcmeInv
<1> SUFFICES ASSUME Init
             PROVE  AcmeInv
  OBVIOUS
<1> USE AcmeAssumption DEF Actors
<1>1. \A a \in Actors :
         /\ actor[a] \in ActorStates /\ actor[a].pc \in {"idle", "off"}
         /\ actor[a].key = None /\ actor[a].order = None
         /\ actor[a].rows = {} /\ actor[a].todo = {}
  <2>1. PICK pc \in {"idle", "off"} :
          actor = [a \in Workers \cup Cleaners |->
                     IF a \in Cleaners THEN [Idle EXCEPT !.pc = pc] ELSE Idle]
    BY DEF Init
  <2>2. /\ [Idle EXCEPT !.pc = pc] \in ActorStates /\ Idle \in ActorStates
        /\ [Idle EXCEPT !.pc = pc].pc = pc /\ Idle.pc = "idle"
        /\ [Idle EXCEPT !.pc = pc].key = None /\ Idle.key = None
        /\ [Idle EXCEPT !.pc = pc].order = None /\ Idle.order = None
        /\ [Idle EXCEPT !.pc = pc].rows = {} /\ Idle.rows = {}
        /\ [Idle EXCEPT !.pc = pc].todo = {} /\ Idle.todo = {}
    BY DEF Idle, ActorStates, PCs
  <2> QED
    BY <2>1, <2>2, Zenon
<1>2. actor \in [Actors -> ActorStates]
  <2>1. PICK f : actor = [a \in Actors |-> f[a]]
    BY DEF Init
  <2> QED
    BY <1>1, <2>1
<1>3. TypeOK
  BY <1>2 DEF Init, TypeOK, RowStatuses, Rows, Challenges
<1>4. \A a \in Actors : LocalInv(actor[a])
  BY <1>1 DEF LocalInv, Bound, CallPCs, AfterOrder, RowPCs
<1>5. \A a, b \in Actors : Agree(actor[a], actor[b])
  BY <1>1 DEF Agree
<1>6. VersionInv
  BY DEF Init, VersionInv, MaterialMatchesKey
<1>7. FinalizedOrders /\ TXTRecorded
  BY DEF Init, FinalizedOrders, TXTRecorded
<1> QED
  BY <1>3, <1>4, <1>5, <1>6, <1>7 DEF AcmeInv

----------------------------------------------------------------------------
(* What is left to show of a step that gives one actor a new local state.  *)
LEMMA ActorStep ==
    ASSUME AcmeInv, NEW a \in Actors, NEW x, Become(a, x),
           LocalInv(x)',
           \A b \in Actors \ {a} : LocalInv(actor[b])',
           \A b \in Actors \ {a} : Agree(x, actor[b]),
           VersionInv', FinalizedOrders', TXTRecorded',
           actor' \in [Actors -> ActorStates] => TypeOK'
    PROVE  AcmeInv'
<1>1. /\ actor' = [actor EXCEPT ![a] = x]
      /\ actor \in [Actors -> ActorStates]
      /\ x \in ActorStates
  BY DEF Become, AcmeInv, TypeOK, LocalInv, Actors
<1>2. /\ actor'[a] = x
      /\ \A b \in Actors \ {a} : actor'[b] = actor[b]
      /\ actor' \in [Actors -> ActorStates]
  BY <1>1
<1>3. ASSUME NEW b \in Actors
      PROVE  LocalInv(actor[b])'
  BY <1>2 DEF LocalInv, Bound, Recorded
<1>4. ASSUME NEW b \in Actors, NEW c \in Actors
      PROVE  Agree(actor[b], actor[c])'
  BY <1>2 DEF Agree, AcmeInv
<1> QED
  BY <1>2, <1>3, <1>4 DEF AcmeInv

(* Rows are never deleted: a statement that changes one keeps it recorded. *)
RowsGrow == row' \in [Rows -> RowStatuses] /\ Recorded \subseteq Recorded'

(* A published value is one that had been, or one of a recorded row.       *)
TxtGrows == txt' \subseteq txt \cup {ChallengeOf(r) : r \in Recorded'}

LEMMA StillRecorded ==
    ASSUME AcmeInv, RowsGrow, TxtGrows
    PROVE  TXTRecorded'
<1> SUFFICES ASSUME NEW c \in txt'
             PROVE  \E r \in Rows : ChallengeOf(r) = c /\ row'[r] # "none"
  BY DEF TXTRecorded, RowsOf
<1>1. CASE c \in txt
  BY <1>1 DEF AcmeInv, TXTRecorded, RowsOf, RowsGrow, Recorded
<1>2. CASE c \notin txt
  BY <1>2 DEF TxtGrows, Recorded
<1> QED
  BY <1>1, <1>2

(* Steps that leave the version and the orders alone.                      *)
LEMMA LocalStep ==
    ASSUME AcmeInv, NEW a \in Actors, NEW x, Become(a, x),
           UNCHANGED <<ver, order>>, RowsGrow, TxtGrows,
           LocalInv(x)',
           \/ x.order = None
           \/ x.order = actor[a].order /\ x.key = actor[a].key
           \/ x.order = ver.order /\ x.key = ver.key,
           actor' \in [Actors -> ActorStates] => TypeOK'
    PROVE  AcmeInv'
<1>1. \A b \in Actors : LocalInv(actor[b])
  BY DEF AcmeInv
<1>2. \A b \in Actors \ {a} : actor'[b] = actor[b]
  BY DEF Become, AcmeInv, TypeOK, Actors
<1>3. \A b \in Actors \ {a} : LocalInv(actor[b])'
  BY <1>1, <1>2 DEF LocalInv, Bound, RowsGrow
<1>4. \A b \in Actors \ {a} : Agree(x, actor[b])
  BY <1>1 DEF AcmeInv, Agree, LocalInv, Bound
<1>5. VersionInv' /\ FinalizedOrders'
  BY DEF AcmeInv, VersionInv, MaterialMatchesKey, FinalizedOrders
<1> QED
  BY <1>3, <1>4, <1>5, StillRecorded, ActorStep

(* Steps that change no row and publish nothing either.                    *)
LEMMA QuietStep ==
    ASSUME AcmeInv, NEW a \in Actors, NEW x, Become(a, x),
           UNCHANGED <<ver, order, row>>, txt' \subseteq txt,
           LocalInv(x),
           \/ x.order = None
           \/ x.order = actor[a].order /\ x.key = actor[a].key
           \/ x.order = ver.order /\ x.key = ver.key,
           actor' \in [Actors -> ActorStates] => TypeOK'
    PROVE  AcmeInv'
<1>1. RowsGrow /\ TxtGrows
  BY DEF AcmeInv, TypeOK, RowsGrow, TxtGrows, Recorded
<1>2. LocalInv(x)'
  BY DEF LocalInv, Bound, Recorded
<1> QED
  BY <1>1, <1>2, LocalStep

(* A new place in the program of an actor, and the rest as it was.         *)
LEMMA AtPlace ==
    ASSUME NEW s, LocalInv(s), NEW pc \in PCs,
           pc \in CallPCs => s.key \in Keys,
           pc \in AfterOrder => s.order \in Orders,
           pc \notin RowPCs,
           pc \in {"fetch", "store"} => order[s.order].status = "valid"
    PROVE  /\ LocalInv([s EXCEPT !.pc = pc])
           /\ [s EXCEPT !.pc = pc].order = s.order
           /\ [s EXCEPT !.pc = pc].key = s.key
<1> DEFINE x == [s EXCEPT !.pc = pc]
<1>1. /\ x \in ActorStates /\ x.pc = pc /\ x.key = s.key /\ x.order = s.order
      /\ x.rows = s.rows /\ x.todo = s.todo /\ x.cur = s.cur
  BY DEF LocalInv, ActorStates
<1> HIDE DEF x
<1>2. LocalInv(x)
  BY <1>1 DEF LocalInv, Bound, RowPCs
<1> QED
  BY <1>1, <1>2 DEF x

LEMMA AtFailure ==
    ASSUME NEW s, LocalInv(s), NEW retryable \in BOOLEAN
    PROVE  /\ LocalInv([s EXCEPT !.pc = "list", !.retry = retryable])
           /\ [s EXCEPT !.pc = "list", !.retry = retryable].order = s.order
           /\ [s EXCEPT !.pc = "list", !.retry = retryable].key = s.key
<1> DEFINE x == [s EXCEPT !.pc = "list", !.retry = retryable]
<1>1. /\ x \in ActorStates /\ x.pc = "list" /\ x.key = s.key /\ x.order = s.order
      /\ x.rows = s.rows /\ x.todo = s.todo
  BY DEF LocalInv, ActorStates, PCs, CleanupPCs
<1> HIDE DEF x
<1>2. LocalInv(x)
  BY <1>1 DEF LocalInv, Bound, CallPCs, AfterOrder, RowPCs
<1> QED
  BY <1>1, <1>2 DEF x

LEMMA AtRest ==
    /\ LocalInv(Idle) /\ Idle.order = None
    /\ LocalInv([Idle EXCEPT !.pc = "load"]) /\ [Idle EXCEPT !.pc = "load"].order = None
<1> DEFINE x == [Idle EXCEPT !.pc = "load"]
<1>1. /\ x \in ActorStates /\ x.pc = "load" /\ x.order = None /\ x.rows = {} /\ x.todo = {}
      /\ Idle \in ActorStates /\ Idle.pc = "idle" /\ Idle.order = None /\ Idle.rows = {} /\ Idle.todo = {}
  BY DEF Idle, ActorStates, PCs
<1> HIDE DEF x
<1>2. LocalInv(x) /\ LocalInv(Idle)
  BY <1>1 DEF LocalInv, Bound, CallPCs, AfterOrder, RowPCs
<1> QED
  BY <1>1, <1>2 DEF x

----------------------------------------------------------------------------
(* The steps that write neither row, version nor order.                    *)

LEMMA JobSteps ==
    ASSUME AcmeInv, NEW w \in Workers, ClaimNextIssuanceJob(w) \/ SucceedIssuanceJob(w)
    PROVE  AcmeInv'
<1> DEFINE JobType == [status : {"pending", "running", "succeeded", "failed"},
                       attempt : Nat, owner : Workers \cup {None}, live : BOOLEAN]
<1>0. job \in JobType
  BY DEF AcmeInv, TypeOK
<1>1. job' \in JobType /\ UNCHANGED <<ver, row, usedKeys, order, authz, txt>>
  <2>1. CASE ClaimNextIssuanceJob(w)
    BY <1>0, <2>1 DEF ClaimNextIssuanceJob, external
  <2>2. CASE SucceedIssuanceJob(w)
    <3>1. [job EXCEPT !.status = "succeeded", !.owner = None, !.live = FALSE] \in JobType
      BY <1>0
    <3> QED
      BY <1>0, <2>2, <3>1 DEF SucceedIssuanceJob, external
  <2> QED
    BY <2>1, <2>2
<1>2. w \in Actors
  BY DEF Actors
<1>3. actor' \in [Actors -> ActorStates] => TypeOK'
  BY <1>1 DEF AcmeInv, TypeOK, Actors
<1>4. CASE ClaimNextIssuanceJob(w)
  BY <1>1, <1>2, <1>3, <1>4, AtRest, QuietStep DEF ClaimNextIssuanceJob
<1>5. CASE SucceedIssuanceJob(w)
  BY <1>1, <1>2, <1>3, <1>5, AtRest, QuietStep DEF SucceedIssuanceJob
<1> QED
  BY <1>4, <1>5

LEMMA LeaseExpiresStep ==
    ASSUME AcmeInv, NEW fault, LeaseExpires(fault)
    PROVE  AcmeInv'
<1>1. TypeOK'
  BY DEF LeaseExpires, AcmeInv, TypeOK, local, external
<1>2. UNCHANGED <<ver, row, actor, order, txt>>
  BY DEF LeaseExpires, local, external
<1>3. \A a \in Actors : LocalInv(actor[a])'
  BY <1>2 DEF AcmeInv, LocalInv, Bound, Recorded
<1>4. \A a, b \in Actors : Agree(actor[a], actor[b])'
  BY <1>2 DEF AcmeInv, Agree
<1>5. VersionInv' /\ FinalizedOrders' /\ TXTRecorded'
  BY <1>2 DEF AcmeInv, VersionInv, MaterialMatchesKey, FinalizedOrders, TXTRecorded, RowsOf
<1> QED
  BY <1>1, <1>3, <1>4, <1>5 DEF AcmeInv

(* The facts every quiet step of an actor shares.                          *)
LEMMA QuietPlace ==
    ASSUME AcmeInv, NEW a \in Actors, NEW pc \in PCs, GoTo(a, pc),
           UNCHANGED <<job, ver, row, usedKeys, external>>,
           pc \in CallPCs => actor[a].key \in Keys,
           pc \in AfterOrder => actor[a].order \in Orders,
           pc \notin RowPCs,
           pc \in {"fetch", "store"} => order[actor[a].order].status = "valid"
    PROVE  AcmeInv'
<1>1. LocalInv(actor[a])
  BY DEF AcmeInv
<1>2. Become(a, [actor[a] EXCEPT !.pc = pc])
  BY DEF GoTo
<1>3. actor' \in [Actors -> ActorStates] => TypeOK'
  BY DEF AcmeInv, TypeOK, Actors, external
<1> QED
  BY <1>1, <1>2, <1>3, AtPlace, QuietStep DEF external

LEMMA QuietFailure ==
    ASSUME AcmeInv, NEW a \in Actors, NEW retryable \in BOOLEAN, GoFail(a, retryable),
           UNCHANGED <<job, ver, row, usedKeys, external>>
    PROVE  AcmeInv'
<1>1. LocalInv(actor[a])
  BY DEF AcmeInv
<1>2. Become(a, [actor[a] EXCEPT !.pc = "list", !.retry = retryable])
  BY DEF GoFail
<1>3. actor' \in [Actors -> ActorStates] => TypeOK'
  BY DEF AcmeInv, TypeOK, Actors, external
<1> QED
  BY <1>1, <1>2, <1>3, AtFailure, QuietStep DEF external

LEMMA StopsStep ==
    ASSUME AcmeInv, NEW a \in Actors, NEW fault, Stops(a, fault)
    PROVE  AcmeInv'
<1>1. actor' \in [Actors -> ActorStates] => TypeOK'
  BY DEF Stops, AcmeInv, TypeOK, Actors, external
<1> QED
  BY <1>1, AtRest, QuietStep DEF Stops, external

LEMMA FailsStep ==
    ASSUME AcmeInv, NEW w \in Workers, NEW retryable \in BOOLEAN, StepFails(w, retryable)
    PROVE  AcmeInv'
  BY QuietFailure DEF StepFails, Actors

LEMMA LoadVersionStep ==
    ASSUME AcmeInv, NEW w \in Workers, LoadVersion(w)
    PROVE  AcmeInv'
<1>1. LocalInv(actor[w]) /\ w \in Actors
  BY DEF AcmeInv, Actors
<1>2. CASE ver.status = "valid"
  <2>1. GoTo(w, "finish") /\ UNCHANGED <<job, ver, row, usedKeys, external>>
    BY <1>2 DEF LoadVersion
  <2> QED
    BY <1>1, <2>1, QuietPlace DEF PCs, CallPCs, AfterOrder, RowPCs
<1>3. CASE ver.status = "failed"
  <2>1. GoFail(w, FALSE) /\ UNCHANGED <<job, ver, row, usedKeys, external>>
    BY <1>3 DEF LoadVersion
  <2> QED
    BY <1>1, <2>1, QuietFailure
<1>4. CASE ver.status = "issuing"
  <2>1. PICK k \in IF ver.key = None THEN Keys \ usedKeys ELSE {ver.key} :
          /\ usedKeys' = usedKeys \cup {k}
          /\ Become(w, [actor[w] EXCEPT !.pc = "order", !.key = k, !.order = ver.order])
    BY <1>4 DEF LoadVersion
  <2> DEFINE x == [actor[w] EXCEPT !.pc = "order", !.key = k, !.order = ver.order]
  <2>2. k \in Keys /\ (ver.order # None => k = ver.key)
    BY DEF AcmeInv, TypeOK, VersionInv
  <2>3. ver.order \in Orders \cup {None}
    BY DEF AcmeInv, TypeOK
  <2>4. /\ x \in ActorStates /\ x.pc = "order" /\ x.key = k /\ x.order = ver.order
        /\ x.rows = actor[w].rows /\ x.todo = actor[w].todo
    BY <1>1, <2>2, <2>3 DEF LocalInv, ActorStates, PCs, CallPCs
  <2> HIDE DEF x
  <2>5. LocalInv(x)
    BY <1>1, <2>2, <2>4 DEF LocalInv, Bound, AfterOrder, RowPCs, AcmeInv, VersionInv, MaterialMatchesKey
  <2>6. x.order = None \/ (x.order = ver.order /\ x.key = ver.key)
    BY <2>2, <2>4
  <2>7. actor' \in [Actors -> ActorStates] => TypeOK'
    BY <2>1, <2>2 DEF LoadVersion, AcmeInv, TypeOK, Actors, external
  <2>8. Become(w, x) /\ UNCHANGED <<ver, row, order, txt>>
    BY <2>1 DEF LoadVersion, external, x
  <2> QED
    BY <1>1, <2>5, <2>6, <2>7, <2>8, QuietStep
<1> QED
  BY <1>2, <1>3, <1>4 DEF AcmeInv, TypeOK

(* An actor in its program has a sound local state.                        *)
LEMMA InProgram ==
    ASSUME AcmeInv, NEW w \in Workers
    PROVE  /\ w \in Actors /\ LocalInv(actor[w]) /\ actor[w] \in ActorStates
           /\ actor[w].pc \in CallPCs => actor[w].key \in Keys
           /\ actor[w].pc \in AfterOrder => actor[w].order \in Orders
  BY DEF AcmeInv, Actors, LocalInv

LEMMA OrderReads ==
    ASSUME AcmeInv, NEW w \in Workers, FetchOrder(w) \/ WaitOrder(w) \/ FetchCertificate(w)
    PROVE  AcmeInv'
<1> USE InProgram DEF PCs, CallPCs, AfterOrder, RowPCs
<1>1. UNCHANGED <<job, ver, row, usedKeys, external>>
  BY DEF FetchOrder, WaitOrder, FetchCertificate
<1>2. CASE FetchOrder(w)
  <2>1. GoTo(w, "prepare") /\ actor[w].order \in Orders
    BY <1>2 DEF FetchOrder, ActorStates
  <2>2. actor[w].key \in Keys
    BY <1>2 DEF FetchOrder, At
  <2> QED
    BY <1>1, <2>1, <2>2, QuietPlace
<1>3. CASE FetchCertificate(w)
  <2>1. /\ GoTo(w, "store") /\ actor[w].key \in Keys /\ actor[w].order \in Orders
        /\ order[actor[w].order].status = "valid"
    BY <1>3 DEF FetchCertificate, At, LocalInv
  <2> QED
    BY <1>1, <2>1, QuietPlace
<1>4. CASE WaitOrder(w)
  <2>1. actor[w].key \in Keys /\ actor[w].order \in Orders
    BY <1>4 DEF WaitOrder, At
  <2>2. CASE order[actor[w].order].status = "ready"
    <3>1. GoTo(w, "finalize")
      BY <1>4, <2>2 DEF WaitOrder
    <3> QED
      BY <1>1, <2>1, <3>1, QuietPlace
  <2>3. CASE order[actor[w].order].status = "valid"
    <3>1. GoTo(w, "fetch")
      BY <1>4, <2>3 DEF WaitOrder
    <3> QED
      BY <1>1, <2>1, <2>3, <3>1, QuietPlace
  <2>4. CASE order[actor[w].order].status = "invalid"
    <3>1. GoFail(w, FALSE)
      BY <1>4, <2>4 DEF WaitOrder
    <3> QED
      BY <1>1, <3>1, QuietFailure
  <2> QED
    BY <1>4, <2>2, <2>3, <2>4 DEF WaitOrder
<1> QED
  BY <1>2, <1>3, <1>4

(* A local state that keeps its key and its order, with rows that exist.   *)
LEMMA SameOrder ==
    ASSUME NEW s, LocalInv(s), NEW x, x \in ActorStates,
           x.key = s.key, x.order = s.order,
           x.pc \notin {"fetch", "store"},
           x.pc \in CallPCs => s.pc \in CallPCs,
           x.pc \in AfterOrder => s.pc \in AfterOrder,
           x.pc \in RowPCs => x.cur \in Rows,
           x.pc = "mark_cleaned" => x.cur \in x.todo,
           x.rows \cup x.todo \subseteq Recorded
    PROVE  LocalInv(x)
  BY DEF LocalInv, Bound

LEMMA FetchAuthorizationStep ==
    ASSUME AcmeInv, NEW w \in Workers, NEW n \in Names, FetchAuthorization(w, n)
    PROVE  AcmeInv'
<1>0. PICK s : s = actor[w]
  OBVIOUS
<1>1. /\ w \in Actors /\ LocalInv(s) /\ s \in ActorStates /\ s.pc = "ensure"
      /\ s.order \in Orders /\ s.rows \cup s.todo \subseteq Recorded
  BY <1>0, InProgram DEF FetchAuthorization, At, LocalInv, CallPCs, AfterOrder
<1>2. actor' \in [Actors -> ActorStates] => TypeOK'
  BY DEF FetchAuthorization, AcmeInv, TypeOK, Actors, external
<1>3. ASSUME NEW x, Become(w, x), LocalInv(x), x.order = s.order, x.key = s.key
      PROVE  AcmeInv'
  BY <1>0, <1>1, <1>2, <1>3, QuietStep DEF FetchAuthorization, external
<1> DEFINE c == <<s.order, n>>
<1>4. CASE authz[c] = "valid"
  <2> DEFINE x == [s EXCEPT !.names = s.names \ {n}]
  <2>1. Become(w, x)
    BY <1>0, <1>4 DEF FetchAuthorization
  <2>2. /\ x \in ActorStates /\ x.pc = "ensure" /\ x.order = s.order /\ x.key = s.key
        /\ x.rows = s.rows /\ x.todo = s.todo
    BY <1>1 DEF ActorStates
  <2> HIDE DEF x
  <2>3. LocalInv(x)
    BY <1>1, <2>2, SameOrder DEF CallPCs, AfterOrder, RowPCs
  <2> QED
    BY <1>3, <2>1, <2>2, <2>3
<1>5. CASE authz[c] # "valid" /\ RowsOf(c) # {}
  <2>1. PICK r \in RowsOf(c) : Become(w, WithRow(s, n, r, row[r]))
    BY <1>0, <1>5 DEF FetchAuthorization
  <2> DEFINE x == WithRow(s, n, r, row[r])
  <2>2. r \in Rows /\ r \in Recorded
    BY <2>1 DEF RowsOf, Recorded
  <2>3. /\ x \in ActorStates /\ x.pc = "ensure" /\ x.order = s.order /\ x.key = s.key
        /\ x.rows = s.rows \cup {r} /\ x.todo \subseteq s.todo \cup {r}
    BY <1>1, <2>2 DEF ActorStates, WithRow, PCs, CallPCs
  <2> HIDE DEF x
  <2>4. LocalInv(x)
    BY <1>1, <2>2, <2>3, SameOrder DEF CallPCs, AfterOrder, RowPCs
  <2> QED
    BY <1>3, <2>1, <2>3, <2>4 DEF x
<1>6. CASE authz[c] # "valid" /\ RowsOf(c) = {}
  <2> DEFINE cur == <<s.order, n, w>>
  <2> DEFINE x == [s EXCEPT !.pc = "record", !.cur = cur]
  <2>1. Become(w, x)
    BY <1>0, <1>6 DEF FetchAuthorization
  <2>2. cur \in Rows
    BY <1>1 DEF Rows
  <2> HIDE DEF cur
  <2>3. /\ x \in ActorStates /\ x.pc = "record" /\ x.order = s.order /\ x.key = s.key
        /\ x.rows = s.rows /\ x.todo = s.todo /\ x.cur = cur
    BY <1>1, <2>2 DEF ActorStates, PCs, CallPCs
  <2> HIDE DEF x
  <2>4. LocalInv(x)
    BY <1>1, <2>2, <2>3, SameOrder DEF CallPCs, AfterOrder, RowPCs
  <2> QED
    BY <1>3, <2>1, <2>3, <2>4
<1> QED
  BY <1>4, <1>5, <1>6

LEMMA NextStageStep ==
    ASSUME AcmeInv, NEW w \in Workers, NextStage(w)
    PROVE  AcmeInv'
<1>0. PICK s : s = actor[w]
  OBVIOUS
<1>1. /\ w \in Actors /\ LocalInv(s) /\ s \in ActorStates
      /\ s.pc \in {"ensure", "present", "propagate", "accept"}
      /\ s.rows \cup s.todo \subseteq Recorded /\ s.rows \subseteq Rows /\ s.todo \subseteq Rows
  BY <1>0, InProgram DEF NextStage, LocalInv, ActorStates
<1>2. PICK todo : todo = CASE At(w, "ensure") -> s.todo
                           [] At(w, "accept") -> {}
                           [] OTHER           -> s.rows
  OBVIOUS
<1>3. todo \subseteq s.rows \cup s.todo
  BY <1>0, <1>1, <1>2 DEF At
<1>4. PICK pc : pc = StageAfter(s.pc)
  OBVIOUS
<1>5. pc \in {"present", "propagate", "accept", "wait"}
  BY <1>1, <1>4 DEF StageAfter
<1> DEFINE x == [s EXCEPT !.pc = pc, !.todo = todo]
<1>6. Become(w, x)
  BY <1>0, <1>2, <1>4 DEF NextStage
<1>7. /\ x \in ActorStates /\ x.pc = pc /\ x.order = s.order /\ x.key = s.key
      /\ x.rows = s.rows /\ x.todo = todo
  BY <1>1, <1>3, <1>5 DEF ActorStates, PCs, CallPCs
<1> HIDE DEF x
<1>8. LocalInv(x)
  BY <1>1, <1>3, <1>5, <1>7, SameOrder DEF CallPCs, AfterOrder, RowPCs
<1>9. actor' \in [Actors -> ActorStates] => TypeOK'
  BY DEF NextStage, AcmeInv, TypeOK, Actors, external
<1> QED
  BY <1>0, <1>1, <1>6, <1>7, <1>8, <1>9, QuietStep DEF NextStage, external

LEMMA PresentStep ==
    ASSUME AcmeInv, NEW w \in Workers, NEW r \in Rows, PresentDNSChallenge(w, r)
    PROVE  AcmeInv'
<1>0. PICK s : s = actor[w]
  OBVIOUS
<1>1. /\ w \in Actors /\ LocalInv(s) /\ s \in ActorStates /\ s.pc = "present" /\ r \in Recorded
      /\ s.rows \cup s.todo \subseteq Recorded
  BY <1>0, InProgram DEF PresentDNSChallenge, At, LocalInv
<1>2. UNCHANGED <<job, ver, row, usedKeys, order, authz>> /\ txt' = txt \cup {ChallengeOf(r)}
  BY DEF PresentDNSChallenge
<1>3. RowsGrow /\ TxtGrows
  BY <1>1, <1>2 DEF AcmeInv, TypeOK, RowsGrow, TxtGrows, Recorded
<1>4. actor' \in [Actors -> ActorStates] => TypeOK'
  <2>1. ChallengeOf(r) \in Challenges
    BY DEF ChallengeOf, Challenges, Rows
  <2> QED
    BY <1>2, <2>1 DEF AcmeInv, TypeOK, Actors
<1>5. ASSUME NEW x, Become(w, x), LocalInv(x), x.order = s.order, x.key = s.key
      PROVE  AcmeInv'
  <2>1. LocalInv(x)'
    BY <1>2, <1>5 DEF LocalInv, Bound, Recorded
  <2> QED
    BY <1>0, <1>1, <1>2, <1>3, <1>4, <1>5, <2>1, LocalStep
<1>6. CASE Become(w, [s EXCEPT !.pc = "mark_presented", !.cur = r])
  <2> DEFINE x == [s EXCEPT !.pc = "mark_presented", !.cur = r]
  <2>1. /\ x \in ActorStates /\ x.pc = "mark_presented" /\ x.order = s.order /\ x.key = s.key
        /\ x.rows = s.rows /\ x.todo = s.todo /\ x.cur = r
    BY <1>1 DEF ActorStates, PCs, CallPCs
  <2>2. Become(w, x)
    BY <1>6
  <2> HIDE DEF x
  <2>3. LocalInv(x)
    BY <1>1, <2>1, SameOrder DEF CallPCs, AfterOrder, RowPCs
  <2> QED
    BY <1>5, <2>1, <2>2, <2>3
<1>7. CASE GoFail(w, TRUE)
  BY <1>0, <1>1, <1>5, <1>7, AtFailure DEF GoFail
<1> QED
  BY <1>0, <1>6, <1>7 DEF PresentDNSChallenge

LEMMA PropagationStep ==
    ASSUME AcmeInv, NEW w \in Workers, NEW r \in Rows, WaitForPropagation(w, r)
    PROVE  AcmeInv'
<1>0. PICK s : s = actor[w]
  OBVIOUS
<1>1. /\ w \in Actors /\ LocalInv(s) /\ s \in ActorStates /\ s.pc = "propagate"
      /\ s.rows \cup s.todo \subseteq Recorded
  BY <1>0, InProgram DEF WaitForPropagation, At, LocalInv
<1> DEFINE x == [s EXCEPT !.todo = s.todo \ {r}]
<1>2. /\ x \in ActorStates /\ x.pc = "propagate" /\ x.order = s.order /\ x.key = s.key
      /\ x.rows = s.rows /\ x.todo \subseteq s.todo
  BY <1>1 DEF ActorStates
<1>3. Become(w, x)
  BY <1>0 DEF WaitForPropagation
<1> HIDE DEF x
<1>4. LocalInv(x)
  BY <1>1, <1>2, SameOrder DEF CallPCs, AfterOrder, RowPCs
<1>5. actor' \in [Actors -> ActorStates] => TypeOK'
  BY DEF WaitForPropagation, AcmeInv, TypeOK, Actors, external
<1> QED
  BY <1>0, <1>1, <1>2, <1>3, <1>4, <1>5, QuietStep DEF WaitForPropagation, external

LEMMA AcceptStep ==
    ASSUME AcmeInv, NEW w \in Workers, NEW r \in Rows, AcceptChallenge(w, r)
    PROVE  AcmeInv'
<1>0. PICK s : s = actor[w]
  OBVIOUS
<1>1. /\ w \in Actors /\ LocalInv(s) /\ s \in ActorStates /\ s.pc = "accept"
      /\ s.rows \cup s.todo \subseteq Recorded
  BY <1>0, InProgram DEF AcceptChallenge, At, LocalInv
<1>2. UNCHANGED <<job, ver, row, usedKeys, order, txt>>
  BY DEF AcceptChallenge
<1>3. actor' \in [Actors -> ActorStates] => TypeOK'
  <2>1. authz' \in [Challenges -> {"pending", "processing", "valid", "invalid"}]
    BY DEF AcceptChallenge, AcmeInv, TypeOK
  <2> QED
    BY <1>2, <2>1 DEF AcmeInv, TypeOK, Actors
<1>4. ASSUME NEW x, Become(w, x), LocalInv(x), x.order = s.order, x.key = s.key
      PROVE  AcmeInv'
  BY <1>0, <1>1, <1>2, <1>3, <1>4, QuietStep
<1>5. CASE Become(w, [s EXCEPT !.pc = "mark_accepted", !.cur = r])
  <2> DEFINE x == [s EXCEPT !.pc = "mark_accepted", !.cur = r]
  <2>1. /\ x \in ActorStates /\ x.pc = "mark_accepted" /\ x.order = s.order /\ x.key = s.key
        /\ x.rows = s.rows /\ x.todo = s.todo /\ x.cur = r
    BY <1>1 DEF ActorStates, PCs, CallPCs
  <2>2. Become(w, x)
    BY <1>5
  <2> HIDE DEF x
  <2>3. LocalInv(x)
    BY <1>1, <2>1, SameOrder DEF CallPCs, AfterOrder, RowPCs
  <2> QED
    BY <1>4, <2>1, <2>2, <2>3
<1>6. CASE GoFail(w, TRUE)
  BY <1>0, <1>1, <1>4, <1>6, AtFailure DEF GoFail
<1> QED
  BY <1>0, <1>5, <1>6 DEF AcceptChallenge

----------------------------------------------------------------------------
(* The steps that write a row.                                             *)

LEMMA RowStep ==
    ASSUME AcmeInv, NEW a \in Actors, NEW r \in Rows, NEW x, Become(a, x),
           row' \in [Rows -> RowStatuses],
           \A q \in Rows : row[q] # "none" => row'[q] # "none",
           UNCHANGED <<job, ver, usedKeys, external>>,
           x \in ActorStates, x.pc \in {"ensure", "present", "accept", "cleaning"},
           x.pc \in CallPCs => actor[a].pc \in AfterOrder,
           x.key = actor[a].key, x.order = actor[a].order,
           \A q \in x.rows \cup x.todo : q \in Recorded \/ row'[q] # "none"
    PROVE  AcmeInv'
<1>1. LocalInv(actor[a])
  BY DEF AcmeInv
<1>2. RowsGrow /\ TxtGrows
  BY DEF RowsGrow, TxtGrows, Recorded, external
<1>3. x.rows \cup x.todo \subseteq Recorded'
  BY <1>2 DEF RowsGrow, Recorded, ActorStates
<1>4. LocalInv(x)'
  BY <1>1, <1>3 DEF LocalInv, Bound, RowPCs, AfterOrder, external
<1>5. actor' \in [Actors -> ActorStates] => TypeOK'
  BY DEF AcmeInv, TypeOK, Actors, external
<1> QED
  BY <1>2, <1>4, <1>5, LocalStep DEF external

LEMMA RecordStep ==
    ASSUME AcmeInv, NEW w \in Workers, RecordDNSChallenge(w)
    PROVE  AcmeInv'
<1>0. PICK s, r : s = actor[w] /\ r = s.cur
  OBVIOUS
<1>1. /\ w \in Actors /\ LocalInv(s) /\ s \in ActorStates /\ s.pc = "record" /\ r \in Rows
      /\ s.rows \cup s.todo \subseteq Recorded
  BY <1>0, InProgram DEF RecordDNSChallenge, At, LocalInv, RowPCs
<1> DEFINE x == WithRow(s, r[2], r, "pending")
<1>2. /\ x \in ActorStates /\ x.pc = "ensure" /\ x.order = s.order /\ x.key = s.key
      /\ x.rows = s.rows \cup {r} /\ x.todo \subseteq s.todo \cup {r}
  BY <1>1 DEF ActorStates, WithRow, PCs, CallPCs
<1>3. Become(w, x) /\ row' = [row EXCEPT ![r] = "pending"]
        /\ UNCHANGED <<job, ver, usedKeys, external>>
  BY <1>0 DEF RecordDNSChallenge
<1> HIDE DEF x
<1>4. /\ row' \in [Rows -> RowStatuses] /\ row'[r] # "none"
      /\ \A q \in Rows : row[q] # "none" => row'[q] # "none"
  BY <1>1, <1>3 DEF AcmeInv, TypeOK, RowStatuses
<1> QED
  BY <1>0, <1>1, <1>2, <1>3, <1>4, RowStep DEF CallPCs, AfterOrder

(* The three statements that mark a row and go on with the rest.           *)
LEMMA MarkStep ==
    ASSUME AcmeInv, NEW a \in Actors, NEW status \in RowStatuses \ {"none"},
           NEW pc \in {"present", "accept", "cleaning"},
           Become(a, AfterMark(actor[a], pc)),
           row' = [row EXCEPT ![actor[a].cur] = status] \/ row' = row,
           UNCHANGED <<job, ver, usedKeys, external>>,
           actor[a].pc \in RowPCs,
           pc \in CallPCs => actor[a].pc \in AfterOrder
    PROVE  AcmeInv'
<1>0. PICK s : s = actor[a]
  OBVIOUS
<1>1. /\ LocalInv(s) /\ s \in ActorStates /\ s.cur \in Rows
      /\ s.rows \cup s.todo \subseteq Recorded
  BY <1>0 DEF AcmeInv, LocalInv
<1> DEFINE x == AfterMark(s, pc)
<1>2. /\ x \in ActorStates /\ x.pc = pc /\ x.order = s.order /\ x.key = s.key
      /\ x.rows = s.rows /\ x.todo \subseteq s.todo
  BY <1>1 DEF ActorStates, AfterMark, PCs, CallPCs, CleanupPCs
<1>3. Become(a, x)
  BY <1>0
<1> HIDE DEF x
<1>4. row' \in [Rows -> RowStatuses] /\ \A q \in Rows : row[q] # "none" => row'[q] # "none"
  BY DEF AcmeInv, TypeOK
<1> QED
  BY <1>0, <1>1, <1>2, <1>3, <1>4, RowStep

LEMMA MarkSteps ==
    ASSUME AcmeInv, NEW w \in Workers, MarkDNSChallengePresented(w) \/ MarkAccepted(w)
    PROVE  AcmeInv'
<1>1. w \in Actors
  BY DEF Actors
<1>2. CASE MarkDNSChallengePresented(w)
  <2>1. /\ Become(w, AfterMark(actor[w], "present")) /\ actor[w].pc = "mark_presented"
        /\ UNCHANGED <<job, ver, usedKeys, external>>
    BY <1>2 DEF MarkDNSChallengePresented, At
  <2>2. row' = [row EXCEPT ![actor[w].cur] = "presented"] \/ row' = row
    <3>1. row = [q \in Rows |-> row[q]]
      BY DEF AcmeInv, TypeOK
    <3> QED
      BY <1>2, <3>1 DEF MarkDNSChallengePresented
  <2> QED
    BY <1>1, <2>1, <2>2, MarkStep DEF RowStatuses, RowPCs, CallPCs, AfterOrder
<1>3. CASE MarkAccepted(w)
  <2>1. /\ Become(w, AfterMark(actor[w], "accept")) /\ actor[w].pc = "mark_accepted"
        /\ UNCHANGED <<job, ver, usedKeys, external>>
        /\ row' = [row EXCEPT ![actor[w].cur] = "cleanup_pending"]
    BY <1>3 DEF MarkAccepted, At
  <2> QED
    BY <1>1, <2>1, MarkStep DEF RowStatuses, RowPCs, CallPCs, AfterOrder
<1> QED
  BY <1>2, <1>3

LEMMA MarkCleanupStep ==
    ASSUME AcmeInv, NEW a \in Actors, MarkDNSChallengeCleanup(a) \/ MarkFails(a)
    PROVE  AcmeInv'
<1>1. PICK status \in {"cleaned", "cleanup_failed"} :
         row' = [row EXCEPT ![actor[a].cur] = status] \/ row' = row
  BY DEF MarkDNSChallengeCleanup, MarkFails
<1>2. /\ Become(a, AfterMark(actor[a], "cleaning")) /\ actor[a].pc = "mark_cleaned"
      /\ UNCHANGED <<job, ver, usedKeys, external>>
  BY DEF MarkDNSChallengeCleanup, MarkFails, At
<1> QED
  BY <1>1, <1>2, MarkStep DEF RowStatuses, RowPCs, CallPCs

----------------------------------------------------------------------------
(* Clean-up.                                                               *)

LEMMA ListSteps ==
    ASSUME AcmeInv, NEW a \in Actors, NEW statuses, "none" \notin statuses,
           NEW then \in {"idle", "list_failed", "fail"},
           Listed(a, statuses, then),
           UNCHANGED <<job, ver, row, usedKeys, external>>
    PROVE  AcmeInv'
<1>0. PICK s : s = actor[a]
  OBVIOUS
<1>1. LocalInv(s) /\ s \in ActorStates /\ s.rows \subseteq Recorded
  BY <1>0 DEF AcmeInv, LocalInv
<1>2. RowsIn(statuses) \subseteq Recorded /\ RowsIn(statuses) \subseteq Rows
  BY DEF RowsIn, Recorded
<1> DEFINE x == [s EXCEPT !.pc = "cleaning", !.todo = RowsIn(statuses), !.then = then]
<1>3. /\ x \in ActorStates /\ x.pc = "cleaning" /\ x.order = s.order /\ x.key = s.key
      /\ x.rows = s.rows /\ x.todo = RowsIn(statuses)
  BY <1>1, <1>2 DEF ActorStates, PCs, CleanupPCs
<1>4. Become(a, x)
  BY <1>0 DEF Listed
<1> HIDE DEF x
<1>5. LocalInv(x)
  BY <1>1, <1>2, <1>3, SameOrder DEF CallPCs, AfterOrder, RowPCs
<1>6. actor' \in [Actors -> ActorStates] => TypeOK'
  BY DEF AcmeInv, TypeOK, Actors, external
<1> QED
  BY <1>0, <1>3, <1>4, <1>5, <1>6, QuietStep DEF external

LEMMA ListStep ==
    ASSUME AcmeInv,
           \/ \E w \in Workers : ListRecordedChallenges(w) \/ ListFails(w)
           \/ \E c \in Cleaners : ListCleanupPending(c) \/ ListCleanupFailed(c)
    PROVE  AcmeInv'
<1>1. ASSUME NEW w \in Workers, ListRecordedChallenges(w) \/ ListFails(w)
      PROVE  AcmeInv'
  <2>1. UNCHANGED <<job, ver, row, usedKeys, external>> /\ w \in Actors
    BY <1>1 DEF ListRecordedChallenges, ListFails, Actors
  <2>2. CASE Listed(w, Removable, "fail")
    BY <2>1, <2>2, ListSteps DEF Removable
  <2>3. CASE GoTo(w, "fail")
    BY <2>1, <2>3, QuietPlace DEF PCs, CallPCs, AfterOrder, RowPCs
  <2> QED
    BY <1>1, <2>2, <2>3 DEF ListRecordedChallenges, ListFails
<1>2. ASSUME NEW c \in Cleaners, ListCleanupPending(c)
      PROVE  AcmeInv'
  BY <1>2, ListSteps DEF ListCleanupPending, Actors
<1>3. ASSUME NEW c \in Cleaners, ListCleanupFailed(c)
      PROVE  AcmeInv'
  BY <1>3, ListSteps DEF ListCleanupFailed, Actors
<1> QED
  BY <1>1, <1>2, <1>3

LEMMA CleanupStepHolds ==
    ASSUME AcmeInv, NEW a \in Actors, CleanupStep(a)
    PROVE  AcmeInv'
<1>0. PICK s : s = actor[a]
  OBVIOUS
<1>1. LocalInv(s) /\ s \in ActorStates /\ s.rows \cup s.todo \subseteq Recorded
  BY <1>0 DEF AcmeInv, LocalInv
<1>2. ASSUME NEW r \in Rows, CleanupDNSChallenge(a, r)
      PROVE  AcmeInv'
  <2>1. PICK gone \in BOOLEAN : Become(a, [s EXCEPT !.pc = "mark_cleaned", !.cur = r, !.gone = gone])
    BY <1>0, <1>2 DEF CleanupDNSChallenge
  <2>2. UNCHANGED <<job, ver, row, usedKeys, order, authz>> /\ txt' \subseteq txt
    BY <1>2 DEF CleanupDNSChallenge
  <2> DEFINE x == [s EXCEPT !.pc = "mark_cleaned", !.cur = r, !.gone = gone]
  <2>3. /\ x \in ActorStates /\ x.pc = "mark_cleaned" /\ x.order = s.order /\ x.key = s.key
        /\ x.rows = s.rows /\ x.todo = s.todo /\ x.cur = r
    BY <1>1 DEF ActorStates, PCs, CleanupPCs
  <2>4. Become(a, x)
    BY <2>1
  <2> HIDE DEF x
  <2>5. LocalInv(x)
    <3>1. r \in s.todo
      BY <1>0, <1>2 DEF CleanupDNSChallenge
    <3> QED
      BY <1>1, <2>3, <3>1, SameOrder DEF CallPCs, AfterOrder, RowPCs
  <2>6. actor' \in [Actors -> ActorStates] => TypeOK'
    BY <2>2 DEF AcmeInv, TypeOK, Actors
  <2> QED
    BY <1>0, <2>2, <2>3, <2>4, <2>5, <2>6, QuietStep
<1>3. CASE MarkDNSChallengeCleanup(a)
  BY <1>3, MarkCleanupStep
<1>4. CASE CleaningDone(a)
  <2>1. GoTo(a, s.then) /\ s.then \in {"idle", "list_failed", "fail"}
    BY <1>0, <1>1, <1>4 DEF CleaningDone, ActorStates
  <2> QED
    BY <1>4, <2>1, QuietPlace DEF CleaningDone, PCs, CallPCs, CleanupPCs, AfterOrder, RowPCs
<1> QED
  BY <1>2, <1>3, <1>4 DEF CleanupStep

----------------------------------------------------------------------------
(* The steps of the orders at the CA.                                      *)

(* A step that only adds to what is known of orders keeps the actors.      *)
OrdersGrow ==
    /\ \A o \in Orders : order[o].status # "none" => order'[o].status # "none"
    /\ \A o \in Orders : order[o].status = "valid" => order'[o].status = "valid"

LEMMA OrderKept ==
    ASSUME NEW y, LocalInv(y), OrdersGrow, UNCHANGED <<ver, row>>,
           y.order # None => order'[y.order].csr \in {None, y.key}
    PROVE  LocalInv(y)'
<1>1. y.order \in Orders \cup {None} /\ (y.pc \in {"fetch", "store"} => y.order \in Orders)
  BY DEF LocalInv, ActorStates, CallPCs, AfterOrder
<1> QED
  BY <1>1 DEF LocalInv, Bound, Recorded, OrdersGrow

LEMMA CreateOrderStep ==
    ASSUME AcmeInv, NEW w \in Workers, CreateOrder(w)
    PROVE  AcmeInv'
<1>0. PICK s : s = actor[w]
  OBVIOUS
<1>1. PICK o \in Orders, reused \in SUBSET {n \in Names : Validated(n)} :
         /\ order[o].status = "none"
         /\ order' = [order EXCEPT ![o] =
                        [status |-> IF reused = Names THEN "ready" ELSE "pending",
                         csr |-> None]]
         /\ authz' = [c \in Challenges |->
                        IF c[1] = o /\ c[2] \in reused THEN "valid" ELSE authz[c]]
         /\ Become(w, [s EXCEPT !.pc = "prepare", !.order = o])
  BY <1>0 DEF CreateOrder
<1>2. /\ w \in Actors /\ LocalInv(s) /\ s \in ActorStates /\ s.key \in Keys
      /\ s.rows \cup s.todo \subseteq Recorded
  BY <1>0, InProgram DEF CreateOrder, At, LocalInv, CallPCs
<1>3. UNCHANGED <<job, ver, row, usedKeys, txt>>
  BY DEF CreateOrder
<1>4. /\ order' \in [Orders -> [status : {"none", "pending", "ready", "valid", "invalid"},
                                csr : Keys \cup {None}]]
      /\ order'[o].status \in {"pending", "ready"} /\ order'[o].csr = None
      /\ \A p \in Orders \ {o} : order'[p] = order[p]
  BY <1>1 DEF AcmeInv, TypeOK
<1>5. authz' \in [Challenges -> {"pending", "processing", "valid", "invalid"}]
  BY <1>1 DEF AcmeInv, TypeOK
<1>6. OrdersGrow
  BY <1>1, <1>4 DEF OrdersGrow
<1>7. /\ \A b \in Actors : actor[b].order # o
      /\ ver.order # o
  BY <1>1, AcmeAssumption DEF AcmeInv, LocalInv, Bound, VersionInv
<1> DEFINE x == [s EXCEPT !.pc = "prepare", !.order = o]
<1>8. /\ x \in ActorStates /\ x.pc = "prepare" /\ x.order = o /\ x.key = s.key
      /\ x.rows = s.rows /\ x.todo = s.todo
  BY <1>2 DEF ActorStates, PCs, CallPCs
<1>9. Become(w, x)
  BY <1>1
<1> HIDE DEF x
<1>10. LocalInv(x)'
  BY <1>2, <1>3, <1>4, <1>7, <1>8 DEF LocalInv, Bound, Recorded, RowPCs
<1>11. \A b \in Actors \ {w} : actor'[b] = actor[b]
  BY <1>9 DEF Become, AcmeInv, TypeOK, Actors
<1>12. ASSUME NEW b \in Actors \ {w}
       PROVE  LocalInv(actor[b])'
  <2>1. LocalInv(actor[b]) /\ actor[b] \in ActorStates
    BY DEF AcmeInv, LocalInv
  <2>2. actor[b].order # None => order'[actor[b].order].csr \in {None, actor[b].key}
    BY <1>4, <1>7, <2>1 DEF LocalInv, Bound, ActorStates
  <2>3. PICK y : y = actor[b]
    OBVIOUS
  <2>4. LocalInv(y)'
    BY <1>3, <1>6, <2>1, <2>2, <2>3, OrderKept
  <2> QED
    BY <1>11, <2>3, <2>4
<1>13. \A b \in Actors \ {w} : Agree(x, actor[b])
  BY <1>7, <1>8 DEF Agree
<1>14. VersionInv'
  BY <1>3, <1>4, <1>6, <1>7 DEF AcmeInv, TypeOK, VersionInv, MaterialMatchesKey, OrdersGrow
<1>15. FinalizedOrders' /\ TXTRecorded'
  BY <1>3, <1>4 DEF AcmeInv, FinalizedOrders, TXTRecorded, RowsOf
<1>16. actor' \in [Actors -> ActorStates] => TypeOK'
  BY <1>3, <1>4, <1>5 DEF AcmeInv, TypeOK, Actors
<1> QED
  BY <1>2, <1>9, <1>10, <1>12, <1>13, <1>14, <1>15, <1>16, ActorStep

LEMMA FinalizeStep ==
    ASSUME AcmeInv, NEW w \in Workers, FinalizeOrder(w)
    PROVE  AcmeInv'
<1>0. PICK s, o : s = actor[w] /\ o = s.order
  OBVIOUS
<1>1. /\ w \in Actors /\ LocalInv(s) /\ s \in ActorStates /\ s.key \in Keys /\ o \in Orders
      /\ s.rows \cup s.todo \subseteq Recorded
  BY <1>0, InProgram DEF FinalizeOrder, At, LocalInv, CallPCs, AfterOrder
<1>2. UNCHANGED <<job, ver, row, usedKeys, authz, txt>>
  BY DEF FinalizeOrder
<1>3. CASE order[o].status # "ready"
  <2>1. GoFail(w, TRUE) /\ UNCHANGED order
    BY <1>0, <1>3 DEF FinalizeOrder
  <2> QED
    BY <1>1, <1>2, <2>1, QuietFailure DEF external
<1>4. CASE order[o].status = "ready"
  <2>1. /\ order' = [order EXCEPT ![o] = [status |-> "valid", csr |-> s.key]]
        /\ GoTo(w, "store") \/ GoFail(w, TRUE)
    BY <1>0, <1>4 DEF FinalizeOrder
  <2>2. /\ order' \in [Orders -> [status : {"none", "pending", "ready", "valid", "invalid"},
                                  csr : Keys \cup {None}]]
        /\ order'[o].status = "valid" /\ order'[o].csr = s.key
        /\ \A p \in Orders \ {o} : order'[p] = order[p]
    BY <1>1, <2>1 DEF AcmeInv, TypeOK
  <2>3. OrdersGrow
    BY <1>1, <1>4, <2>2 DEF OrdersGrow
  <2>4. PICK x : /\ Become(w, x) /\ x \in ActorStates /\ x.pc \in {"store", "list"}
                 /\ x.key = s.key /\ x.order = o
                 /\ x.rows = s.rows /\ x.todo = s.todo
    <3>1. CASE GoTo(w, "store")
      <4> DEFINE y == [s EXCEPT !.pc = "store"]
      <4>1. /\ y \in ActorStates /\ y.pc = "store" /\ y.key = s.key /\ y.order = o
            /\ y.rows = s.rows /\ y.todo = s.todo
        BY <1>0, <1>1 DEF ActorStates, PCs, CallPCs
      <4>2. Become(w, y)
        BY <1>0, <3>1 DEF GoTo
      <4> HIDE DEF y
      <4> QED
        BY <4>1, <4>2
    <3>2. CASE GoFail(w, TRUE)
      <4> DEFINE y == [s EXCEPT !.pc = "list", !.retry = TRUE]
      <4>1. /\ y \in ActorStates /\ y.pc = "list" /\ y.key = s.key /\ y.order = o
            /\ y.rows = s.rows /\ y.todo = s.todo
        BY <1>0, <1>1 DEF ActorStates, PCs, CleanupPCs
      <4>2. Become(w, y)
        BY <1>0, <3>2 DEF GoFail
      <4> HIDE DEF y
      <4> QED
        BY <4>1, <4>2
    <3> QED
      BY <2>1, <3>1, <3>2
  <2>5. LocalInv(x)'
    <3>1. Bound(s)
      BY <1>1 DEF LocalInv
    <3> QED
      BY <1>0, <1>1, <1>2, <2>2, <2>4, <3>1 DEF LocalInv, Bound, Recorded, CallPCs, AfterOrder, RowPCs
  <2>6. \A b \in Actors \ {w} : actor'[b] = actor[b]
    BY <2>4 DEF Become, AcmeInv, TypeOK, Actors
  <2>7. \A b \in Actors \ {w} : Agree(s, actor[b])
    BY <1>0, <1>1 DEF AcmeInv
  <2>8. ASSUME NEW b \in Actors \ {w}
        PROVE  LocalInv(actor[b])'
    <3>1. PICK y : y = actor[b]
      OBVIOUS
    <3>2. LocalInv(y) /\ y \in ActorStates
      BY <3>1 DEF AcmeInv, LocalInv
    <3>3. y.order # None => order'[y.order].csr \in {None, y.key}
      <4>1. CASE y.order = o
        BY <1>0, <1>1, <2>2, <2>7, <3>1, <4>1, AcmeAssumption DEF Agree
      <4>2. CASE y.order # o
        BY <2>2, <3>2, <4>2 DEF LocalInv, Bound, ActorStates
      <4> QED
        BY <4>1, <4>2
    <3>4. LocalInv(y)'
      BY <1>2, <2>3, <3>2, <3>3, OrderKept
    <3> QED
      BY <2>6, <3>1, <3>4
  <2>9. \A b \in Actors \ {w} : Agree(x, actor[b])
    BY <1>0, <2>4, <2>7 DEF Agree
  <2>10. VersionInv'
    <3>1. ver.order = o => ver.key = s.key
      BY <1>0, <1>1, AcmeAssumption DEF LocalInv, Bound
    <3> QED
      BY <1>2, <2>2, <2>3, <3>1 DEF AcmeInv, TypeOK, VersionInv, MaterialMatchesKey, OrdersGrow
  <2>11. FinalizedOrders' /\ TXTRecorded'
    BY <1>1, <1>2, <2>2, AcmeAssumption DEF AcmeInv, FinalizedOrders, TXTRecorded, RowsOf
  <2>12. actor' \in [Actors -> ActorStates] => TypeOK'
    BY <1>2, <2>2 DEF AcmeInv, TypeOK, Actors
  <2> QED
    BY <1>1, <2>4, <2>5, <2>8, <2>9, <2>10, <2>11, <2>12, ActorStep
<1> QED
  BY <1>3, <1>4

LEMMA ValidateStep ==
    ASSUME AcmeInv, NEW o \in Orders, NEW n \in Names, ValidateChallenge(o, n)
    PROVE  AcmeInv'
<1>1. PICK outcome \in {"valid", "invalid"}, status \in {"invalid", "ready", "pending"} :
        /\ authz' = [authz EXCEPT ![<<o, n>>] = outcome]
        /\ order' = [order EXCEPT ![o].status = status]
  <2>1. PICK outcome \in {"valid", "invalid"} :
          /\ authz' = [authz EXCEPT ![<<o, n>>] = outcome]
          /\ order' = [order EXCEPT ![o].status =
                CASE outcome = "invalid" -> "invalid"
                  [] \A m \in Names \ {n} : authz[<<o, m>>] = "valid" -> "ready"
                  [] OTHER -> "pending"]
    BY DEF ValidateChallenge
  <2>2. PICK status : status = CASE outcome = "invalid" -> "invalid"
                                 [] \A m \in Names \ {n} : authz[<<o, m>>] = "valid" -> "ready"
                                 [] OTHER -> "pending"
    OBVIOUS
  <2>3. status \in {"invalid", "ready", "pending"}
    BY <2>2
  <2> QED
    BY <2>1, <2>2, <2>3
<1>2. order[o].status = "pending" /\ UNCHANGED <<job, ver, row, actor, usedKeys, txt>>
  BY DEF ValidateChallenge, local
<1>3. /\ order' \in [Orders -> [status : {"none", "pending", "ready", "valid", "invalid"},
                                csr : Keys \cup {None}]]
      /\ order'[o].status \in {"invalid", "ready", "pending"}
      /\ \A p \in Orders : order'[p].csr = order[p].csr
      /\ \A p \in Orders \ {o} : order'[p] = order[p]
  BY <1>1 DEF AcmeInv, TypeOK
<1>4. OrdersGrow
  BY <1>2, <1>3 DEF OrdersGrow
<1>5. TypeOK'
  BY <1>1, <1>2, <1>3 DEF AcmeInv, TypeOK
<1>6. ASSUME NEW a \in Actors
      PROVE  LocalInv(actor[a])'
  <2>1. PICK y : y = actor[a]
    OBVIOUS
  <2>2. LocalInv(y) /\ y \in ActorStates
    BY <2>1 DEF AcmeInv, LocalInv
  <2>3. y.order # None => order'[y.order].csr \in {None, y.key}
    BY <1>3, <2>2 DEF LocalInv, Bound, ActorStates
  <2>4. LocalInv(y)'
    BY <1>2, <1>4, <2>2, <2>3, OrderKept
  <2> QED
    BY <1>2, <2>1, <2>4
<1>7. \A a, b \in Actors : Agree(actor[a], actor[b])'
  BY <1>2 DEF AcmeInv, Agree
<1>8. VersionInv'
  BY <1>2, <1>3, <1>4 DEF AcmeInv, TypeOK, VersionInv, MaterialMatchesKey, OrdersGrow
<1>9. FinalizedOrders' /\ TXTRecorded'
  BY <1>2, <1>3 DEF AcmeInv, FinalizedOrders, TXTRecorded, RowsOf
<1> QED
  BY <1>5, <1>6, <1>7, <1>8, <1>9 DEF AcmeInv

----------------------------------------------------------------------------
(* The steps that write the version.                                       *)

(* A version that takes a key and an order from somebody who holds both.   *)
LEMMA VersionStep ==
    ASSUME AcmeInv, NEW w \in Workers, NEW x, Become(w, x), LocalInv(actor[w]),
           UNCHANGED <<row, usedKeys, external>>,
           actor' \in [Actors -> ActorStates] => TypeOK',
           \/ ver'.key = ver.key /\ ver'.order = ver.order
           \/ ver'.key = actor[w].key /\ ver'.order = actor[w].order /\ actor[w].order # None,
           ver'.status = "valid" =>
             \/ ver.status = "valid" /\ ver' = ver
             \/ ver'.order = actor[w].order /\ actor[w].order \in Orders
                  /\ order[actor[w].order].status = "valid",
           x \in ActorStates, x.pc \in {"idle", "finish", "list", "ensure"},
           x.pc = "ensure" => /\ actor[w].pc \in AfterOrder
                              /\ x.order = actor[w].order /\ x.key = actor[w].key,
           \/ x.order = None
           \/ x.order = actor[w].order /\ x.key = actor[w].key,
           x.rows \cup x.todo \subseteq Recorded
    PROVE  AcmeInv'
<1>1. w \in Actors
  BY DEF Actors
<1>2. PICK s : s = actor[w]
  OBVIOUS
<1>3. LocalInv(s)
  BY <1>2
<1>4. UNCHANGED <<order, txt, row>>
  BY DEF external
<1>5. \A b \in Actors : LocalInv(actor[b]) /\ Agree(s, actor[b])
  BY <1>1, <1>2 DEF AcmeInv
<1>6. \A b \in Actors : actor[b].order # None /\ ver'.order = actor[b].order => ver'.key = actor[b].key
  BY <1>2, <1>5 DEF LocalInv, Bound, Agree
<1>7. \A b \in Actors \ {w} : actor'[b] = actor[b]
  BY <1>1 DEF Become, AcmeInv, TypeOK, Actors
<1>8. ASSUME NEW b \in Actors \ {w}
      PROVE  LocalInv(actor[b])'
  BY <1>4, <1>5, <1>6, <1>7 DEF LocalInv, Bound, Recorded
<1>9. LocalInv(x)'
  BY <1>1, <1>2, <1>3, <1>4, <1>6 DEF LocalInv, Bound, Recorded, CallPCs, AfterOrder, RowPCs
<1>10. \A b \in Actors \ {w} : Agree(x, actor[b])
  BY <1>2, <1>5 DEF Agree
<1>11. VersionInv'
  <2>1. ver'.key = None <=> ver'.order = None
    BY <1>2, <1>3, AcmeAssumption DEF AcmeInv, VersionInv, LocalInv, Bound
  <2>2. ver'.order # None =>
           order[ver'.order].status # "none" /\ order[ver'.order].csr \in {None, ver'.key}
    BY <1>2, <1>3 DEF AcmeInv, VersionInv, MaterialMatchesKey, LocalInv, Bound
  <2>3. ver'.status = "valid" => ver'.order # None /\ order[ver'.order].csr = ver'.key
    BY <2>2, AcmeAssumption DEF AcmeInv, VersionInv, MaterialMatchesKey, FinalizedOrders
  <2> QED
    BY <1>4, <2>1, <2>2, <2>3 DEF VersionInv, MaterialMatchesKey
<1>12. FinalizedOrders' /\ TXTRecorded'
  BY <1>4 DEF AcmeInv, FinalizedOrders, TXTRecorded, RowsOf
<1> QED
  BY <1>1, <1>8, <1>9, <1>10, <1>11, <1>12, ActorStep

LEMMA PrepareStep ==
    ASSUME AcmeInv, NEW w \in Workers, PrepareIssuingVersion(w)
    PROVE  AcmeInv'
<1>0. PICK s : s = actor[w]
  OBVIOUS
<1>1. /\ LocalInv(s) /\ s \in ActorStates /\ s.key \in Keys /\ s.order \in Orders
      /\ s.rows \cup s.todo \subseteq Recorded /\ s.pc = "prepare" /\ w \in Actors
  BY <1>0, InProgram DEF PrepareIssuingVersion, At, LocalInv, CallPCs, AfterOrder
<1>2. UNCHANGED <<job, row, usedKeys, external>>
  BY DEF PrepareIssuingVersion
<1>3. CASE ver.status # "issuing"
  BY <1>0, <1>1, <1>2, <1>3, QuietFailure DEF PrepareIssuingVersion
<1>4. CASE ver.status = "issuing"
  <2> DEFINE x == [s EXCEPT !.pc = "ensure", !.names = Names]
  <2>1. ver' = Prepared(s.key, s.order) /\ Become(w, x)
    BY <1>0, <1>4 DEF PrepareIssuingVersion
  <2>2. /\ x \in ActorStates /\ x.pc = "ensure" /\ x.key = s.key /\ x.order = s.order
        /\ x.rows = s.rows /\ x.todo = s.todo
    BY <1>1 DEF ActorStates, PCs, CallPCs
  <2> HIDE DEF x
  <2>3. /\ ver' \in [status : {"issuing", "valid", "failed"},
                     key : Keys \cup {None}, order : Orders \cup {None}]
        /\ ver'.status = "issuing"
        /\ ver'.key = Coalesce(ver.key, s.key) /\ ver'.order = Coalesce(ver.order, s.order)
    BY <1>1, <1>4, <2>1 DEF Prepared, Coalesce, AcmeInv, TypeOK
  <2>4. \/ ver'.key = ver.key /\ ver'.order = ver.order
        \/ ver'.key = s.key /\ ver'.order = s.order
    BY <2>3 DEF Coalesce, AcmeInv, VersionInv
  <2>5. actor' \in [Actors -> ActorStates] => TypeOK'
    BY <1>2, <2>3 DEF AcmeInv, TypeOK, Actors, external
  <2>6. s.order # None /\ s.pc \in AfterOrder
    BY <1>1, AcmeAssumption DEF AfterOrder, CallPCs
  <2> QED
    BY <1>0, <1>1, <1>2, <2>1, <2>2, <2>3, <2>4, <2>5, <2>6, VersionStep
<1> QED
  BY <1>3, <1>4

LEMMA StoreStep ==
    ASSUME AcmeInv, NEW w \in Workers, StoreMaterial(w)
    PROVE  AcmeInv'
<1>0. PICK s : s = actor[w]
  OBVIOUS
<1>1. /\ LocalInv(s) /\ s \in ActorStates /\ s.key \in Keys /\ s.order \in Orders
      /\ s.rows \cup s.todo \subseteq Recorded /\ order[s.order].status = "valid" /\ w \in Actors
  BY <1>0, InProgram DEF StoreMaterial, At, LocalInv, CallPCs, AfterOrder
<1> DEFINE x == [s EXCEPT !.pc = "finish"]
<1>2. /\ x \in ActorStates /\ x.pc = "finish" /\ x.key = s.key /\ x.order = s.order
      /\ x.rows = s.rows /\ x.todo = s.todo
  BY <1>1 DEF ActorStates, PCs, CallPCs
<1>3. Become(w, x)
  BY <1>0 DEF StoreMaterial, GoTo
<1> HIDE DEF x
<1>4. \/ ver' = ver
      \/ ver' = [status |-> "valid", key |-> s.key, order |-> s.order]
  BY <1>0 DEF StoreMaterial
<1>5. UNCHANGED <<job, row, usedKeys, external>>
  BY DEF StoreMaterial
<1>6. actor' \in [Actors -> ActorStates] => TypeOK'
  BY <1>1, <1>4, <1>5 DEF AcmeInv, TypeOK, Actors, external
<1>7. s.order # None
  BY <1>1, AcmeAssumption
<1> QED
  BY <1>0, <1>1, <1>2, <1>3, <1>4, <1>5, <1>6, <1>7, VersionStep

LEMMA FailJobStep ==
    ASSUME AcmeInv, NEW w \in Workers, FailIssuanceJob(w)
    PROVE  AcmeInv'
<1>0. PICK s : s = actor[w]
  OBVIOUS
<1>1. LocalInv(s) /\ w \in Actors
  BY <1>0, InProgram
<1> DEFINE JobType == [status : {"pending", "running", "succeeded", "failed"},
                       attempt : Nat, owner : Workers \cup {None}, live : BOOLEAN]
<1>2. job \in JobType /\ ver \in [status : {"issuing", "valid", "failed"},
                                  key : Keys \cup {None}, order : Orders \cup {None}]
  BY DEF AcmeInv, TypeOK
<1>3. job' \in JobType
  <2>1. [job EXCEPT !.status = "failed", !.owner = None, !.live = FALSE] \in JobType
    BY <1>2
  <2>2. [status |-> "pending", owner |-> None, live |-> FALSE, attempt |-> job.attempt + 1] \in JobType
    BY <1>2
  <2> QED
    BY <1>2, <2>1, <2>2, Zenon DEF FailIssuanceJob
<1> HIDE DEF JobType
<1>4. ver' = ver \/ ver' = [ver EXCEPT !.status = "failed"]
  BY DEF FailIssuanceJob
<1>5. UNCHANGED <<row, usedKeys, external>> /\ Become(w, Idle)
  BY DEF FailIssuanceJob
<1>6. /\ ver' \in [status : {"issuing", "valid", "failed"},
                   key : Keys \cup {None}, order : Orders \cup {None}]
      /\ ver'.key = ver.key /\ ver'.order = ver.order
      /\ ver'.status = "valid" => ver' = ver
  BY <1>2, <1>4
<1>7. actor' \in [Actors -> ActorStates] => TypeOK'
  BY <1>3, <1>5, <1>6 DEF AcmeInv, TypeOK, Actors, external, JobType
<1>8. /\ Idle \in ActorStates /\ Idle.pc = "idle" /\ Idle.order = None
      /\ Idle.rows \cup Idle.todo = {}
  BY DEF Idle, ActorStates, PCs
<1> QED
  BY <1>0, <1>1, <1>5, <1>6, <1>7, <1>8, VersionStep

----------------------------------------------------------------------------
(* One step for every action of Next.                                      *)
LEMMA StepInv == AcmeInv /\ [Next]_vars => AcmeInv'
<1> SUFFICES ASSUME AcmeInv, [Next]_vars
             PROVE  AcmeInv'
  OBVIOUS
<1>1. ASSUME NEW w \in Workers, WorkerStep(w)
      PROVE  AcmeInv'
  BY <1>1, JobSteps, FailsStep, LoadVersionStep, CreateOrderStep, OrderReads, PrepareStep,
     FetchAuthorizationStep, RecordStep, NextStageStep, PresentStep, MarkSteps, PropagationStep,
     AcceptStep, FinalizeStep, StoreStep, ListStep, FailJobStep
  DEF WorkerStep
<1>2. ASSUME NEW a \in Workers \cup Cleaners, CleanupStep(a)
      PROVE  AcmeInv'
  BY <1>2, CleanupStepHolds DEF Actors
<1>3. CASE UNCHANGED vars
  <2>1. UNCHANGED <<job, ver, row, actor, usedKeys, order, authz, txt>>
    BY <1>3 DEF vars, local, external
  <2>2. TypeOK' /\ VersionInv' /\ FinalizedOrders' /\ TXTRecorded'
    BY <2>1 DEF AcmeInv, TypeOK, VersionInv, MaterialMatchesKey, FinalizedOrders, TXTRecorded, RowsOf
  <2>3. \A a \in Actors : LocalInv(actor[a])'
    BY <2>1 DEF AcmeInv, LocalInv, Bound, Recorded
  <2>4. \A a, b \in Actors : Agree(actor[a], actor[b])'
    BY <2>1 DEF AcmeInv, Agree
  <2> QED
    BY <2>2, <2>3, <2>4 DEF AcmeInv
<1>4. ASSUME NEW fault, Fault(fault)
      PROVE  AcmeInv'
  BY <1>4, LeaseExpiresStep, StopsStep, ListStep, MarkCleanupStep DEF Fault, Actors
<1> QED
  BY <1>1, <1>2, <1>3, <1>4, ListStep, ValidateStep DEF Next, Work

(* The invariant that the theorems below follow from.                      *)
THEOREM AcmeInvariant == Spec => []AcmeInv
  BY InitInv, StepInv, PTL DEF Spec

(* The rows, the actors and the CA keep their types.                       *)
THEOREM AcmeTypes == Spec => []TypeOK
<1>1. AcmeInv => TypeOK
  BY DEF AcmeInv
<1> QED
  BY <1>1, AcmeInvariant, PTL

(* The order of a version is finalized with the key of the version or not  *)
(* at all, whichever workers generated, ordered, prepared, finalized and   *)
(* stored (workers/certificate_issuance.go:completeClaimedJob).            *)
THEOREM CertificatesMatchKeys == Spec => []MaterialMatchesKey
<1>1. AcmeInv => MaterialMatchesKey
  BY DEF AcmeInv, VersionInv
<1> QED
  BY <1>1, AcmeInvariant, PTL

(* A TXT value is published only when a row of it has been inserted,       *)
(* whichever workers, attempts and faults there are.                       *)
THEOREM ValuesAreRecorded == Spec => []TXTRecorded
<1>1. AcmeInv => TXTRecorded
  BY DEF AcmeInv
<1> QED
  BY <1>1, AcmeInvariant, PTL

----------------------------------------------------------------------------
(* Attempts: one worker is at work at a time, and what the rows say is     *)
(* published is published, or the clean-up that removed it says so next.   *)

Unsettled(r) == row[r] \in {"pending", "presented"}
Published(r) == row[r] \in {"presented", "cleanup_pending"}
Undisturbed == \A c \in Cleaners : At(c, "off")

OneAtWork == \A w \in Workers : actor[w].pc # "idle" => Fenced(w)

OneRow == \A r, q \in Recorded : ChallengeOf(r) = ChallengeOf(q) => r = q

StagePCs == {"ensure", "record", "present", "mark_presented", "propagate", "accept", "mark_accepted"}

(* An attempt starts with no row; what it has left to do in a stage is its *)
(* own, and it inserts the first row of a challenge.                       *)
Tidy(x) ==
    /\ x.pc \in {"load", "order", "prepare"} => x.rows = {} /\ x.todo = {}
    /\ x.pc \in StagePCs => x.todo \subseteq x.rows
    /\ x.pc \in {"mark_presented", "mark_accepted"} => x.cur \in x.rows
    /\ x.pc = "record" => \A r \in Recorded : ChallengeOf(r) # ChallengeOf(x.cur)

(* The actor will mark the row, or list it for clean-up.                   *)
WillSettle(x, r) ==
    \/ x.pc \in {"ensure", "record", "present", "mark_presented", "propagate"} /\ r \in x.rows
    \/ x.pc \in {"accept", "mark_accepted", "cleaning", "mark_cleaned"} /\ r \in x.todo
    \/ x.pc = "list"

(* The actor marks the row next, after its clean-up.                       *)
Marks(x, r) == x.pc = "mark_cleaned" /\ x.cur = r

(* What an attempt has not left to publish is published.                   *)
Publishes(x) ==
    /\ x.pc \in {"ensure", "record", "present", "mark_presented"} =>
           \A r \in x.rows \ x.todo : ChallengeOf(r) \in txt
    /\ x.pc = "mark_presented" => ChallengeOf(x.cur) \in txt
    /\ x.pc \in {"propagate", "accept", "mark_accepted", "wait"} =>
           \A r \in x.rows : ChallengeOf(r) \in txt

Attempts ==
    /\ OneAtWork
    /\ OneRow
    /\ \A w \in Workers : Tidy(actor[w])
    /\ faults = {} => \A r \in Rows : Unsettled(r) => \E w \in Workers : WillSettle(actor[w], r)
    /\ Undisturbed =>
          /\ \A w \in Workers : Publishes(actor[w])
          /\ \A r \in Rows : Published(r) =>
                ChallengeOf(r) \in txt \/ \E w \in Workers : Marks(actor[w], r)

AttemptInv == faults \subseteq Faults /\ (Traced => Attempts)

LEMMA IdleTidies ==
    /\ Idle.pc = "idle" /\ Tidy(Idle) /\ Publishes(Idle)
    /\ \A r \in Rows : ~WillSettle(Idle, r) /\ ~Marks(Idle, r)
BY DEF Idle, Tidy, Publishes, WillSettle, Marks, StagePCs

LEMMA AttemptInit == ASSUME RetryInit PROVE AttemptInv
<1>1. \A w \in Workers : actor[w] = Idle
  BY AcmeAssumption DEF RetryInit, Init
<1>2. \A r \in Rows : ~Unsettled(r) /\ ~Published(r) /\ r \notin Recorded
  BY DEF RetryInit, Init, Unsettled, Published, Recorded
<1>3. OneRow
  BY <1>2 DEF OneRow, Recorded
<1> QED
  BY <1>1, <1>2, <1>3, IdleTidies DEF AttemptInv, Attempts, OneAtWork, RetryInit

(* While a worker is at work, the others are idle.                         *)
LEMMA OthersIdle ==
    ASSUME Attempts, NEW w \in Workers, actor[w].pc # "idle"
    PROVE  /\ Fenced(w) /\ \A v \in Workers \ {w} : actor[v].pc = "idle"
           /\ Tidy(actor[w])
           /\ faults = {} => \A r \in Rows : Unsettled(r) => WillSettle(actor[w], r)
           /\ Undisturbed => Publishes(actor[w])
           /\ Undisturbed => \A r \in Rows :
                  Published(r) => ChallengeOf(r) \in txt \/ Marks(actor[w], r)
<1>1. Fenced(w) /\ \A v \in Workers \ {w} : actor[v].pc = "idle"
  BY DEF Attempts, OneAtWork, Fenced
<1>2. \A v \in Workers \ {w}, r \in Rows : ~WillSettle(actor[v], r) /\ ~Marks(actor[v], r)
  BY <1>1 DEF WillSettle, Marks
<1> QED
  BY <1>1, <1>2 DEF Attempts

(* What is left to show of a step of the worker that is at work.           *)
LEMMA WorkStep ==
    ASSUME AcmeInv, Attempts, NEW w \in Workers, NEW x, Become(w, x),
           \A v \in Workers \ {w} : actor[v].pc = "idle",
           x.pc # "idle" => Fenced(w)',
           OneRow', Tidy(x)',
           faults' = {} => \A r \in Rows : Unsettled(r)' => WillSettle(x, r),
           Undisturbed => Publishes(x)',
           Undisturbed => \A r \in Rows : Published(r)' => ChallengeOf(r) \in txt' \/ Marks(x, r)
    PROVE  Attempts'
<1>1. /\ actor' = [actor EXCEPT ![w] = x]
      /\ actor \in [Actors -> ActorStates]
  BY DEF Become, AcmeInv, TypeOK, Actors
<1>2. actor'[w] = x /\ \A b \in Actors \ {w} : actor'[b] = actor[b]
  BY <1>1 DEF Actors
<1>3. \A v \in Workers \ {w} : actor'[v] = actor[v] /\ actor'[v].pc = "idle"
  BY <1>2 DEF Actors
<1>4. \A c \in Cleaners : actor'[c] = actor[c]
  BY <1>2, AcmeAssumption DEF Actors
<1>5. OneAtWork'
  BY <1>2, <1>3 DEF OneAtWork
<1>6. \A v \in Workers : Tidy(actor[v])'
  BY <1>2, <1>3 DEF Tidy, Recorded, StagePCs
<1>7. faults' = {} => \A r \in Rows : Unsettled(r)' => \E v \in Workers : WillSettle(actor[v], r)'
  BY <1>2 DEF WillSettle
<1>8. Undisturbed' => Undisturbed
  BY <1>4 DEF Undisturbed, At
<1>9. Undisturbed' => \A v \in Workers : Publishes(actor[v])'
  BY <1>2, <1>3, <1>8 DEF Publishes
<1>10. Undisturbed' => \A r \in Rows : Published(r)' =>
          (ChallengeOf(r) \in txt \/ \E v \in Workers : Marks(actor[v], r))'
  BY <1>2, <1>8 DEF Marks, ChallengeOf
<1> QED
  BY <1>5, <1>6, <1>7, <1>9, <1>10 DEF Attempts

(* A step of it that changes neither a row nor the job.                    *)
LEMMA WorkOn ==
    ASSUME AcmeInv, Attempts, UNCHANGED faults, NEW w \in Workers, NEW x, Become(w, x),
           actor[w].pc # "idle", UNCHANGED <<job, row>>, Tidy(x),
           \A r \in Rows : Unsettled(r) /\ WillSettle(actor[w], r) => WillSettle(x, r),
           Undisturbed /\ Publishes(actor[w]) => Publishes(x)',
           \A r \in Rows : Published(r) /\ (ChallengeOf(r) \in txt \/ Marks(actor[w], r))
                             => ChallengeOf(r) \in txt' \/ Marks(x, r)
    PROVE  Attempts'
<1>1. Fenced(w)'
  BY OthersIdle DEF Fenced
<1>2. \A r \in Rows : (Unsettled(r)' <=> Unsettled(r)) /\ (Published(r)' <=> Published(r))
  BY DEF Unsettled, Published
<1>3. OneRow' /\ Tidy(x)'
  BY DEF Attempts, OneRow, Tidy, Recorded
<1> QED
  BY <1>1, <1>2, <1>3, OthersIdle, WorkStep

(* The clean-up that follows a failure lists every row.                    *)
LEMMA FailureTidies ==
    ASSUME AcmeInv, Attempts, UNCHANGED faults, NEW w \in Workers, NEW retryable, GoFail(w, retryable),
           actor[w].pc \in CallPCs \cup {"load"}, UNCHANGED <<job, row>>, txt \subseteq txt'
    PROVE  Attempts'
<1>0. PICK x : x = [actor[w] EXCEPT !.pc = "list", !.retry = retryable]
  OBVIOUS
<1>1. actor[w] \in ActorStates
  BY DEF AcmeInv, LocalInv, Actors
<1>2. x.pc = "list" /\ Become(w, x)
  BY <1>0, <1>1 DEF GoFail, ActorStates
<1>3. Tidy(x) /\ Publishes(x)' /\ \A r \in Rows : WillSettle(x, r)
  BY <1>2 DEF Tidy, Publishes, WillSettle, StagePCs
<1>4. actor[w].pc # "idle" /\ \A r \in Rows : ~Marks(actor[w], r)
  BY DEF Marks, CallPCs
<1> QED
  BY <1>2, <1>3, <1>4, WorkOn

(* A worker that goes to another place takes the rest along.               *)
LEMMA PlaceTidies ==
    ASSUME AcmeInv, Attempts, UNCHANGED faults, NEW w \in Workers, NEW pc, GoTo(w, pc),
           actor[w].pc # "idle", UNCHANGED <<job, row, txt>>,
           \/ actor[w].pc = "order" /\ pc = "prepare"
           \/ actor[w].pc \in {"wait", "finalize", "fetch", "store"} /\ pc \in {"finalize", "fetch", "store", "finish"}
           \/ actor[w].pc = "load" /\ pc = "finish"
           \/ actor[w].pc = "cleaning" /\ actor[w].todo = {} /\ pc \in {"idle", "list_failed", "fail"}
    PROVE  Attempts'
<1>0. PICK s, x : s = actor[w] /\ x = [s EXCEPT !.pc = pc]
  OBVIOUS
<1>1. s \in ActorStates
  BY <1>0 DEF AcmeInv, LocalInv, Actors
<1>2. x.pc = pc /\ x.rows = s.rows /\ x.todo = s.todo /\ x.cur = s.cur /\ Become(w, x)
  BY <1>0, <1>1 DEF GoTo, ActorStates
<1>3. Tidy(s)
  BY <1>0, OthersIdle
<1>4. Tidy(x)
  BY <1>0, <1>2, <1>3 DEF Tidy, StagePCs
<1>5. \A r \in Rows : WillSettle(s, r) => WillSettle(x, r)
  BY <1>0, <1>2, <1>3 DEF WillSettle, Tidy
<1>6. \A r \in Rows : ~Marks(s, r)
  BY <1>0 DEF Marks
<1>7. Publishes(x)'
  BY <1>0, <1>2 DEF Publishes
<1> QED
  BY <1>0, <1>2, <1>4, <1>5, <1>6, <1>7, WorkOn

(* The job: claimed when nobody is at work, given back by who is.          *)
LEMMA ClaimTidies ==
    ASSUME AcmeInv, Attempts, UNCHANGED faults, NEW w \in Workers, ClaimNextIssuanceJob(w)
    PROVE  Attempts'
<1>0. PICK x : x = [Idle EXCEPT !.pc = "load"]
  OBVIOUS
<1>1. x.pc = "load" /\ x.rows = {} /\ x.todo = {}
  BY <1>0 DEF Idle
<1>2. /\ Become(w, x) /\ Claimable /\ UNCHANGED <<row, txt>> /\ w # None
      /\ job' = [status |-> "running", owner |-> w, live |-> TRUE,
                 attempt |-> IF job.status = "running" THEN job.attempt + 1 ELSE job.attempt]
  BY <1>0, AcmeAssumption DEF ClaimNextIssuanceJob, external
<1>3. \A v \in Workers : actor[v].pc = "idle"
  BY <1>2 DEF Attempts, OneAtWork, Fenced, Claimable
<1>4. \A v \in Workers, r \in Rows : ~WillSettle(actor[v], r) /\ ~Marks(actor[v], r)
  BY <1>3 DEF WillSettle, Marks
<1>5. Fenced(w)'
  BY <1>2 DEF Fenced
<1>6. faults' = {} => \A r \in Rows : ~Unsettled(r)'
  BY <1>2, <1>4 DEF Attempts, Unsettled
<1>7. Undisturbed => \A r \in Rows : Published(r)' => ChallengeOf(r) \in txt'
  BY <1>2, <1>4 DEF Attempts, Published
<1>8. Tidy(x)' /\ Publishes(x)' /\ OneRow'
  BY <1>1, <1>2 DEF Tidy, Publishes, StagePCs, Attempts, OneRow, Recorded
<1> QED
  BY <1>2, <1>3, <1>5, <1>6, <1>7, <1>8, WorkStep

LEMMA EndTidies ==
    ASSUME AcmeInv, Attempts, UNCHANGED faults, NEW w \in Workers, SucceedIssuanceJob(w) \/ FailIssuanceJob(w)
    PROVE  Attempts'
<1>1. Become(w, Idle) /\ UNCHANGED <<row, txt>> /\ actor[w].pc \in {"finish", "fail"}
  BY DEF SucceedIssuanceJob, FailIssuanceJob, external, At
<1>2. PICK x : x = Idle
  OBVIOUS
<1>3. x.pc = "idle" /\ Tidy(x)' /\ Publishes(x)' /\ OneRow'
  <2>1. x.pc = "idle"
    BY <1>2, IdleTidies
  <2> QED
    BY <1>1, <2>1 DEF Tidy, Publishes, StagePCs, Attempts, OneRow, Recorded
<1>4. faults' = {} => \A r \in Rows : ~Unsettled(r)'
  BY <1>1, OthersIdle DEF Unsettled, WillSettle
<1>5. Undisturbed => \A r \in Rows : Published(r)' => ChallengeOf(r) \in txt'
  BY <1>1, OthersIdle DEF Published, Marks
<1> QED
  BY <1>1, <1>2, <1>3, <1>4, <1>5, OthersIdle, WorkStep

LEMMA StartTidies ==
    ASSUME AcmeInv, Attempts, UNCHANGED faults, NEW w \in Workers, LoadVersion(w) \/ CreateOrder(w) \/ FetchOrder(w)
    PROVE  Attempts'
<1>0. PICK s : s = actor[w]
  OBVIOUS
<1>1. /\ s \in ActorStates /\ s.pc \in {"load", "order"} /\ UNCHANGED <<job, row, txt>>
      /\ s.rows = {} /\ s.todo = {}
  <2>1. s \in ActorStates
    BY <1>0 DEF AcmeInv, LocalInv, Actors
  <2>2. s.pc \in {"load", "order"} /\ UNCHANGED <<job, row, txt>>
    BY <1>0 DEF LoadVersion, CreateOrder, FetchOrder, At, external
  <2> QED
    BY <1>0, <2>1, <2>2, OthersIdle DEF Tidy
<1>2. ASSUME NEW x, Become(w, x), x.pc \in {"order", "prepare"}, x.rows = {}, x.todo = {}
      PROVE  Attempts'
  <2>1. Tidy(x) /\ Publishes(x)'
    BY <1>2 DEF Tidy, Publishes, StagePCs
  <2>2. \A r \in Rows : ~WillSettle(s, r) /\ ~Marks(s, r)
    BY <1>1 DEF WillSettle, Marks
  <2> QED
    BY <1>0, <1>1, <1>2, <2>1, <2>2, WorkOn
<1>3. CASE LoadVersion(w)
  <2>1. s.pc = "load"
    BY <1>0, <1>3 DEF LoadVersion, At
  <2>2. CASE ver.status = "valid"
    <3>1. GoTo(w, "finish")
      BY <1>3, <2>2 DEF LoadVersion
    <3> QED
      BY <1>0, <1>1, <2>1, <3>1, PlaceTidies
  <2>3. CASE ver.status = "failed"
    <3>1. GoFail(w, FALSE)
      BY <1>3, <2>3 DEF LoadVersion
    <3> QED
      BY <1>0, <1>1, <3>1, FailureTidies DEF CallPCs
  <2>4. CASE ver.status = "issuing"
    <3>1. PICK k, x : x = [s EXCEPT !.pc = "order", !.key = k, !.order = ver.order] /\ Become(w, x)
      BY <1>0, <1>3, <2>4 DEF LoadVersion
    <3>2. x.pc = "order" /\ x.rows = s.rows /\ x.todo = s.todo
      BY <1>1, <3>1 DEF ActorStates
    <3> QED
      BY <1>1, <1>2, <3>1, <3>2
  <2> QED
    BY <2>2, <2>3, <2>4 DEF AcmeInv, TypeOK
<1>4. CASE CreateOrder(w)
  <2>1. PICK o, x : x = [s EXCEPT !.pc = "prepare", !.order = o] /\ Become(w, x)
    BY <1>0, <1>4 DEF CreateOrder
  <2>2. x.pc = "prepare" /\ x.rows = s.rows /\ x.todo = s.todo
    BY <1>1, <2>1 DEF ActorStates
  <2> QED
    BY <1>1, <1>2, <2>1, <2>2
<1>5. CASE FetchOrder(w)
  BY <1>0, <1>1, <1>5, PlaceTidies DEF FetchOrder, At
<1> QED
  BY <1>3, <1>4, <1>5

LEMMA PrepareTidies ==
    ASSUME AcmeInv, Attempts, UNCHANGED faults, NEW w \in Workers, PrepareIssuingVersion(w)
    PROVE  Attempts'
<1>0. PICK s, x : s = actor[w] /\ x = [s EXCEPT !.pc = "ensure", !.names = Names]
  OBVIOUS
<1>1. s \in ActorStates /\ s.pc = "prepare" /\ UNCHANGED <<job, row, txt>>
  BY <1>0 DEF AcmeInv, LocalInv, Actors, PrepareIssuingVersion, At, external
<1>2. s.rows = {} /\ s.todo = {}
  BY <1>0, <1>1, OthersIdle DEF Tidy
<1>3. CASE GoFail(w, FALSE)
  BY <1>0, <1>1, <1>3, FailureTidies DEF CallPCs
<1>4. CASE Become(w, x)
  <2>1. x.pc = "ensure" /\ x.rows = {} /\ x.todo = {}
    BY <1>0, <1>1, <1>2 DEF ActorStates
  <2>2. Tidy(x) /\ Publishes(x)'
    BY <2>1 DEF Tidy, Publishes, StagePCs
  <2>3. \A r \in Rows : ~WillSettle(s, r) /\ ~Marks(s, r)
    BY <1>1 DEF WillSettle, Marks
  <2> QED
    BY <1>0, <1>1, <1>4, <2>2, <2>3, WorkOn
<1> QED
  BY <1>0, <1>3, <1>4 DEF PrepareIssuingVersion

(* The rows of the attempt.  One that is not published again is published. *)
LEMMA EnsureTidies ==
    ASSUME AcmeInv, Attempts, UNCHANGED faults, NEW w \in Workers, NEW n \in Names,
           FetchAuthorization(w, n)
    PROVE  Attempts'
<1>0. PICK s, c : s = actor[w] /\ c = <<s.order, n>>
  OBVIOUS
<1>1. s \in ActorStates /\ s.pc = "ensure" /\ n \in s.names /\ UNCHANGED <<job, row, txt>>
  BY <1>0 DEF AcmeInv, LocalInv, Actors, FetchAuthorization, At, external
<1>2. /\ s.todo \subseteq s.rows
      /\ Undisturbed => /\ \A r \in s.rows \ s.todo : ChallengeOf(r) \in txt
                        /\ \A r \in Rows : Published(r) => ChallengeOf(r) \in txt
  BY <1>0, <1>1, OthersIdle DEF Tidy, StagePCs, Publishes, Marks
<1>3. ASSUME NEW x, Become(w, x), x.pc \in {"ensure", "record"}, x.todo \subseteq x.rows,
             s.rows \subseteq x.rows,
             x.pc = "record" => \A r \in Recorded : ChallengeOf(r) # ChallengeOf(x.cur),
             Undisturbed => \A r \in x.rows \ x.todo : ChallengeOf(r) \in txt
      PROVE  Attempts'
  <2>1. Tidy(x) /\ (Undisturbed => Publishes(x)')
    BY <1>1, <1>3 DEF Tidy, Publishes, StagePCs
  <2>2. \A r \in Rows : (WillSettle(s, r) => WillSettle(x, r)) /\ ~Marks(s, r)
    BY <1>1, <1>3 DEF WillSettle, Marks
  <2> QED
    BY <1>0, <1>1, <1>3, <2>1, <2>2, WorkOn
<1>4. CASE authz[c] = "valid"
  <2>1. PICK x : x = [s EXCEPT !.names = s.names \ {n}] /\ Become(w, x)
    BY <1>0, <1>4 DEF FetchAuthorization
  <2>2. x.pc = "ensure" /\ x.rows = s.rows /\ x.todo = s.todo
    BY <1>1, <2>1 DEF ActorStates
  <2> QED
    BY <1>2, <1>3, <2>1, <2>2
<1>5. CASE authz[c] # "valid" /\ RowsOf(c) # {}
  <2>1. PICK r, x : r \in RowsOf(c) /\ x = WithRow(s, n, r, row[r]) /\ Become(w, x)
    BY <1>0, <1>5 DEF FetchAuthorization
  <2>2. /\ x.pc = "ensure" /\ x.rows = s.rows \cup {r}
        /\ x.todo = IF NeedsPresent(row[r]) THEN s.todo \cup {r} ELSE s.todo
    BY <1>1, <2>1 DEF ActorStates, WithRow
  <2>3. r \in Rows /\ (~NeedsPresent(row[r]) => Published(r))
    BY <2>1 DEF RowsOf, NeedsPresent, Published
  <2> QED
    BY <1>2, <1>3, <2>1, <2>2, <2>3
<1>6. CASE authz[c] # "valid" /\ RowsOf(c) = {}
  <2>1. PICK cur, x : /\ cur = <<c[1], n, w>>
                      /\ x = [s EXCEPT !.pc = "record", !.cur = cur] /\ Become(w, x)
    BY <1>0, <1>6 DEF FetchAuthorization
  <2>2. x.pc = "record" /\ x.rows = s.rows /\ x.todo = s.todo /\ x.cur = cur
    BY <1>1, <2>1 DEF ActorStates
  <2>3. \A r \in Recorded : ChallengeOf(r) # ChallengeOf(x.cur)
    BY <1>0, <1>6, <2>1, <2>2 DEF RowsOf, Recorded, ChallengeOf
  <2> QED
    BY <1>2, <1>3, <2>1, <2>2, <2>3
<1> QED
  BY <1>0, <1>4, <1>5, <1>6

LEMMA RecordTidies ==
    ASSUME AcmeInv, Attempts, UNCHANGED faults, NEW w \in Workers, RecordDNSChallenge(w)
    PROVE  Attempts'
<1>0. PICK s, r, x : s = actor[w] /\ r = s.cur /\ x = WithRow(s, r[2], r, "pending")
  OBVIOUS
<1>1. /\ s \in ActorStates /\ s.pc = "record" /\ r \in Rows /\ UNCHANGED <<job, txt>>
      /\ row' = [row EXCEPT ![r] = "pending"] /\ Become(w, x)
  BY <1>0 DEF AcmeInv, LocalInv, Actors, RecordDNSChallenge, At, external, RowPCs
<1>2. /\ x.pc = "ensure" /\ x.rows = s.rows \cup {r} /\ x.names = s.names \ {r[2]}
      /\ x.todo = s.todo \cup {r}
  BY <1>0, <1>1 DEF ActorStates, WithRow, NeedsPresent
<1>3. \A q \in Rows \ {r} : row'[q] = row[q]
  BY <1>1 DEF AcmeInv, TypeOK
<1>4. Fenced(w)'
  BY <1>0, <1>1, OthersIdle DEF Fenced
<1>5. /\ Tidy(s) /\ (Undisturbed => Publishes(s))
      /\ Undisturbed => \A q \in Rows : Published(q) => ChallengeOf(q) \in txt
  BY <1>0, <1>1, OthersIdle DEF Marks
<1>6. OneRow'
  <2>1. Recorded' \subseteq Recorded \cup {r}
    BY <1>3 DEF Recorded
  <2>2. \A q \in Recorded : ChallengeOf(q) # ChallengeOf(r)
    BY <1>0, <1>1, <1>5 DEF Tidy
  <2> QED
    BY <2>1, <2>2 DEF Attempts, OneRow, ChallengeOf
<1>7. Tidy(x)' /\ (Undisturbed => Publishes(x)')
  BY <1>0, <1>1, <1>2, <1>5 DEF Tidy, Publishes, StagePCs
<1>8. faults' = {} => \A q \in Rows : Unsettled(q)' => WillSettle(x, q)
  BY <1>0, <1>1, <1>2, <1>3, OthersIdle DEF Unsettled, WillSettle
<1>9. Undisturbed => \A q \in Rows : Published(q)' => ChallengeOf(q) \in txt'
  <2>1. ~Published(r)'
    BY <1>1 DEF Published, AcmeInv, TypeOK
  <2> QED
    BY <1>1, <1>3, <1>5, <2>1 DEF Published
<1> QED
  BY <1>0, <1>1, <1>4, <1>6, <1>7, <1>8, <1>9, OthersIdle, WorkStep

LEMMA StageTidies ==
    ASSUME AcmeInv, Attempts, UNCHANGED faults, NEW w \in Workers, NextStage(w)
    PROVE  Attempts'
<1>0. PICK s, todo, x :
        /\ s = actor[w]
        /\ todo = CASE At(w, "ensure") -> s.todo [] At(w, "accept") -> {} [] OTHER -> s.rows
        /\ x = [s EXCEPT !.pc = StageAfter(s.pc), !.todo = todo]
  OBVIOUS
<1>1. /\ s \in ActorStates /\ s.pc \in {"ensure", "present", "propagate", "accept"} /\ StageDone(s)
      /\ Become(w, x) /\ UNCHANGED <<job, row, txt>>
  BY <1>0 DEF AcmeInv, LocalInv, Actors, NextStage, external
<1>2. x.pc = StageAfter(s.pc) /\ x.rows = s.rows /\ x.todo = todo
  BY <1>0, <1>1 DEF ActorStates
<1>3. Tidy(s) /\ (Undisturbed => Publishes(s))
  BY <1>0, <1>1, OthersIdle
<1>4. \/ s.pc = "ensure" /\ x.pc = "present" /\ x.todo = s.todo
      \/ s.pc = "present" /\ x.pc = "propagate" /\ s.todo = {} /\ x.todo = s.rows
      \/ s.pc = "propagate" /\ x.pc = "accept" /\ x.todo = s.rows
      \/ s.pc = "accept" /\ x.pc = "wait" /\ s.todo = {}
  BY <1>0, <1>1, <1>2 DEF At, StageAfter, StageDone
<1>5. Tidy(x) /\ (Undisturbed => Publishes(x)')
  BY <1>1, <1>2, <1>3, <1>4 DEF Tidy, Publishes, StagePCs
<1>6. \A r \in Rows : (WillSettle(s, r) => WillSettle(x, r)) /\ ~Marks(s, r)
  BY <1>1, <1>2, <1>3, <1>4 DEF WillSettle, Marks, Tidy
<1> QED
  BY <1>0, <1>1, <1>5, <1>6, WorkOn

LEMMA PresentTidies ==
    ASSUME AcmeInv, Attempts, UNCHANGED faults, NEW w \in Workers, NEW r \in Rows, PresentDNSChallenge(w, r)
    PROVE  Attempts'
<1>0. PICK s, x : s = actor[w] /\ x = [s EXCEPT !.pc = "mark_presented", !.cur = r]
  OBVIOUS
<1>1. /\ s \in ActorStates /\ s.pc = "present" /\ r \in s.todo /\ UNCHANGED <<job, row>>
      /\ txt' = txt \cup {ChallengeOf(r)}
  BY <1>0 DEF AcmeInv, LocalInv, Actors, PresentDNSChallenge, At
<1>2. CASE GoFail(w, TRUE)
  BY <1>0, <1>1, <1>2, FailureTidies DEF CallPCs
<1>3. CASE Become(w, x)
  <2>1. x.pc = "mark_presented" /\ x.rows = s.rows /\ x.todo = s.todo /\ x.cur = r
    BY <1>0, <1>1 DEF ActorStates
  <2>2. Tidy(x) /\ (Undisturbed => Publishes(x)')
    BY <1>0, <1>1, <2>1, OthersIdle DEF Tidy, Publishes, StagePCs
  <2>3. \A q \in Rows : (WillSettle(s, q) => WillSettle(x, q)) /\ ~Marks(s, q)
    BY <1>1, <2>1 DEF WillSettle, Marks
  <2> QED
    BY <1>0, <1>1, <1>3, <2>2, <2>3, WorkOn
<1> QED
  BY <1>0, <1>2, <1>3 DEF PresentDNSChallenge

LEMMA AcceptTidies ==
    ASSUME AcmeInv, Attempts, UNCHANGED faults, NEW w \in Workers, NEW r \in Rows,
           WaitForPropagation(w, r) \/ AcceptChallenge(w, r)
    PROVE  Attempts'
<1>0. PICK s : s = actor[w]
  OBVIOUS
<1>1. s \in ActorStates /\ s.pc \in {"propagate", "accept"} /\ UNCHANGED <<job, row, txt>>
  BY <1>0 DEF AcmeInv, LocalInv, Actors, WaitForPropagation, AcceptChallenge, At, external
<1>2. ASSUME NEW x, Become(w, x), x.rows = s.rows,
             \/ s.pc = "propagate" /\ x.pc = "propagate" /\ x.todo \subseteq s.todo
             \/ s.pc = "accept" /\ x.pc = "mark_accepted" /\ x.todo = s.todo /\ x.cur \in s.todo
      PROVE  Attempts'
  <2>1. Tidy(x) /\ (Undisturbed => Publishes(x)')
    BY <1>0, <1>1, <1>2, OthersIdle DEF Tidy, Publishes, StagePCs
  <2>2. \A q \in Rows : (WillSettle(s, q) => WillSettle(x, q)) /\ ~Marks(s, q)
    BY <1>2 DEF WillSettle, Marks
  <2> QED
    BY <1>0, <1>1, <1>2, <2>1, <2>2, WorkOn
<1>3. CASE WaitForPropagation(w, r)
  <2>1. PICK x : x = [s EXCEPT !.todo = s.todo \ {r}] /\ Become(w, x)
    BY <1>0, <1>3 DEF WaitForPropagation
  <2>2. s.pc = "propagate" /\ x.pc = "propagate" /\ x.rows = s.rows /\ x.todo \subseteq s.todo
    BY <1>0, <1>1, <1>3, <2>1 DEF ActorStates, WaitForPropagation, At
  <2> QED
    BY <1>2, <2>1, <2>2
<1>4. CASE AcceptChallenge(w, r)
  <2>1. PICK x : x = [s EXCEPT !.pc = "mark_accepted", !.cur = r] /\ (Become(w, x) \/ GoFail(w, TRUE))
    BY <1>0, <1>4 DEF AcceptChallenge
  <2>2. /\ s.pc = "accept" /\ x.pc = "mark_accepted" /\ x.rows = s.rows /\ x.todo = s.todo
        /\ x.cur \in s.todo
    BY <1>0, <1>1, <1>4, <2>1 DEF ActorStates, AcceptChallenge, At
  <2>3. CASE GoFail(w, TRUE)
    BY <1>0, <1>1, <2>3, FailureTidies DEF CallPCs
  <2> QED
    BY <1>2, <2>1, <2>2, <2>3
<1> QED
  BY <1>3, <1>4

(* The statements that mark a row: the attempt has it left to mark.        *)
LEMMA MarkTidies ==
    ASSUME AcmeInv, Attempts, UNCHANGED faults, NEW w \in Workers,
           MarkDNSChallengePresented(w) \/ MarkAccepted(w)
    PROVE  Attempts'
<1>0. PICK s, r, x, pc :
        s = actor[w] /\ r = s.cur /\ x = AfterMark(s, pc)
        /\ pc = IF s.pc = "mark_presented" THEN "present" ELSE "accept"
  OBVIOUS
<1>1. /\ s \in ActorStates /\ r \in Rows /\ UNCHANGED <<job, txt>> /\ Become(w, x)
      /\ \/ s.pc = "mark_presented" /\ pc = "present"
            /\ row' = [row EXCEPT ![r] = IF @ \in PresentedFrom THEN "presented" ELSE @]
         \/ s.pc = "mark_accepted" /\ pc = "accept" /\ row' = [row EXCEPT ![r] = "cleanup_pending"]
  BY <1>0 DEF AcmeInv, LocalInv, Actors, MarkDNSChallengePresented, MarkAccepted, At, external, RowPCs
<1>2. x.pc = pc /\ x.rows = s.rows /\ x.todo = s.todo \ {r}
  BY <1>0, <1>1 DEF ActorStates, AfterMark
<1>3. \A q \in Rows \ {r} : row'[q] = row[q]
  BY <1>1 DEF AcmeInv, TypeOK
<1>4. pc = "accept" => row'[r] = "cleanup_pending"
  BY <1>1 DEF AcmeInv, TypeOK
<1>5. Fenced(w)'
  BY <1>0, <1>1, OthersIdle DEF Fenced
<1>6. OneRow' /\ Tidy(x)'
  <2>1. r \in Recorded /\ s.todo \subseteq s.rows
    BY <1>0, <1>1, OthersIdle DEF Tidy, StagePCs, AcmeInv, LocalInv, Actors
  <2>2. Recorded' \subseteq Recorded
    BY <1>3, <2>1 DEF Recorded
  <2> QED
    BY <1>1, <1>2, <2>1, <2>2 DEF Attempts, OneRow, Tidy, StagePCs
<1>7. Undisturbed => /\ Publishes(x)'
                     /\ \A q \in Rows : Published(q)' => ChallengeOf(q) \in txt'
  <2>1. Undisturbed => ChallengeOf(r) \in txt
    BY <1>0, <1>1, OthersIdle DEF Tidy, Publishes
  <2>2. Undisturbed => Publishes(x)'
    BY <1>0, <1>1, <1>2, <2>1, OthersIdle DEF Publishes
  <2>3. \A q \in Rows : Published(q)' => q = r \/ Published(q)
    BY <1>3 DEF Published
  <2>4. \A q \in Rows : ~Marks(s, q)
    BY <1>1 DEF Marks
  <2> QED
    BY <1>0, <1>1, <2>1, <2>2, <2>3, <2>4, OthersIdle
<1>8. faults' = {} => \A q \in Rows : Unsettled(q)' => WillSettle(x, q)
  <2>1. CASE s.pc = "mark_presented"
    BY <1>0, <1>1, <1>2, <1>3, <2>1, OthersIdle DEF Unsettled, WillSettle, Tidy
  <2>2. CASE s.pc = "mark_accepted"
    BY <1>0, <1>1, <1>2, <1>3, <1>4, <2>2, OthersIdle DEF Unsettled, WillSettle
  <2> QED
    BY <1>1, <2>1, <2>2
<1> QED
  BY <1>0, <1>1, <1>5, <1>6, <1>7, <1>8, OthersIdle, WorkStep

LEMMA OrderTidies ==
    ASSUME AcmeInv, Attempts, UNCHANGED faults, NEW w \in Workers,
           WaitOrder(w) \/ FinalizeOrder(w) \/ FetchCertificate(w) \/ StoreMaterial(w)
    PROVE  Attempts'
<1>1. /\ actor[w].pc \in {"wait", "finalize", "fetch", "store"} /\ UNCHANGED <<job, row, txt>>
      /\ \/ \E pc \in {"finalize", "fetch", "store", "finish"} : GoTo(w, pc)
         \/ \E retryable \in BOOLEAN : GoFail(w, retryable)
  <2>1. CASE WaitOrder(w)
    BY <2>1 DEF WaitOrder, At, external
  <2>2. CASE FinalizeOrder(w)
    BY <2>2 DEF FinalizeOrder, At
  <2>3. CASE FetchCertificate(w) \/ StoreMaterial(w)
    BY <2>3 DEF FetchCertificate, StoreMaterial, At, external
  <2> QED
    BY <2>1, <2>2, <2>3
<1>2. CASE \E pc \in {"finalize", "fetch", "store", "finish"} : GoTo(w, pc)
  BY <1>1, <1>2, PlaceTidies
<1>3. CASE \E retryable \in BOOLEAN : GoFail(w, retryable)
  BY <1>1, <1>3, FailureTidies DEF CallPCs
<1> QED
  BY <1>1, <1>2, <1>3

(* Clean-up by the worker whose attempt failed.                            *)
LEMMA ListTidies ==
    ASSUME AcmeInv, Attempts, UNCHANGED faults, NEW w \in Workers, ListRecordedChallenges(w)
    PROVE  Attempts'
<1>0. PICK s, x : /\ s = actor[w]
                  /\ x = [s EXCEPT !.pc = "cleaning", !.todo = RowsIn(Removable), !.then = "fail"]
  OBVIOUS
<1>1. /\ s \in ActorStates /\ s.pc = "list" /\ UNCHANGED <<job, row, txt>> /\ Become(w, x)
  BY <1>0 DEF AcmeInv, LocalInv, Actors, ListRecordedChallenges, At, external, Listed
<1>2. x.pc = "cleaning" /\ x.todo = RowsIn(Removable)
  BY <1>0, <1>1 DEF ActorStates
<1>3. Tidy(x) /\ Publishes(x)'
  BY <1>2 DEF Tidy, Publishes, StagePCs
<1>4. \A r \in Rows : (Unsettled(r) => WillSettle(x, r)) /\ ~Marks(s, r)
  BY <1>1, <1>2 DEF Unsettled, WillSettle, Marks, RowsIn, Removable, RowStatuses
<1> QED
  BY <1>0, <1>1, <1>3, <1>4, WorkOn

LEMMA CleanTidies ==
    ASSUME AcmeInv, Attempts, UNCHANGED faults, NEW w \in Workers, CleanupStep(w)
    PROVE  Attempts'
<1>0. PICK s : s = actor[w]
  OBVIOUS
<1>1. s \in ActorStates /\ s.pc \in {"cleaning", "mark_cleaned"} /\ UNCHANGED job
  BY <1>0 DEF AcmeInv, LocalInv, Actors, CleanupStep, CleanupDNSChallenge, MarkDNSChallengeCleanup,
              CleaningDone, At
<1>2. ASSUME NEW r \in Rows, CleanupDNSChallenge(w, r)
      PROVE  Attempts'
  <2>1. PICK gone, x : x = [s EXCEPT !.pc = "mark_cleaned", !.cur = r, !.gone = gone] /\ Become(w, x)
    BY <1>0, <1>2 DEF CleanupDNSChallenge
  <2>2. s.pc = "cleaning" /\ x.pc = "mark_cleaned" /\ x.todo = s.todo /\ UNCHANGED row
    BY <1>0, <1>1, <1>2, <2>1 DEF ActorStates, CleanupDNSChallenge, At
  <2>3. Tidy(x) /\ Publishes(x)'
    BY <2>2 DEF Tidy, Publishes, StagePCs
  <2>4. \A q \in Rows : WillSettle(s, q) => WillSettle(x, q)
    BY <2>2 DEF WillSettle
  <2>5. r \in Recorded
    BY <1>0, <1>2 DEF CleanupDNSChallenge, AcmeInv, LocalInv, Actors
  <2>6. ASSUME NEW q \in Rows, Published(q), ChallengeOf(q) \in txt \/ Marks(s, q)
        PROVE  ChallengeOf(q) \in txt' \/ Marks(x, q)
    <3>1. ChallengeOf(q) \in txt /\ txt \ {ChallengeOf(r)} \subseteq txt'
      BY <1>2, <2>2, <2>6 DEF Marks, CleanupDNSChallenge
    <3>2. ChallengeOf(q) = ChallengeOf(r) => q = r
      BY <2>5, <2>6 DEF Attempts, OneRow, Recorded, Published
    <3>3. x.cur = r
      BY <1>1, <2>1 DEF ActorStates
    <3> QED
      BY <2>2, <3>1, <3>2, <3>3 DEF Marks
  <2> QED
    BY <1>0, <1>1, <2>1, <2>2, <2>3, <2>4, <2>6, WorkOn
<1>3. CASE MarkDNSChallengeCleanup(w)
  <2>1. PICK r, x : r = s.cur /\ x = AfterMark(s, "cleaning") /\ Become(w, x)
    BY <1>0, <1>3 DEF MarkDNSChallengeCleanup
  <2>2. s.pc = "mark_cleaned" /\ r \in Rows /\ x.pc = "cleaning" /\ x.todo = s.todo \ {r}
    BY <1>0, <1>1, <1>3, <2>1
    DEF ActorStates, AfterMark, MarkDNSChallengeCleanup, At, AcmeInv, LocalInv, Actors, RowPCs
  <2>3. row' = [row EXCEPT ![r] = IF actor[w].gone THEN "cleaned" ELSE "cleanup_failed"]
    BY <1>0, <1>3, <2>1 DEF MarkDNSChallengeCleanup
  <2>4. row'[r] \in {"cleaned", "cleanup_failed"} /\ \A q \in Rows \ {r} : row'[q] = row[q]
    BY <2>2, <2>3 DEF AcmeInv, TypeOK
  <2>5. Publishes(x)' /\ Fenced(w)'
    BY <1>0, <1>1, <2>2, OthersIdle DEF Publishes, Fenced
  <2>6. OneRow' /\ Tidy(x)'
    <3>1. r \in Recorded
      BY <1>0, <2>1, <2>2 DEF AcmeInv, LocalInv, Actors
    <3>2. Recorded' \subseteq Recorded
      BY <2>4, <3>1 DEF Recorded
    <3> QED
      BY <2>2, <3>2 DEF Attempts, OneRow, Tidy, StagePCs
  <2>7. faults' = {} => \A q \in Rows : Unsettled(q)' => WillSettle(x, q)
    BY <1>0, <2>2, <2>4, OthersIdle DEF Unsettled, WillSettle
  <2>8. Undisturbed => \A q \in Rows : Published(q)' => ChallengeOf(q) \in txt'
    BY <1>0, <1>3, <2>1, <2>2, <2>4, OthersIdle DEF Published, Marks, MarkDNSChallengeCleanup, external
  <2> QED
    BY <1>0, <1>1, <2>1, <2>5, <2>6, <2>7, <2>8, OthersIdle, WorkStep
<1>4. CASE CleaningDone(w)
  <2>1. /\ s.pc = "cleaning" /\ s.todo = {} /\ GoTo(w, s.then) /\ UNCHANGED <<job, row, txt>>
        /\ s.then \in {"idle", "list_failed", "fail"}
    BY <1>0, <1>1, <1>4 DEF CleaningDone, At, external, ActorStates
  <2> QED
    BY <1>0, <2>1, PlaceTidies
<1> QED
  BY <1>2, <1>3, <1>4 DEF CleanupStep

(* A dns_cleanup job leaves a row cleaned, or listed for the next one.     *)
LEMMA CleanerTidies ==
    ASSUME AcmeInv, Attempts, UNCHANGED faults, NEW c \in Cleaners,
           ListCleanupPending(c) \/ ListCleanupFailed(c) \/ CleanupStep(c)
    PROVE  Attempts'
<1>1. actor[c].pc # "off" /\ UNCHANGED job
  BY DEF ListCleanupPending, ListCleanupFailed, CleanupStep, CleanupDNSChallenge,
         MarkDNSChallengeCleanup, CleaningDone, At
<1>2. actor[c] \in ActorStates /\ actor \in [Actors -> ActorStates]
  BY DEF AcmeInv, LocalInv, TypeOK, Actors
<1>3. PICK x : Become(c, x) /\ x.pc # "off"
  <2>1. CASE ListCleanupPending(c) \/ ListCleanupFailed(c)
    <3>1. PICK todo, then, x :
            x = [actor[c] EXCEPT !.pc = "cleaning", !.todo = todo, !.then = then] /\ Become(c, x)
      BY <2>1 DEF ListCleanupPending, ListCleanupFailed, Listed
    <3>2. x.pc = "cleaning"
      BY <1>2, <3>1 DEF ActorStates
    <3> QED
      BY <3>1, <3>2
  <2>2. CASE \E r \in Rows : CleanupDNSChallenge(c, r)
    <3>1. PICK r, gone, x :
            x = [actor[c] EXCEPT !.pc = "mark_cleaned", !.cur = r, !.gone = gone] /\ Become(c, x)
      BY <2>2 DEF CleanupDNSChallenge
    <3>2. x.pc = "mark_cleaned"
      BY <1>2, <3>1 DEF ActorStates
    <3> QED
      BY <3>1, <3>2
  <2>3. CASE MarkDNSChallengeCleanup(c)
    <3>1. PICK x : x = AfterMark(actor[c], "cleaning") /\ Become(c, x)
      BY <2>3 DEF MarkDNSChallengeCleanup
    <3>2. x.pc = "cleaning"
      BY <1>2, <3>1 DEF AfterMark, ActorStates
    <3> QED
      BY <3>1, <3>2
  <2>4. CASE CleaningDone(c)
    BY <1>2, <2>4 DEF CleaningDone, GoTo, ActorStates
  <2> QED
    BY <2>1, <2>2, <2>3, <2>4 DEF CleanupStep
<1>4. actor'[c] = x /\ \A w \in Workers : actor'[w] = actor[w]
  BY <1>2, <1>3, AcmeAssumption DEF Become, Actors
<1>5. /\ \A r \in Rows : Unsettled(r)' => Unsettled(r)
      /\ Recorded' \subseteq Recorded
  <2>1. UNCHANGED row \/ MarkDNSChallengeCleanup(c)
    BY DEF ListCleanupPending, ListCleanupFailed, CleanupStep, CleanupDNSChallenge, CleaningDone
  <2>2. UNCHANGED row \/ \E status \in {"cleaned", "cleanup_failed"}, r \in Recorded :
                            row' = [row EXCEPT ![r] = status]
    BY <2>1 DEF MarkDNSChallengeCleanup, AcmeInv, LocalInv, Actors, RowPCs, At
  <2> QED
    BY <2>2 DEF Unsettled, Recorded, AcmeInv, TypeOK
<1>7. OneAtWork' /\ OneRow' /\ \A w \in Workers : Tidy(actor[w])'
  BY <1>1, <1>4, <1>5 DEF Attempts, OneAtWork, OneRow, Fenced, Tidy
<1>8. faults' = {} => \A r \in Rows : Unsettled(r)' => \E w \in Workers : WillSettle(actor[w], r)'
  BY <1>4, <1>5 DEF Attempts, WillSettle
<1>9. ~Undisturbed'
  BY <1>3, <1>4 DEF Undisturbed, At
<1> QED
  BY <1>7, <1>8, <1>9 DEF Attempts

(* A worker that stops leaves what the rows say as it is.  Between a       *)
(* clean-up and its record that is a fault of another kind.                *)
LEMMA StopTidies ==
    ASSUME AcmeInv, Attempts, faults' # {}, NEW a \in Actors, Stops(a, "stop")
    PROVE  Attempts'
<1>0. PICK x : x = Idle
  OBVIOUS
<1>1. /\ actor[a].pc \notin {"off", "idle", "mark_cleaned"} /\ Become(a, x)
      /\ UNCHANGED <<job, row, txt>>
  BY <1>0 DEF Stops, At, external
<1>2. /\ x.pc = "idle" /\ Tidy(x)' /\ Publishes(x)'
  <2>1. x.pc = "idle"
    BY <1>0, IdleTidies
  <2> QED
    BY <2>1 DEF Tidy, Publishes, StagePCs
<1>3. OneRow'
  BY <1>1 DEF Attempts, OneRow, Recorded
<1>4. CASE a \in Workers
  <2>1. Undisturbed => \A r \in Rows : Published(r)' => ChallengeOf(r) \in txt'
    BY <1>1, <1>4, OthersIdle DEF Published, Marks
  <2> QED
    BY <1>1, <1>2, <1>3, <1>4, <2>1, OthersIdle, WorkStep
<1>5. CASE a \in Cleaners
  <2>1. actor'[a] = x /\ \A w \in Workers : actor'[w] = actor[w]
    BY <1>1, <1>5, AcmeAssumption DEF Become, AcmeInv, TypeOK, Actors
  <2>2. ~Undisturbed'
    BY <1>2, <1>5, <2>1 DEF Undisturbed, At
  <2>3. OneAtWork' /\ \A w \in Workers : Tidy(actor[w])'
    BY <1>1, <2>1 DEF Attempts, OneAtWork, Fenced, Tidy, Recorded
  <2> QED
    BY <1>3, <2>2, <2>3 DEF Attempts
<1> QED
  BY <1>4, <1>5 DEF Actors

(* Without the list, the worker ends its attempt and cleans nothing.       *)
LEMMA ListFailureTidies ==
    ASSUME AcmeInv, Attempts, faults' # {}, NEW w \in Workers, ListFails(w)
    PROVE  Attempts'
<1>0. PICK x : x = [actor[w] EXCEPT !.pc = "fail"]
  OBVIOUS
<1>1. /\ actor[w] \in ActorStates /\ actor[w].pc = "list" /\ UNCHANGED <<job, row, txt>>
      /\ Become(w, x)
  BY <1>0 DEF AcmeInv, LocalInv, Actors, ListFails, GoTo, At, external
<1>2. x.pc = "fail"
  BY <1>0, <1>1 DEF ActorStates
<1>3. Tidy(x)' /\ Publishes(x)' /\ OneRow' /\ Fenced(w)'
  BY <1>1, <1>2, OthersIdle DEF Tidy, Publishes, StagePCs, Attempts, OneRow, Recorded, Fenced
<1>4. Undisturbed => \A r \in Rows : Published(r)' => ChallengeOf(r) \in txt'
  BY <1>1, OthersIdle DEF Published, Marks
<1> QED
  BY <1>1, <1>3, <1>4, OthersIdle, WorkStep

(* The lease of a worker that has stopped runs out: nobody is at work.     *)
LEMMA ExpiryTidies ==
    ASSUME Attempts, faults' # {}, LeaseExpires("stop")
    PROVE  Attempts'
<1>1. UNCHANGED <<row, actor, txt>> /\ actor[job.owner].pc = "idle"
  BY DEF LeaseExpires, At, local, external
<1>2. \A w \in Workers : actor[w].pc = "idle"
  BY <1>1 DEF Attempts, OneAtWork, Fenced
<1>3. OneAtWork'
  BY <1>1, <1>2 DEF OneAtWork
<1> QED
  BY <1>1, <1>3 DEF Attempts, OneRow, Tidy, Recorded, Undisturbed, At, Published, Publishes, Marks

(* Nobody at work moves when the CA validates, or nothing does.            *)
LEMMA OthersTidy ==
    ASSUME Attempts, UNCHANGED <<job, row, actor, txt, faults>>
    PROVE  Attempts'
BY DEF Attempts, OneAtWork, OneRow, Fenced, Tidy, Recorded, Unsettled, Published, Undisturbed, At,
       WillSettle, Marks, Publishes

LEMMA WorkTidies ==
    ASSUME AcmeInv, Attempts, Work, UNCHANGED faults
    PROVE  Attempts'
<1>1. ASSUME NEW w \in Workers, WorkerStep(w)
      PROVE  Attempts'
  <2>1. ASSUME NEW retryable \in BOOLEAN, StepFails(w, retryable)
        PROVE  Attempts'
    <3>1. actor[w].pc \in CallPCs /\ GoFail(w, retryable) /\ UNCHANGED <<job, row, txt>>
      BY <2>1 DEF StepFails, external
    <3> QED
      BY <3>1, FailureTidies
  <2> QED
    BY <1>1, <2>1, ClaimTidies, EndTidies, StartTidies, PrepareTidies, EnsureTidies, RecordTidies,
       StageTidies, PresentTidies, AcceptTidies, MarkTidies, OrderTidies, ListTidies
    DEF WorkerStep
<1>2. ASSUME NEW c \in Cleaners, ListCleanupPending(c) \/ ListCleanupFailed(c) \/ CleanupStep(c)
      PROVE  Attempts'
  BY <1>2, CleanerTidies
<1>3. ASSUME NEW w \in Workers, CleanupStep(w)
      PROVE  Attempts'
  BY <1>3, CleanTidies
<1>4. ASSUME NEW o \in Orders, NEW n \in Names, ValidateChallenge(o, n)
      PROVE  Attempts'
  BY <1>4, OthersTidy DEF ValidateChallenge, local
<1> QED
  BY <1>1, <1>2, <1>3, <1>4 DEF Work

LEMMA AttemptStep ==
    ASSUME AcmeInv, AttemptInv, [RetryNext]_<<vars, faults>>
    PROVE  AttemptInv'
<1>1. CASE Work /\ UNCHANGED faults
  BY <1>1, WorkTidies DEF AttemptInv, Traced
<1>2. ASSUME NEW fault \in Faults, Fault(fault), faults' = faults \cup {fault}
      PROVE  AttemptInv'
  <2>1. faults' \subseteq Faults
    BY <1>2 DEF AttemptInv
  <2>2. ASSUME Traced'
        PROVE  Attempts'
    <3>1. Traced /\ faults' # {} /\ fault \in {"stop", "list"}
      BY <1>2, <2>2, AcmeAssumption DEF Traced, FaultKinds
    <3>2. Attempts
      BY <3>1 DEF AttemptInv
    <3>3. CASE fault = "stop"
      BY <1>2, <3>1, <3>2, <3>3, StopTidies, ExpiryTidies DEF Fault, Actors
    <3>4. CASE fault = "list"
      BY <1>2, <3>1, <3>2, <3>4, ListFailureTidies DEF Fault, LeaseExpires, Stops
    <3> QED
      BY <3>1, <3>3, <3>4
  <2> QED
    BY <2>1, <2>2 DEF AttemptInv
<1>3. CASE UNCHANGED <<vars, faults>>
  BY <1>3, OthersTidy DEF AttemptInv, Traced, vars, local, external
<1> QED
  BY <1>1, <1>2, <1>3 DEF RetryNext

(* The history changes nothing: what holds of an issuance holds here.      *)
THEOREM RetriesAreIssuances == RetrySpec => Spec
<1>1. RetryInit => Init
  BY DEF RetryInit
<1>2. [RetryNext]_<<vars, faults>> => [Next]_vars
  BY DEF RetryNext, Next
<1> QED
  BY <1>1, <1>2, PTL DEF RetrySpec, Spec

(* Attempts, one worker at a time, while every clean-up is recorded.       *)
THEOREM AttemptsHold == RetrySpec => []AttemptInv
<1>1. RetryInit => AttemptInv
  BY AttemptInit
<1>2. AcmeInv /\ AttemptInv /\ [RetryNext]_<<vars, faults>> => AttemptInv'
  BY AttemptStep
<1> QED
  BY <1>1, <1>2, AcmeInvariant, RetriesAreIssuances, PTL DEF RetrySpec

(* A job that has ended without a fault leaves no row that dns_cleanup     *)
(* would not list, whatever failed and however clean-up jobs crossed it    *)
(* (workers/certificate_issuance.go:cleanupRecordedChallenges).            *)
THEOREM EndedJobsAreSettled == RetrySpec => []RowsSettled
<1>1. AcmeInv /\ AttemptInv => RowsSettled
  <2> SUFFICES ASSUME AcmeInv, AttemptInv, faults = {}, job.status \in {"succeeded", "failed"},
                      NEW r \in Rows
               PROVE  row[r] \in {"none", "cleanup_pending", "cleanup_failed", "cleaned"}
    BY DEF RowsSettled
  <2>1. Attempts
    BY DEF AttemptInv, Traced
  <2>2. \A w \in Workers : actor[w].pc = "idle"
    BY <2>1 DEF Attempts, OneAtWork, Fenced
  <2>3. ~Unsettled(r)
    BY <2>1, <2>2 DEF Attempts, WillSettle
  <2> QED
    BY <2>3 DEF Unsettled, AcmeInv, TypeOK, RowStatuses
<1> QED
  BY <1>1, AttemptsHold, AcmeInvariant, RetriesAreIssuances, PTL

(* A retry publishes again what an earlier attempt has removed before it   *)
(* waits for it, whether that attempt failed or its worker stopped, and    *)
(* whichever clean-ups failed or were never made, for as long as each that *)
(* was made is recorded, no worker is at work without the lease and no     *)
(* dns_cleanup job comes up                                                *)
(* (workers/certificate_issuance.go:presentAndValidate).                   *)
THEOREM RetriesDoPublish == RetrySpec => []RetriesPublishAgain
<1>1. AttemptInv => RetriesPublishAgain
  BY DEF AttemptInv, Attempts, RetriesPublishAgain, PublishedUntilValidated, Publishes, Undisturbed
<1> QED
  BY <1>1, AttemptsHold, PTL
=============================================================================
